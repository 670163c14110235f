------------------------------ MODULE JobTable ------------------------------
(***************************************************************************)
(* One row of the analysis_jobs table and the statements                   *)
(* PostgresAnalysisJobRepository runs on it.  A statement is a function    *)
(* from the row it finds to the row it leaves: PostgreSQL runs each of     *)
(* them atomically, so the modules that use this table interleave whole    *)
(* statements.  An UPDATE whose WHERE clause does not match leaves the row *)
(* as it was.  The payload columns (kind, lottery, input, result, error)   *)
(* decide nothing here; started and finished say whether started_at and    *)
(* finished_at are non-NULL.                                               *)
(***************************************************************************)

Status == {"absent", "queued", "running", "completed", "failed", "cancelled"}

\* The statuses no statement leaves.
Terminal == {"completed", "failed", "cancelled"}

Row == [status : Status, cancelRequested : BOOLEAN,
        started : BOOLEAN, finished : BOOLEAN]

\* No row has been inserted under this id yet.
AbsentRow == [status |-> "absent", cancelRequested |-> FALSE,
              started |-> FALSE, finished |-> FALSE]

-----------------------------------------------------------------------------
\* INSERT of create(): the column defaults.
InsertedRow == [AbsentRow EXCEPT !.status = "queued"]

\* The WHERE clause of claimNext()'s sub-select.
Claimable(r) == r.status = "queued" /\ ~r.cancelRequested

ClaimedRow(r) == [r EXCEPT !.status = "running", !.started = TRUE]

\* complete(): only a running row is finished.
CompletedRow(r) ==
    IF r.status = "running"
    THEN [r EXCEPT !.status = "completed", !.finished = TRUE]
    ELSE r

\* fail() without its status guard.
FailedAnyRow(r) == [r EXCEPT !.status = "failed", !.finished = TRUE]

\* fail()
FailedRow(r) ==
    IF r.status = "running"
    THEN [r EXCEPT !.status = "failed", !.finished = TRUE]
    ELSE r

\* markCancelled()
MarkedCancelledRow(r) ==
    IF r.status = "running"
    THEN [r EXCEPT !.status = "cancelled", !.cancelRequested = TRUE,
                   !.finished = TRUE]
    ELSE r

\* The rows cancel() updates.
Cancellable(r) == r.status \in {"queued", "running"}

\* cancel(): a queued row is cancelled at once, a running one is only flagged.
CancelledRow(r) ==
    [r EXCEPT !.cancelRequested = TRUE,
              !.status   = IF @ = "queued" THEN "cancelled" ELSE @,
              !.finished = (r.status = "queued") \/ @]

\* recoverRunning(): a row left running goes back to the queue, unless its
\* cancellation was requested.
RecoveredRow(r) ==
    CASE r.status # "running" -> r
      [] r.status = "running" /\ r.cancelRequested ->
            [r EXCEPT !.status = "cancelled", !.finished = TRUE]
      [] OTHER ->
            [r EXCEPT !.status = "queued", !.started = FALSE, !.finished = FALSE]

-----------------------------------------------------------------------------
\* CONSTRAINT analysis_jobs_timestamps_check of migration 008.
TimestampsCheck(r) ==
    \/ r.status = "absent"
    \/ r.status = "queued"  /\ ~r.started /\ ~r.finished
    \/ r.status = "running" /\ r.started  /\ ~r.finished
    \/ r.status \in Terminal /\ r.finished
=============================================================================
