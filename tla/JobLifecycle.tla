---------------------------- MODULE JobLifecycle ----------------------------
(***************************************************************************)
(* What the analysis queue promises to the caller of the HTTP API, without *)
(* the manager that delivers it: how the status of a job and the user's    *)
(* request to cancel it may evolve.                                        *)
(***************************************************************************)
EXTENDS JobTable

CONSTANT Jobs

VARIABLES status,   \* [Jobs -> Status]
          asked     \* the jobs whose cancellation a user was granted

vars == <<status, asked>>

Init ==
    /\ status = [j \in Jobs |-> "absent"]
    /\ asked = {}

Move(j, from, to) ==
    /\ status[j] = from
    /\ status' = [status EXCEPT ![j] = to]

Submit(j) == Move(j, "absent", "queued") /\ UNCHANGED asked

\* A job the user gave up is never started.
Start(j) == j \notin asked /\ Move(j, "queued", "running") /\ UNCHANGED asked

Finish(j) ==
    /\ \E outcome \in {"completed", "failed"} : Move(j, "running", outcome)
    /\ UNCHANGED asked

Cancel(j) ==
    /\ \/ Move(j, "queued", "cancelled")
       \/ status[j] = "running" /\ UNCHANGED status
    /\ asked' = asked \cup {j}

\* A job ends cancelled only when a user asked for it.
Stop(j) == j \in asked /\ Move(j, "running", "cancelled") /\ UNCHANGED asked

\* After a restart every interrupted job is queued again, or dropped when the
\* user gave it up.
Recover ==
    /\ status' = [j \in Jobs |->
                    IF status[j] # "running" THEN status[j]
                    ELSE IF j \in asked THEN "cancelled" ELSE "queued"]
    /\ UNCHANGED asked

Next ==
    \/ \E j \in Jobs :
          Submit(j) \/ Start(j) \/ Finish(j) \/ Cancel(j) \/ Stop(j)
    \/ Recover

Spec == Init /\ [][Next]_vars
=============================================================================
