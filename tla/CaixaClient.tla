---------------------------- MODULE CaixaClient ----------------------------
(***************************************************************************)
(* The HTTP boundary of the CAIXA sources: CaixaHttpClient.getJson(), its  *)
(* retries and the one deadline that the attempts and the pauses between   *)
(* them share, with the counters of caixaMetrics.ts.  Time is discrete and *)
(* counted per call; a timer fires when it is due, or up to MaxLate ticks  *)
(* later when the event loop is busy.                                      *)
(***************************************************************************)
EXTENDS Integers, FiniteSets

CONSTANTS
    Fetchers,       \* calls of getJson() that may be in flight together
    Budget,         \* policy.totalTimeoutMs
    MaxTries,       \* policy.maxAttempts
    BaseDelay,      \* policy.baseDelayMs
    MaxDelay,       \* policy.maxDelayMs
    MaxLate,        \* bound: ticks a due timer may wait for the event loop
    MaxGets         \* bound: logical requests of the behaviour

\* validatePolicy(): what the constructor accepts (the ranges in milliseconds
\* are left out: the clock of the model has its own unit).
ASSUME PolicyAssumption ==
    /\ Budget \in Nat \ {0} /\ MaxTries \in 1 .. 5
    /\ BaseDelay \in Nat /\ MaxDelay \in Nat /\ BaseDelay <= MaxDelay
    /\ MaxLate \in Nat

VARIABLES
    gets,           \* the state of each call
    caixaMetrics    \* the counters of the process

caixaVars == <<gets, caixaMetrics>>

\* A CaixaHttpError carries its status: 408, 429 and 5xx ("unavailable") may pass,
\* the other ones ("http") not.
HttpErrors == {"unavailable", "http", "not-found"}
Transient == {"network", "unavailable"}
Errors == {"timeout", "network", "invalid-response"} \cup HttpErrors
AttemptOutcomes == {"success", "success-after-retry", "http-error",
                    "network-error", "timeout", "invalid-response"}

\* elapsed: this.now() - startedAt; due: ticks until the timer that matters in
\* this state fires (-1 when none is armed); late: how long it has been due.
NoGet == [at |-> "idle", attempt |-> 0, elapsed |-> 0, due |-> 0, late |-> 0,
          lastError |-> "none"]

EmptyMetrics ==
    [requests |-> 0, successes |-> 0, errors |-> 0, timeouts |-> 0,
     retries |-> 0, attemptOutcomes |-> [o \in AttemptOutcomes |-> 0]]

CaixaInit ==
    /\ gets = [f \in Fetchers |-> NoGet]
    /\ caixaMetrics = EmptyMetrics

Active == {"fetching", "reading", "sleeping"}
Remaining(g) == IF g.elapsed >= Budget THEN 0 ELSE Budget - g.elapsed

Recorded(m, outcome) == [m EXCEPT !.attemptOutcomes[outcome] = @ + 1]

Requested(m, outcome, attempts) ==
    LET counter == CASE outcome = "success" -> "successes"
                     [] outcome = "timeout" -> "timeouts"
                     [] OTHER -> "errors"
    IN  [m EXCEPT !.requests = @ + 1, !.retries = @ + (attempts - 1), ![counter] = @ + 1]

\* The call reaches a place of the loop and arms the timer of that place.
Reaches(g, place, attempt, due, error) ==
    [at |-> place, attempt |-> attempt, elapsed |-> g.elapsed, due |-> due, late |-> 0,
     lastError |-> error]

\* The end of getJson(): the error is thrown after it was counted.
Rejected(g, attempt, error) == Reaches(g, "failed", attempt, 0, error)
RejectedMetrics(m, attempts, error) ==
    Requested(m, IF error = "timeout" THEN "timeout" ELSE "error", attempts)

\* The head of the loop: the deadline may have passed during a pause.  The
\* abort signal of the attempt is armed with all that is left.
Attempted(g, attempt, error) == Reaches(g, "fetching", attempt, Remaining(g), error)

StartGet(f) ==
    /\ gets[f].at \in {"idle", "done", "failed"}
    /\ caixaMetrics.requests + Cardinality({h \in Fetchers : gets[h].at \in Active}) < MaxGets
    /\ gets' = [gets EXCEPT ![f] = Attempted(NoGet, 1, "none")]
    /\ UNCHANGED caixaMetrics

DelayAfter(attempt) ==
    LET exponential == BaseDelay * 2 ^ (attempt - 1)
    IN  IF exponential < MaxDelay THEN exponential ELSE MaxDelay

\* A plausible slip (used by a mutant): the pause is not held against the budget.
PauseAlways(g) == TRUE

\* After an attempt that may be repeated.  A pause that would not fit in what
\* is left of the budget ends the call as a timeout; a pause of zero goes
\* straight to the head of the loop.
PauseFits(g) == DelayAfter(g.attempt) < Budget - g.elapsed

AfterAttempt(f, error, m) ==
    LET g == gets[f]
        delay == DelayAfter(g.attempt)
    IN  IF ~PauseFits(g)
        THEN /\ gets' = [gets EXCEPT ![f] = Rejected(g, g.attempt, "timeout")]
             /\ caixaMetrics' = RejectedMetrics(m, g.attempt, "timeout")
        ELSE /\ gets' = [gets EXCEPT ![f] =
                   IF delay > 0 THEN Reaches(g, "sleeping", g.attempt, delay, error)
                                ELSE Attempted(g, g.attempt + 1, error)]
             /\ caixaMetrics' = m

GiveUp(f, error, m) ==
    /\ gets' = [gets EXCEPT ![f] = Rejected(@, @.attempt, error)]
    /\ caixaMetrics' = RejectedMetrics(m, gets[f].attempt, error)

\* response.ok is false; retryableStatus() tells which answers may be repeated.
AnswerNotOk(f) ==
    /\ gets[f].at = "fetching"
    /\ \E error \in HttpErrors :
         LET m == Recorded(caixaMetrics, "http-error")
         IN  IF error \notin Transient \/ gets[f].attempt = MaxTries
             THEN GiveUp(f, error, m)
             ELSE AfterAttempt(f, error, m)

\* A plausible slip (used by a mutant): the signal is disarmed with the headers.
AnswerDisarmed(f) ==
    /\ gets[f].at = "fetching"
    /\ gets' = [gets EXCEPT ![f] = [@ EXCEPT !.at = "reading", !.due = -1]]
    /\ UNCHANGED caixaMetrics

\* The headers arrive and the body is read under the same signal.
AnswerOk(f) ==
    /\ gets[f].at = "fetching"
    /\ gets' = [gets EXCEPT ![f] = [@ EXCEPT !.at = "reading"]]
    /\ UNCHANGED caixaMetrics

\* fetchImpl() rejects: the connection breaks, or the signal fires.
FetchThrows(f) ==
    /\ gets[f].at = "fetching"
    /\ \E error \in IF gets[f].due = 0 THEN {"timeout", "network"} ELSE {"network"} :
         LET m == Recorded(caixaMetrics, IF error = "timeout" THEN "timeout" ELSE "network-error")
         IN  IF gets[f].attempt = MaxTries THEN GiveUp(f, error, m)
                                           ELSE AfterAttempt(f, error, m)

BodyArrives(f) ==
    /\ gets[f].at = "reading"
    /\ gets' = [gets EXCEPT ![f] = Reaches(@, "done", @.attempt, 0, @.lastError)]
    /\ caixaMetrics' =
         Requested(Recorded(caixaMetrics, IF gets[f].attempt = 1 THEN "success"
                                          ELSE "success-after-retry"), "success", gets[f].attempt)

\* response.json() rejects: the text is not JSON, the connection breaks or the
\* signal fires while the body is read.  All three are the inner catch.
BodyFails(f) ==
    /\ gets[f].at = "reading"
    /\ gets' = [gets EXCEPT ![f] = Rejected(@, @.attempt, "invalid-response")]
    /\ caixaMetrics' = RejectedMetrics(Recorded(caixaMetrics, "invalid-response"),
                                       gets[f].attempt, "invalid-response")

\* The pause is over: the loop goes on with the next attempt, and ends at its
\* head when the timer was so late that nothing is left.
WakeUp(f) ==
    /\ gets[f].at = "sleeping" /\ gets[f].due = 0
    /\ LET g == gets[f]
           next == g.attempt + 1
       IN  IF Remaining(g) < 1
           THEN /\ gets' = [gets EXCEPT ![f] = Rejected(g, next, "timeout")]
                /\ caixaMetrics' = RejectedMetrics(caixaMetrics, next, "timeout")
           ELSE /\ gets' = [gets EXCEPT ![f] = Attempted(g, next, g.lastError)]
                /\ UNCHANGED caixaMetrics

\* Time passes for one call.  A timer that is due may be MaxLate late.
Elapse(f) ==
    LET g == gets[f]
    IN  /\ g.at \in Active
        /\ g.due > 0 \/ g.late < MaxLate
        /\ gets' = [gets EXCEPT ![f] =
             [at |-> g.at, attempt |-> g.attempt, elapsed |-> g.elapsed + 1,
              due |-> IF g.due > 0 THEN g.due - 1 ELSE 0,
              late |-> IF g.due > 0 THEN 0 ELSE g.late + 1, lastError |-> g.lastError]]
        /\ UNCHANGED caixaMetrics

\* What a timer of the process guarantees: the signal or the pause ends.
TimerFires(f) ==
    \/ WakeUp(f)
    \/ gets[f].due = 0 /\ FetchThrows(f)
    \/ gets[f].due = 0 /\ BodyFails(f)

CaixaStep(f) == StartGet(f) \/ AnswerNotOk(f) \/ AnswerOk(f) \/ FetchThrows(f)
             \/ BodyArrives(f) \/ BodyFails(f) \/ WakeUp(f) \/ Elapse(f)
CaixaNext == \E f \in Fetchers : CaixaStep(f)

\* The clock advances and a due timer fires in the end; an answer may never come.
CaixaFairness == \A f \in Fetchers : WF_caixaVars(Elapse(f)) /\ WF_caixaVars(TimerFires(f))
CaixaSpec == CaixaInit /\ [][CaixaNext]_caixaVars /\ CaixaFairness

-----------------------------------------------------------------------------
\* Every call is in a state of the loop and the counters count.
CaixaTypeOK ==
    /\ gets \in [Fetchers -> [at : Active \cup {"idle", "done", "failed"},
                              attempt : 0 .. MaxTries,
                              elapsed : 0 .. Budget + MaxDelay + 2 * MaxLate, due : -1 .. Budget,
                              late : 0 .. MaxLate, lastError : Errors \cup {"none"}]]
    /\ \A c \in {"requests", "successes", "errors", "timeouts", "retries"} :
         caixaMetrics[c] \in Nat
    /\ caixaMetrics.attemptOutcomes \in [AttemptOutcomes -> Nat]

\* The last error, the attempts and the time agree (getJson(), the break
\* statements): a transient failure is reported only when every attempt was
\* used, a timeout only when the attempts are used up or the next pause would
\* not have fitted in what was left of the budget, and no call outlives its
\* budget by more than the lateness of one timer.
GivesUpForAReason ==
    \A f \in Fetchers :
      LET g == gets[f]
          finished == g.at = "failed"
      IN  /\ finished /\ g.lastError \in Transient => g.attempt = MaxTries
          /\ finished /\ g.lastError = "timeout" =>
               g.attempt = MaxTries \/ g.elapsed + DelayAfter(g.attempt) >= Budget
          /\ g.elapsed <= Budget + MaxLate

\* Every call of getJson() returns or throws, whatever CAIXA does: the signal of
\* an attempt is armed with what is left, and the attempts are bounded.
CallsSettle == \A f \in Fetchers : gets[f].at \in Active ~> gets[f].at \notin Active
=============================================================================
