--------------------------- MODULE PlatformProofs ---------------------------
(***************************************************************************)
(* Proofs about the components around the application, for every value of  *)
(* their constants: the client of CAIXA, the limiters of the HTTP server,  *)
(* the notifications, the generator and the pages of the web client, and   *)
(* the run that composes them.  Each component has its inductive           *)
(* invariant, which is what its code keeps true between two steps, and the *)
(* theorems that follow.                                                   *)
(***************************************************************************)
EXTENDS MCPlatform, FiniteSetTheorems, SequenceTheorems, WellFoundedInduction, TLAPS

-----------------------------------------------------------------------------
(***************************************************************************)
(* The client of CAIXA.  The time a call has used and the timer it waits   *)
(* for stay within the budget, but for the lateness of one timer.          *)
(***************************************************************************)

GetPlaces == Active \cup {"idle", "done", "failed"}
GetRecords == [at : GetPlaces, attempt : 0 .. MaxTries, elapsed : Nat, due : Nat,
               late : 0 .. MaxLate, lastError : Errors \cup {"none"}]

\* The clock of a call and the timer it waits for, within the budget.
TimerFits(g) ==
    /\ g.at \in Active => g.attempt >= 1 /\ (g.due > 0 => g.late = 0)
    \* The signal of an attempt is armed with all that is left.
    /\ g.at \in {"fetching", "reading"} =>
         IF g.due > 0 THEN g.elapsed + g.due = Budget ELSE g.elapsed = Budget + g.late
    \* A pause ends before the budget does, but for the lateness of its timer.
    /\ g.at = "sleeping" =>
         g.attempt < MaxTries /\ g.elapsed + g.due <= Budget + g.late
    /\ g.elapsed <= Budget + MaxLate
    /\ g.at \notin Active => g.due = 0

GaveUp(g) ==
    g.at = "failed" =>
      /\ g.lastError \in Transient => g.attempt = MaxTries
      /\ g.lastError = "timeout" =>
           g.attempt = MaxTries \/ g.elapsed + DelayAfter(g.attempt) >= Budget

GetOK(g) == g \in GetRecords /\ TimerFits(g) /\ GaveUp(g)

CaixaInv == gets \in [Fetchers -> GetRecords] /\ \A f \in Fetchers : GetOK(gets[f])

LEMMA DelaysAreNatural ==
  ASSUME NEW n \in 1 .. MaxTries
  PROVE  DelayAfter(n) \in Nat
<1>1. n \in 1 .. 5
  BY PolicyAssumption DEF PolicyAssumption
<1>2. 2 ^ (n - 1) \in Nat
  <2>1. 2 ^ 0 \in Nat /\ 2 ^ 1 \in Nat /\ 2 ^ 2 \in Nat /\ 2 ^ 3 \in Nat /\ 2 ^ 4 \in Nat
    OBVIOUS
  <2>2. n - 1 = 0 \/ n - 1 = 1 \/ n - 1 = 2 \/ n - 1 = 3 \/ n - 1 = 4
    BY <1>1
  <2> QED BY <2>1, <2>2
<1> DEFINE power == 2 ^ (n - 1)
<1> HIDE DEF power
<1>3. BaseDelay * power \in Nat
  BY <1>2, PolicyAssumption DEF PolicyAssumption, power
<1>4. DelayAfter(n) = IF BaseDelay * power < MaxDelay THEN BaseDelay * power ELSE MaxDelay
  BY DEF DelayAfter, power
<1> QED BY <1>3, <1>4, PolicyAssumption DEF PolicyAssumption

LEMMA CaixaStarts == CaixaInit => CaixaInv
<1> USE PolicyAssumption DEF PolicyAssumption
<1> SUFFICES ASSUME CaixaInit PROVE CaixaInv
  OBVIOUS
<1>1. GetOK(NoGet)
  BY DEF GetOK, GetRecords, GetPlaces, TimerFits, GaveUp, NoGet, Active
<1>2. gets = [f \in Fetchers |-> NoGet] /\ NoGet \in GetRecords
  BY <1>1 DEF CaixaInit, GetOK
<1> QED BY <1>1, <1>2 DEF CaixaInv

\* One call moves and the others keep theirs.
LEMMA OneGet ==
  ASSUME CaixaInv, NEW f \in Fetchers, NEW g, GetOK(g), gets' = [gets EXCEPT ![f] = g]
  PROVE  CaixaInv'
<1>1. \A h \in Fetchers : gets'[h] = IF h = f THEN g ELSE gets[h]
  BY DEF CaixaInv
<1>2. DOMAIN gets' = Fetchers
  BY DEF CaixaInv
<1>3. \A h \in Fetchers : GetOK(gets'[h])
  BY <1>1 DEF CaixaInv
<1> QED BY <1>2, <1>3 DEF CaixaInv, GetOK, TimerFits, GaveUp

\* What is left of the budget arms the next attempt.
LEMMA AttemptOK ==
  ASSUME NEW g, GetOK(g) \/ g = NoGet, NEW n \in 1 .. MaxTries, NEW error \in Errors \cup {"none"},
         g.elapsed < Budget
  PROVE  GetOK(Attempted(g, n, error))
<1> USE PolicyAssumption DEF PolicyAssumption
<1>1. g.elapsed \in Nat /\ Remaining(g) = Budget - g.elapsed
  BY DEF GetOK, GetRecords, NoGet, Remaining
<1> QED BY <1>1 DEF Attempted, Reaches, GetOK, GetRecords, GetPlaces, TimerFits, GaveUp, Active

LEMMA RejectedOK ==
  ASSUME NEW g, GetOK(g), NEW n \in 1 .. MaxTries, NEW error \in Errors,
         error \in Transient => n = MaxTries,
         error = "timeout" => n = MaxTries \/ g.elapsed + DelayAfter(n) >= Budget
  PROVE  GetOK(Rejected(g, n, error))
<1> USE PolicyAssumption DEF PolicyAssumption
<1> QED
  BY DelaysAreNatural
  DEF Rejected, Reaches, GetOK, GetRecords, GetPlaces, TimerFits, GaveUp, Active, Transient

LEMMA AfterAttemptOK ==
  ASSUME CaixaInv, NEW f \in Fetchers, gets[f].at = "fetching", gets[f].attempt # MaxTries,
         NEW error \in Errors, NEW m, AfterAttempt(f, error, m)
  PROVE  CaixaInv'
<1> USE PolicyAssumption DEF PolicyAssumption
<1> DEFINE g == gets[f]
           n == g.attempt
           delay == DelayAfter(n)
<1>1. GetOK(g) /\ n \in 1 .. MaxTries /\ n < MaxTries /\ g.elapsed \in Nat /\ g.elapsed <= Budget + MaxLate
  BY DEF CaixaInv, GetOK, GetRecords, TimerFits, Active
<1>2. delay \in Nat
  BY <1>1, DelaysAreNatural
<1>3. CASE ~PauseFits(g)
  <2>1. gets' = [gets EXCEPT ![f] = Rejected(g, n, "timeout")]
    BY <1>3 DEF AfterAttempt
  <2>2. g.elapsed + delay >= Budget
    BY <1>1, <1>2, <1>3 DEF PauseFits
  <2>3. GetOK(Rejected(g, n, "timeout"))
    BY <1>1, <2>2, RejectedOK DEF Errors, Transient
  <2> QED BY <2>1, <2>3, OneGet
<1>4. CASE PauseFits(g) /\ delay > 0
  <2>1. gets' = [gets EXCEPT ![f] = Reaches(g, "sleeping", n, delay, error)]
    BY <1>4 DEF AfterAttempt
  <2>2. delay < Budget - g.elapsed
    BY <1>4 DEF PauseFits
  <2> HIDE DEF delay
  <2>3. GetOK(Reaches(g, "sleeping", n, delay, error))
    BY <1>1, <1>2, <1>4, <2>2 DEF Reaches, GetOK, GetRecords, GetPlaces, TimerFits, GaveUp, Active
  <2> QED BY <2>1, <2>3, OneGet
<1>5. CASE PauseFits(g) /\ delay = 0
  <2>1. gets' = [gets EXCEPT ![f] = Attempted(g, n + 1, error)]
    BY <1>5 DEF AfterAttempt
  <2>2. g.elapsed < Budget
    BY <1>1, <1>2, <1>5 DEF PauseFits
  <2>3. n + 1 \in 1 .. MaxTries /\ error \in Errors \cup {"none"} /\ GetOK(g)
    BY <1>1
  <2> HIDE DEF g
  <2>4. GetOK(Attempted(g, n + 1, error))
    BY <2>2, <2>3, AttemptOK
  <2> QED BY <2>1, <2>4, OneGet
<1> QED BY <1>2, <1>3, <1>4, <1>5

LEMMA GiveUpOK ==
  ASSUME CaixaInv, NEW f \in Fetchers, gets[f].at \in {"fetching", "reading"},
         NEW error \in Errors,
         error \in Transient \cup {"timeout"} => gets[f].attempt = MaxTries,
         gets' = [gets EXCEPT ![f] = Rejected(gets[f], gets[f].attempt, error)]
  PROVE  CaixaInv'
<1>1. GetOK(gets[f]) /\ gets[f].attempt \in 1 .. MaxTries
  BY PolicyAssumption DEF CaixaInv, GetOK, GetRecords, TimerFits, Active, PolicyAssumption
<1>2. GetOK(Rejected(gets[f], gets[f].attempt, error))
  BY <1>1, RejectedOK DEF Transient
<1> QED BY <1>2, OneGet

LEMMA ReadingRecord ==
  ASSUME NEW g \in GetRecords
  PROVE  [g EXCEPT !.at = "reading"] \in GetRecords
<1>1. \A a, n, e, d, l, x :
        [[at |-> a, attempt |-> n, elapsed |-> e, due |-> d, late |-> l, lastError |-> x]
           EXCEPT !.at = "reading"]
        = [at |-> "reading", attempt |-> n, elapsed |-> e, due |-> d, late |-> l, lastError |-> x]
  OBVIOUS
<1>2. PICK a \in GetPlaces, n \in 0 .. MaxTries, e \in Nat, d \in Nat, l \in 0 .. MaxLate,
           x \in Errors \cup {"none"} :
        g = [at |-> a, attempt |-> n, elapsed |-> e, due |-> d, late |-> l, lastError |-> x]
  BY DEF GetRecords
<1>3. [g EXCEPT !.at = "reading"]
        = [at |-> "reading", attempt |-> n, elapsed |-> e, due |-> d, late |-> l, lastError |-> x]
  BY <1>1, <1>2
<1> QED BY <1>2, <1>3 DEF GetRecords, GetPlaces, Active

LEMMA CaixaKeeps == CaixaInv /\ [CaixaNext]_caixaVars => CaixaInv'
<1> USE PolicyAssumption DEF PolicyAssumption
<1> SUFFICES ASSUME CaixaInv, [CaixaNext]_caixaVars PROVE CaixaInv'
  OBVIOUS
<1>1. CASE UNCHANGED caixaVars
  BY <1>1 DEF caixaVars, CaixaInv, GetOK, TimerFits, GaveUp
<1>2. ASSUME NEW f \in Fetchers, CaixaStep(f) PROVE CaixaInv'
  <2> DEFINE g == gets[f]
  <2>1. GetOK(g)
    BY DEF CaixaInv
  <2>2. g.attempt \in Nat /\ g.attempt <= MaxTries /\ (g.at \in Active => g.attempt >= 1)
    BY <2>1 DEF GetOK, GetRecords, TimerFits
  <2>10. CASE StartGet(f)
    <3>1. gets' = [gets EXCEPT ![f] = Attempted(NoGet, 1, "none")]
      BY <2>10 DEF StartGet
    <3>2. NoGet.elapsed < Budget
      BY DEF NoGet
    <3>3. GetOK(Attempted(NoGet, 1, "none"))
      BY <3>2, AttemptOK
    <3> QED BY <3>1, <3>3, OneGet
  <2>11. CASE AnswerNotOk(f)
    <3> DEFINE m == Recorded(caixaMetrics, "http-error")
    <3>1. PICK error \in HttpErrors :
            IF error \notin Transient \/ gets[f].attempt = MaxTries
            THEN GiveUp(f, error, m)
            ELSE AfterAttempt(f, error, m)
      BY <2>11 DEF AnswerNotOk
    <3>2. gets[f].at = "fetching" /\ error \in Errors /\ error # "timeout"
      BY <2>11, <3>1 DEF AnswerNotOk, Errors, HttpErrors
    <3> HIDE DEF m
    <3>3. CASE error \notin Transient \/ gets[f].attempt = MaxTries
      BY <3>1, <3>2, <3>3, GiveUpOK DEF GiveUp
    <3>4. CASE ~(error \notin Transient \/ gets[f].attempt = MaxTries)
      BY <3>1, <3>2, <3>4, AfterAttemptOK
    <3> QED BY <3>3, <3>4
  <2>12. CASE AnswerOk(f)
    <3> DEFINE h == [g EXCEPT !.at = "reading"]
    <3>1. gets' = [gets EXCEPT ![f] = h] /\ g.at = "fetching"
      BY <2>12 DEF AnswerOk
    <3>2. h \in GetRecords
      BY <2>1, ReadingRecord DEF GetOK
    <3>3. /\ h.at = "reading" /\ h.attempt = g.attempt /\ h.elapsed = g.elapsed
          /\ h.due = g.due /\ h.late = g.late
      BY <2>1 DEF GetOK, GetRecords
    <3> HIDE DEF h
    <3>4. GetOK(h)
      BY <2>1, <3>1, <3>2, <3>3 DEF GetOK, TimerFits, GaveUp, Active
    <3> QED BY <3>1, <3>4, OneGet
  <2>13. CASE FetchThrows(f)
    <3>1. PICK error \in {"timeout", "network"} :
            LET m == Recorded(caixaMetrics, IF error = "timeout" THEN "timeout" ELSE "network-error")
            IN  IF gets[f].attempt = MaxTries THEN GiveUp(f, error, m)
                                              ELSE AfterAttempt(f, error, m)
      BY <2>13 DEF FetchThrows
    <3>2. gets[f].at = "fetching" /\ error \in Errors
      BY <2>13 DEF FetchThrows, Errors
    <3>3. CASE gets[f].attempt = MaxTries
      BY <3>1, <3>2, <3>3, GiveUpOK DEF GiveUp
    <3>4. CASE gets[f].attempt # MaxTries
      BY <3>1, <3>2, <3>4, AfterAttemptOK
    <3> QED BY <3>3, <3>4
  <2>14. CASE BodyArrives(f)
    <3>1. gets' = [gets EXCEPT ![f] = Reaches(g, "done", g.attempt, 0, g.lastError)]
      BY <2>14 DEF BodyArrives
    <3>2. GetOK(Reaches(g, "done", g.attempt, 0, g.lastError))
      BY <2>1 DEF Reaches, GetOK, GetRecords, GetPlaces, TimerFits, GaveUp, Active
    <3> QED BY <3>1, <3>2, OneGet
  <2>15. CASE BodyFails(f)
    BY <2>15, GiveUpOK DEF BodyFails, Errors, Transient
  <2>16. CASE WakeUp(f)
    <3>1. g.at = "sleeping" /\ g.due = 0 /\ g.attempt + 1 \in 1 .. MaxTries
      BY <2>1, <2>2, <2>16 DEF WakeUp, GetOK, TimerFits
    <3>2. g.elapsed \in Nat /\ g.lastError \in Errors \cup {"none"}
      BY <2>1 DEF GetOK, GetRecords
    <3>3. CASE Remaining(g) < 1
      <4>1. gets' = [gets EXCEPT ![f] = Rejected(g, g.attempt + 1, "timeout")]
        BY <2>16, <3>3 DEF WakeUp
      <4>2. g.elapsed >= Budget
        BY <3>2, <3>3 DEF Remaining
      <4>3. DelayAfter(g.attempt + 1) \in Nat
        BY <3>1, DelaysAreNatural
      <4>4. g.elapsed + DelayAfter(g.attempt + 1) >= Budget
        BY <3>2, <4>2, <4>3
      <4> DEFINE next == g.attempt + 1
      <4> HIDE DEF next
      <4>5. next \in 1 .. MaxTries /\ g.elapsed + DelayAfter(next) >= Budget
        BY <3>1, <4>4 DEF next
      <4>6. GetOK(Rejected(g, next, "timeout"))
        BY <2>1, <4>5, RejectedOK DEF Errors, Transient
      <4> QED BY <4>1, <4>6, OneGet DEF next
    <3>4. CASE ~(Remaining(g) < 1)
      <4>1. gets' = [gets EXCEPT ![f] = Attempted(g, g.attempt + 1, g.lastError)]
        BY <2>16, <3>4 DEF WakeUp
      <4>2. g.elapsed < Budget
        BY <3>2, <3>4 DEF Remaining
      <4>3. GetOK(Attempted(g, g.attempt + 1, g.lastError))
        BY <2>1, <3>1, <3>2, <4>2, AttemptOK
      <4> QED BY <4>1, <4>3, OneGet
    <3> QED BY <3>3, <3>4
  <2>17. CASE Elapse(f)
    <3> DEFINE h == [at |-> g.at, attempt |-> g.attempt, elapsed |-> g.elapsed + 1,
                     due |-> IF g.due > 0 THEN g.due - 1 ELSE 0,
                     late |-> IF g.due > 0 THEN 0 ELSE g.late + 1, lastError |-> g.lastError]
    <3>1. gets' = [gets EXCEPT ![f] = h] /\ g.at \in Active /\ (g.due > 0 \/ g.late < MaxLate)
      BY <2>17 DEF Elapse
    <3>2. /\ g.due \in Nat /\ g.late \in 0 .. MaxLate /\ g.elapsed \in Nat
          /\ g.attempt \in 0 .. MaxTries /\ g.lastError \in Errors \cup {"none"}
          /\ TimerFits(g)
      BY <2>1 DEF GetOK, GetRecords
    <3>3. h \in GetRecords
      BY <3>1, <3>2 DEF GetRecords, GetPlaces
    <3>4. TimerFits(h) /\ GaveUp(h)
      BY <3>1, <3>2 DEF TimerFits, GaveUp, Active
    <3> HIDE DEF h
    <3> QED BY <3>1, <3>3, <3>4, OneGet DEF GetOK
  <2> QED BY <1>2, <2>10, <2>11, <2>12, <2>13, <2>14, <2>15, <2>16, <2>17 DEF CaixaStep
<1> QED BY <1>1, <1>2 DEF CaixaNext

\* getJson(): the signal of an attempt is armed with what is left of the budget,
\* and a pause fits in it.
THEOREM CaixaInvHolds == CaixaSpec => []CaixaInv
BY CaixaStarts, CaixaKeeps, PTL DEF CaixaSpec

\* A call gives up for the reason it reports, and no call outlives its budget by
\* more than the lateness of one timer (getJson() of caixaHttpClient.ts).
THEOREM CallsGiveUpForAReason == CaixaSpec => []GivesUpForAReason
<1>1. CaixaInv => GivesUpForAReason
  BY DEF CaixaInv, GetOK, TimerFits, GaveUp, GivesUpForAReason
<1> QED BY <1>1, CaixaInvHolds, PTL

\* The counters of the process.
MetricsOK(m) ==
    m \in [requests : Nat, successes : Nat, errors : Nat, timeouts : Nat, retries : Nat,
           attemptOutcomes : [AttemptOutcomes -> Nat]]

LEMMA RecordedOK ==
  ASSUME NEW m, MetricsOK(m), NEW outcome \in AttemptOutcomes
  PROVE  MetricsOK(Recorded(m, outcome))
BY DEF MetricsOK, Recorded

LEMMA CounterOK ==
  ASSUME NEW m, MetricsOK(m), NEW n \in Nat
  PROVE  /\ MetricsOK([m EXCEPT !.requests = @ + 1]) /\ MetricsOK([m EXCEPT !.retries = @ + n])
         /\ MetricsOK([m EXCEPT !.successes = @ + 1]) /\ MetricsOK([m EXCEPT !.timeouts = @ + 1])
         /\ MetricsOK([m EXCEPT !.errors = @ + 1])
BY DEF MetricsOK

LEMMA RequestedOK ==
  ASSUME NEW m, MetricsOK(m), NEW outcome, NEW n \in Nat, n >= 1
  PROVE  MetricsOK(Requested(m, outcome, n))
<1> DEFINE more == n - 1
           asked1 == [m EXCEPT !.requests = @ + 1]
           tried == [asked1 EXCEPT !.retries = @ + more]
<1>1. more \in Nat
  OBVIOUS
<1> HIDE DEF more
<1>2. MetricsOK(tried)
  BY <1>1, CounterOK
<1>3. CASE outcome = "success"
  <2>1. Requested(m, outcome, n) = [tried EXCEPT !.successes = @ + 1]
    BY <1>3 DEF Requested, more
  <2> QED BY <1>2, <2>1, CounterOK
<1>4. CASE outcome = "timeout"
  <2>1. Requested(m, outcome, n) = [tried EXCEPT !.timeouts = @ + 1]
    BY <1>4 DEF Requested, more
  <2> QED BY <1>2, <2>1, CounterOK
<1>5. CASE outcome \notin {"success", "timeout"}
  <2>1. Requested(m, outcome, n) = [tried EXCEPT !.errors = @ + 1]
    BY <1>5 DEF Requested, more
  <2> QED BY <1>2, <2>1, CounterOK
<1> QED BY <1>3, <1>4, <1>5

LEMMA GivenUpMetrics ==
  ASSUME NEW m, MetricsOK(m), NEW error, NEW n \in Nat, n >= 1
  PROVE  MetricsOK(RejectedMetrics(m, n, error))
BY RequestedOK DEF RejectedMetrics

LEMMA AfterAttemptCounts ==
  ASSUME NEW f, NEW error, NEW m, MetricsOK(m), gets[f].attempt \in Nat, gets[f].attempt >= 1,
         AfterAttempt(f, error, m)
  PROVE  MetricsOK(caixaMetrics')
<1>1. \/ caixaMetrics' = m
      \/ caixaMetrics' = RejectedMetrics(m, gets[f].attempt, "timeout")
  BY DEF AfterAttempt
<1> QED BY <1>1, GivenUpMetrics

LEMMA GiveUpCounts ==
  ASSUME NEW f, NEW error, NEW m, MetricsOK(m), gets[f].attempt \in Nat, gets[f].attempt >= 1,
         GiveUp(f, error, m)
  PROVE  MetricsOK(caixaMetrics')
BY GivenUpMetrics DEF GiveUp

LEMMA MetricsStart == CaixaInit => MetricsOK(caixaMetrics)
BY DEF CaixaInit, EmptyMetrics, MetricsOK

LEMMA MetricsKeep ==
  CaixaInv /\ MetricsOK(caixaMetrics) /\ [CaixaNext]_caixaVars => MetricsOK(caixaMetrics)'
<1> SUFFICES ASSUME CaixaInv, MetricsOK(caixaMetrics), [CaixaNext]_caixaVars
             PROVE  MetricsOK(caixaMetrics')
  OBVIOUS
<1>1. CASE UNCHANGED caixaVars
  BY <1>1 DEF caixaVars
<1>2. ASSUME NEW f \in Fetchers, CaixaStep(f) PROVE MetricsOK(caixaMetrics')
  <2> DEFINE n == gets[f].attempt
  <2>1. n \in Nat /\ (gets[f].at \in Active => n >= 1)
    BY PolicyAssumption DEF CaixaInv, GetOK, GetRecords, TimerFits, PolicyAssumption
  <2>2. \A outcome \in AttemptOutcomes : MetricsOK(Recorded(caixaMetrics, outcome))
    BY RecordedOK
  <2>3. CASE AnswerNotOk(f)
    <3>1. n >= 1 /\ "http-error" \in AttemptOutcomes
      BY <2>1, <2>3 DEF AnswerNotOk, Active, AttemptOutcomes
    <3>2. \E error : \/ GiveUp(f, error, Recorded(caixaMetrics, "http-error"))
                     \/ AfterAttempt(f, error, Recorded(caixaMetrics, "http-error"))
      BY <2>3 DEF AnswerNotOk
    <3> QED BY <2>1, <2>2, <3>1, <3>2, GiveUpCounts, AfterAttemptCounts
  <2>4. CASE FetchThrows(f)
    <3>1. n >= 1 /\ {"timeout", "network-error"} \subseteq AttemptOutcomes
      BY <2>1, <2>4 DEF FetchThrows, Active, AttemptOutcomes
    <3>2. \E error, outcome \in {"timeout", "network", "network-error"} :
             /\ outcome \in {"timeout", "network-error"}
             /\ \/ GiveUp(f, error, Recorded(caixaMetrics, outcome))
                \/ AfterAttempt(f, error, Recorded(caixaMetrics, outcome))
      BY <2>4 DEF FetchThrows
    <3> QED BY <2>1, <2>2, <3>1, <3>2, GiveUpCounts, AfterAttemptCounts
  <2>5. CASE BodyArrives(f)
    <3>1. n >= 1 /\ {"success", "success-after-retry"} \subseteq AttemptOutcomes
      BY <2>1, <2>5 DEF BodyArrives, Active, AttemptOutcomes
    <3>2. \E outcome \in {"success", "success-after-retry"} :
             caixaMetrics' = Requested(Recorded(caixaMetrics, outcome), "success", n)
      BY <2>5 DEF BodyArrives
    <3> QED BY <2>1, <2>2, <3>1, <3>2, RequestedOK
  <2>6. CASE BodyFails(f)
    <3>1. n >= 1 /\ "invalid-response" \in AttemptOutcomes
      BY <2>1, <2>6 DEF BodyFails, Active, AttemptOutcomes
    <3>2. caixaMetrics' = RejectedMetrics(Recorded(caixaMetrics, "invalid-response"), n, "invalid-response")
      BY <2>6 DEF BodyFails
    <3> QED BY <2>1, <2>2, <3>1, <3>2, GivenUpMetrics
  <2>7. CASE WakeUp(f)
    <3>1. n + 1 \in Nat /\ n + 1 >= 1
      BY <2>1
    <3>2. caixaMetrics' = caixaMetrics \/ caixaMetrics' = RejectedMetrics(caixaMetrics, n + 1, "timeout")
      BY <2>7 DEF WakeUp
    <3> QED BY <3>1, <3>2, GivenUpMetrics
  <2>8. CASE StartGet(f) \/ AnswerOk(f) \/ Elapse(f)
    BY <2>8 DEF StartGet, AnswerOk, Elapse
  <2> QED BY <1>2, <2>3, <2>4, <2>5, <2>6, <2>7, <2>8 DEF CaixaStep
<1> QED BY <1>1, <1>2 DEF CaixaNext

\* The timer of a call is armed with no more than the budget.
LEMMA GetsAreTyped ==
  ASSUME NEW g, GetOK(g)
  PROVE  g \in [at : Active \cup {"idle", "done", "failed"},
                attempt : 0 .. MaxTries,
                elapsed : 0 .. Budget + MaxDelay + 2 * MaxLate, due : -1 .. Budget,
                late : 0 .. MaxLate, lastError : Errors \cup {"none"}]
<1> USE PolicyAssumption DEF PolicyAssumption
<1>1. g \in GetRecords
  BY DEF GetOK
<1>2. g.elapsed \in Nat /\ g.due \in Nat /\ g.late \in 0 .. MaxLate /\ g.at \in GetPlaces
  BY <1>1 DEF GetRecords
<1>3. g.elapsed <= Budget + MaxLate
  BY DEF GetOK, TimerFits
<1>4. g.due <= Budget
  <2>1. CASE g.at \in {"fetching", "reading"}
    BY <1>2, <2>1 DEF GetOK, TimerFits
  <2>2. CASE g.at = "sleeping"
    <3>1. g.elapsed + g.due <= Budget + g.late /\ (g.due > 0 => g.late = 0)
      BY <2>2 DEF GetOK, TimerFits, Active
    <3> QED BY <1>2, <3>1
  <2>3. CASE g.at \notin Active
    BY <2>3 DEF GetOK, TimerFits
  <2> QED BY <2>1, <2>2, <2>3 DEF Active
<1>5. g.elapsed \in 0 .. Budget + MaxDelay + 2 * MaxLate /\ g.due \in -1 .. Budget
  BY <1>2, <1>3, <1>4
<1> QED BY <1>1, <1>5 DEF GetRecords, GetPlaces

LEMMA CaixaIsTyped == CaixaInv /\ MetricsOK(caixaMetrics) => CaixaTypeOK
<1> SUFFICES ASSUME CaixaInv, MetricsOK(caixaMetrics) PROVE CaixaTypeOK
  OBVIOUS
<1> DEFINE Shapes == [at : Active \cup {"idle", "done", "failed"},
                      attempt : 0 .. MaxTries,
                      elapsed : 0 .. Budget + MaxDelay + 2 * MaxLate, due : -1 .. Budget,
                      late : 0 .. MaxLate, lastError : Errors \cup {"none"}]
<1>1. \A f \in Fetchers : gets[f] \in Shapes
  BY GetsAreTyped DEF CaixaInv
<1> HIDE DEF Shapes
<1>2. gets \in [Fetchers -> Shapes]
  BY <1>1 DEF CaixaInv
<1>3. /\ \A c \in {"requests", "successes", "errors", "timeouts", "retries"} : caixaMetrics[c] \in Nat
      /\ caixaMetrics.attemptOutcomes \in [AttemptOutcomes -> Nat]
  BY DEF MetricsOK
<1> QED BY <1>2, <1>3 DEF CaixaTypeOK, Shapes

-----------------------------------------------------------------------------
(***************************************************************************)
(* The limiters.  The bucket of a key whose window is open is there and    *)
(* counts the calls that were let in, whatever prune() has dropped.        *)
(***************************************************************************)

\* The bucket of a key whose window is open counts the calls that were let in.
Counts(k) ==
    /\ k \in DOMAIN admitted /\ k \in DOMAIN buckets
    /\ buckets[k].count = admitted[k].calls
    /\ buckets[k].resetAt = admitted[k].since + Window

LimiterInv ==
    /\ tick \in Nat
    /\ \A k \in DOMAIN admitted :
         /\ admitted[k].since \in Nat /\ admitted[k].calls \in 1 .. Quota
         /\ admitted[k].since + Window > tick => Counts(k)
    /\ \A k \in DOMAIN buckets :
         /\ buckets[k].resetAt \in Nat
         /\ buckets[k].resetAt > tick => Counts(k)

LEMMA LimiterStarts == HttpInit => LimiterInv
BY DEF HttpInit, LimiterInv

LEMMA NoLimiterKeeps ==
  ASSUME LimiterInv, UNCHANGED <<buckets, admitted, tick>>
  PROVE  LimiterInv'
BY DEF LimiterInv, Counts

\* prune() drops a bucket only when its window is over.
LEMMA KeepKeepsOpen ==
  ASSUME NEW b, NEW new, NEW t, NEW k \in DOMAIN b, b[k].resetAt > t
  PROVE  k \in DOMAIN Keep(b, new, t) /\ Keep(b, new, t)[k] = b[k]
BY DEF Keep

LEMMA KeepAddsNothing ==
  ASSUME NEW b, NEW new, NEW t, NEW k \in DOMAIN Keep(b, new, t)
  PROVE  k \in DOMAIN b /\ Keep(b, new, t)[k] = b[k]
BY DEF Keep, Others

LEMMA ConsumeKeeps ==
  ASSUME LimiterInv, NEW k, Consume(k), tick' = tick
  PROVE  LimiterInv'
<1> USE QuotaAssumption DEF QuotaAssumption
<1>1. CASE ~HasBucket(k)
  <2> DEFINE opened == Opened(k)
  <2>1. buckets' = Keep(opened, k, tick)
    BY <1>1 DEF Consume
  <2>2. ~(k \in DOMAIN admitted /\ admitted[k].since + Window > tick)
    BY <1>1 DEF LimiterInv, Counts, HasBucket
  <2>3. Counted(k) = [since |-> tick, calls |-> 1]
    BY <2>2 DEF Counted
  <2>4. admitted' = [x \in DOMAIN admitted \cup {k} |->
                        IF x # k THEN admitted[x] ELSE [since |-> tick, calls |-> 1]]
    BY <1>1, <2>3 DEF Consume, Admits
  <2>5. /\ DOMAIN opened = DOMAIN buckets \cup {k}
        /\ opened[k] = [count |-> 1, resetAt |-> tick + Window]
        /\ \A x \in DOMAIN buckets : x # k => opened[x] = buckets[x]
    BY DEF Opened
  <2> HIDE DEF opened
  <2>6. k \in DOMAIN buckets' /\ buckets'[k] = [count |-> 1, resetAt |-> tick + Window]
    BY <2>1, <2>5, KeepKeepsOpen DEF LimiterInv
  <2>7. Counts(k)'
    BY <2>4, <2>6 DEF Counts
  <2>8. ASSUME NEW x, x # k, x \in DOMAIN buckets, buckets[x].resetAt > tick
        PROVE  x \in DOMAIN buckets' /\ buckets'[x] = buckets[x]
    BY <2>1, <2>5, <2>8, KeepKeepsOpen
  <2>9. ASSUME NEW x \in DOMAIN buckets', x # k
        PROVE  x \in DOMAIN buckets /\ buckets'[x] = buckets[x]
    BY <2>1, <2>5, <2>9, KeepAddsNothing
  <2>10. ASSUME NEW x, x # k, Counts(x), buckets[x].resetAt > tick PROVE Counts(x)'
    BY <2>4, <2>8, <2>10 DEF Counts
  <2>11. ASSUME NEW x \in DOMAIN admitted'
         PROVE  /\ admitted'[x].since \in Nat /\ admitted'[x].calls \in 1 .. Quota
                /\ admitted'[x].since + Window > tick' => Counts(x)'
    <3>1. CASE x = k
      BY <3>1, <2>4, <2>7 DEF LimiterInv
    <3>2. CASE x # k
      <4>1. x \in DOMAIN admitted /\ admitted'[x] = admitted[x]
        BY <2>4, <3>2
      <4>2. admitted[x].since + Window > tick => Counts(x)'
        BY <4>1, <3>2, <2>10 DEF LimiterInv, Counts
      <4> QED BY <4>1, <4>2 DEF LimiterInv
    <3> QED BY <3>1, <3>2
  <2>12. ASSUME NEW x \in DOMAIN buckets'
         PROVE  buckets'[x].resetAt \in Nat /\ (buckets'[x].resetAt > tick' => Counts(x)')
    <3>1. CASE x = k
      BY <3>1, <2>6, <2>7 DEF LimiterInv
    <3>2. CASE x # k
      BY <3>2, <2>9, <2>10 DEF LimiterInv
    <3> QED BY <3>1, <3>2
  <2> QED BY <2>11, <2>12 DEF LimiterInv
<1>2. CASE HasBucket(k) /\ Admits(k)
  <2>1. buckets' = [buckets EXCEPT ![k] = [count |-> @.count + 1, resetAt |-> @.resetAt]]
    BY <1>2 DEF Consume
  <2>2. Counts(k) /\ buckets[k].resetAt > tick /\ k \in DOMAIN buckets
    BY <1>2 DEF HasBucket, LimiterInv
  <2>3. Counted(k) = [since |-> admitted[k].since, calls |-> admitted[k].calls + 1]
    BY <2>2 DEF Counted, Counts
  <2>4. admitted' = [x \in DOMAIN admitted \cup {k} |->
                        IF x # k THEN admitted[x]
                        ELSE [since |-> admitted[k].since, calls |-> admitted[k].calls + 1]]
    BY <1>2, <2>3 DEF Consume
  <2>5. admitted[k].calls + 1 \in 1 .. Quota /\ admitted[k].since \in Nat
    BY <1>2, <2>2 DEF Admits, Counts, LimiterInv
  <2>6. /\ buckets'[k].count = buckets[k].count + 1 /\ buckets'[k].resetAt = buckets[k].resetAt
        /\ DOMAIN buckets' = DOMAIN buckets
        /\ \A x \in DOMAIN buckets : x # k => buckets'[x] = buckets[x]
    BY <2>1, <2>2
  <2>7. DOMAIN admitted' = DOMAIN admitted
    BY <2>2, <2>4 DEF Counts
  <2>8. Counts(k)'
    BY <2>2, <2>4, <2>6 DEF Counts
  <2>9. ASSUME NEW x, x # k, Counts(x) PROVE Counts(x)'
    BY <2>4, <2>6, <2>9 DEF Counts
  <2>10. ASSUME NEW x \in DOMAIN admitted'
         PROVE  /\ admitted'[x].since \in Nat /\ admitted'[x].calls \in 1 .. Quota
                /\ admitted'[x].since + Window > tick' => Counts(x)'
    BY <2>4, <2>5, <2>7, <2>8, <2>9 DEF LimiterInv
  <2>11. ASSUME NEW x \in DOMAIN buckets'
         PROVE  buckets'[x].resetAt \in Nat /\ (buckets'[x].resetAt > tick' => Counts(x)')
    BY <2>6, <2>8, <2>9 DEF LimiterInv
  <2> QED BY <2>10, <2>11 DEF LimiterInv
<1>3. CASE HasBucket(k) /\ ~Admits(k)
  <2>1. UNCHANGED <<buckets, admitted, tick>>
    BY <1>3 DEF Consume
  <2> QED BY <2>1, NoLimiterKeeps
<1> QED BY <1>1, <1>2, <1>3

LEMMA LimiterKeeps == LimiterInv /\ [HttpNext]_httpVars => LimiterInv'
<1> SUFFICES ASSUME LimiterInv, [HttpNext]_httpVars PROVE LimiterInv'
  OBVIOUS
<1>1. CASE UNCHANGED httpVars
  BY <1>1, NoLimiterKeeps DEF httpVars
<1>2. CASE ClockTicks
  <2>1. tick \in Nat /\ tick' = tick + 1 /\ buckets' = buckets /\ admitted' = admitted
    BY <1>2 DEF ClockTicks, LimiterInv
  <2>2. \A k : Counts(k) => Counts(k)'
    BY <2>1 DEF Counts
  <2>3. ASSUME NEW k \in DOMAIN admitted, admitted[k].since + Window > tick + 1 PROVE Counts(k)
    BY <2>1, <2>3, QuotaAssumption DEF LimiterInv, QuotaAssumption
  <2>4. ASSUME NEW k \in DOMAIN buckets, buckets[k].resetAt > tick + 1 PROVE Counts(k)
    BY <2>1, <2>4 DEF LimiterInv
  <2> QED BY <2>1, <2>2, <2>3, <2>4 DEF LimiterInv
<1>3. ASSUME NEW s \in Slots, Served(s) PROVE LimiterInv'
  <2>1. CASE RouteFeature(s)
    <3>1. tick' = tick /\ (NoLimiter \/ Consume(Key(s)))
      BY <2>1 DEF RouteFeature, At
    <3> QED BY <3>1, NoLimiterKeeps, ConsumeKeeps DEF NoLimiter
  <2>2. CASE BodyRead(s)
    <3>1. tick' = tick /\ (NoLimiter \/ Consume(Key(s)))
      BY <2>2 DEF BodyRead, At
    <3> QED BY <3>1, NoLimiterKeeps, ConsumeKeeps DEF NoLimiter
  <2>3. CASE \/ ForeignRefused(s) \/ WorkDone(s) \/ ServerCatches(s) \/ ServeMetrics(s)
             \/ ServeAsset(s) \/ ServeLast(s)
             \/ \E why \in Refusals : WorkRaises(s, why)
    <3>1. tick' = tick /\ NoLimiter
      BY <2>3 DEF ForeignRefused, WorkDone, ServerCatches, ServeMetrics, ServeAsset,
             ServeLast, WorkRaises, At
    <3> QED BY <3>1, NoLimiterKeeps DEF NoLimiter
  <2> QED BY <1>3, <2>1, <2>2, <2>3 DEF Served
<1>4. ASSUME NEW s \in Slots, ClientLeaves(s) PROVE LimiterInv'
  BY <1>4, NoLimiterKeeps DEF ClientLeaves, At, NoLimiter
<1>5. ASSUME NEW s \in Slots,
             CallForgotten(s) \/ \E ask \in Asks, peer \in Peers, foreign \in BOOLEAN : CallArrives(s, ask, peer, foreign)
      PROVE  LimiterInv'
  BY <1>5, NoLimiterKeeps DEF CallForgotten, CallArrives
<1> QED BY <1>1, <1>2, <1>3, <1>4, <1>5 DEF HttpNext

\* FixedWindowRateLimiter.consume() and prune(): an open window has its bucket.
THEOREM LimiterInvHolds == HttpSpec => []LimiterInv
BY LimiterStarts, LimiterKeeps, PTL DEF HttpSpec

\* A limiter lets at most its limit through in a window, whatever other keys
\* make it prune (rateLimit.ts), for any number of keys, calls and buckets.
THEOREM QuotasHold == HttpSpec => []QuotaHolds
<1>1. LimiterInv => QuotaHolds
  BY QuotaAssumption DEF LimiterInv, QuotaHolds, QuotaAssumption
<1> QED BY <1>1, LimiterInvHolds, PTL

\* The calls and what is counted of them.
CallPlaces == {"none", "foreign", "routing", "reading", "working", "thrown", "answered", "left"}
CallFields == {"at", "ask", "peer", "by", "status"}

CallsOK(c) ==
    DOMAIN c = Slots /\ \A s \in Slots : DOMAIN c[s] = CallFields /\ c[s].at \in CallPlaces

TallyOK(t) ==
    /\ t \in [answers : Nat, clientErrors : Nat, serverErrors : Nat]
    /\ t.answers >= t.clientErrors + t.serverErrors

BucketsOK(b) == \A k \in DOMAIN b : b[k].count \in 1 .. Quota

HttpTypes ==
    /\ CallsOK(call)
    /\ BucketsOK(buckets)
    /\ tick \in 0 .. MaxTick /\ served \in 0 .. MaxServed
    /\ TallyOK(tally)

LEMMA HttpTypesStart == HttpInit => HttpTypes
<1> SUFFICES ASSUME HttpInit PROVE HttpTypes
  OBVIOUS
<1>1. DOMAIN NoCall = CallFields /\ NoCall.at \in CallPlaces
  BY DEF NoCall, CallFields, CallPlaces
<1>2. CallsOK(call)
  BY <1>1 DEF HttpInit, CallsOK
<1>3. TallyOK(tally)
  BY DEF HttpInit, TallyOK
<1>4. BucketsOK(buckets)
  BY DEF HttpInit, BucketsOK
<1> QED BY <1>2, <1>3, <1>4, QuotaAssumption DEF HttpInit, HttpTypes, QuotaAssumption

\* A call is at another place; or it is over, and a record of its own.
LEMMA PutAt ==
  ASSUME NEW c, CallsOK(c), NEW s \in Slots, NEW place \in CallPlaces
  PROVE  CallsOK([c EXCEPT ![s].at = place])
BY DEF CallsOK, CallFields

LEMMA PutBy ==
  ASSUME NEW c, CallsOK(c), NEW s \in Slots, NEW x
  PROVE  CallsOK([c EXCEPT ![s].by = x])
BY DEF CallsOK, CallFields

LEMMA PutOver ==
  ASSUME NEW c, CallsOK(c), NEW s \in Slots, NEW place \in CallPlaces, NEW status
  PROVE  /\ CallsOK([c EXCEPT ![s] = [NoCall EXCEPT !.at = place]])
         /\ CallsOK([c EXCEPT ![s] = [NoCall EXCEPT !.at = place, !.status = status]])
<1> DEFINE left == [NoCall EXCEPT !.at = place]
           over == [NoCall EXCEPT !.at = place, !.status = status]
<1>1. \A new \in {left, over} : DOMAIN new = CallFields /\ new.at \in CallPlaces
  BY DEF NoCall, CallFields
<1> HIDE DEF left, over
<1>2. \A new \in {left, over} : CallsOK([c EXCEPT ![s] = new])
  BY <1>1 DEF CallsOK
<1> QED BY <1>2 DEF left, over

\* An answer is counted once, in one class at most.
LEMMA AnswerOK ==
  ASSUME CallsOK(call), TallyOK(tally), NEW s \in Slots, NEW status,
         Answer(s, status)
  PROVE  CallsOK(call') /\ TallyOK(tally')
<1>1. CallsOK([call EXCEPT ![s] = [NoCall EXCEPT !.at = "answered", !.status = status]])
  BY PutOver DEF CallPlaces
<1>2. CallsOK(call')
  BY <1>1 DEF Answer
<1>3. PICK client \in 0 .. 1, failed \in 0 .. 1 :
        /\ client + failed <= 1
        /\ tally' = [answers |-> tally.answers + 1, clientErrors |-> tally.clientErrors + client,
                     serverErrors |-> tally.serverErrors + failed]
  <2> DEFINE client == IF status \in 400..499 THEN 1 ELSE 0
             failed == IF status >= 500 THEN 1 ELSE 0
  <2>1. client \in 0 .. 1 /\ failed \in 0 .. 1
    OBVIOUS
  <2>2. client + failed <= 1
    OBVIOUS
  <2>3. tally' = [answers |-> tally.answers + 1, clientErrors |-> tally.clientErrors + client,
                  serverErrors |-> tally.serverErrors + failed]
    BY DEF Answer
  <2> QED BY <2>1, <2>2, <2>3
<1>4. TallyOK(tally')
  BY <1>3 DEF TallyOK
<1> QED BY <1>2, <1>4

LEMMA ConsumeCounts ==
  ASSUME BucketsOK(buckets), NEW k, Consume(k) PROVE BucketsOK(buckets')
<1> USE QuotaAssumption DEF QuotaAssumption
<1>1. CASE ~HasBucket(k)
  <2>1. buckets' = Keep(Opened(k), k, tick)
    BY <1>1 DEF Consume
  <2>2. BucketsOK(Opened(k))
    BY DEF BucketsOK, Opened
  <2>3. \A x \in DOMAIN buckets' : x \in DOMAIN Opened(k) /\ buckets'[x] = Opened(k)[x]
    BY <2>1, KeepAddsNothing
  <2> QED BY <2>2, <2>3 DEF BucketsOK
<1>2. CASE HasBucket(k) /\ Admits(k)
  <2>1. /\ buckets' = [buckets EXCEPT ![k] = [count |-> @.count + 1, resetAt |-> @.resetAt]]
        /\ k \in DOMAIN buckets /\ buckets[k].count < Quota
    BY <1>2 DEF Consume, Admits, HasBucket
  <2>2. DOMAIN buckets' = DOMAIN buckets /\ buckets'[k].count = buckets[k].count + 1
        /\ \A x \in DOMAIN buckets : x # k => buckets'[x] = buckets[x]
    BY <2>1
  <2>3. buckets[k].count + 1 \in 1 .. Quota
    BY <2>1 DEF BucketsOK
  <2> QED BY <2>2, <2>3 DEF BucketsOK
<1>3. CASE HasBucket(k) /\ ~Admits(k)
  BY <1>3 DEF Consume
<1> QED BY <1>1, <1>2, <1>3

\* A call is answered, or goes on without an answer.
LEMMA CallMovesOK ==
  ASSUME HttpTypes, NEW s \in Slots, UNCHANGED <<tick, served>>, BucketsOK(buckets'),
         \/ \E status : Answer(s, status)
         \/ CallsOK(call') /\ UNCHANGED tally
  PROVE  HttpTypes'
<1>1. CallsOK(call') /\ TallyOK(tally')
  BY AnswerOK DEF HttpTypes
<1> QED BY <1>1 DEF HttpTypes

LEMMA RoutedOK ==
  ASSUME HttpTypes, NEW s \in Slots, RouteFeature(s) PROVE HttpTypes'
<1>1. UNCHANGED <<tick, served>> /\ (NoLimiter \/ Consume(Key(s)))
  BY DEF RouteFeature, At
<1>2. BucketsOK(buckets')
  BY <1>1, ConsumeCounts DEF NoLimiter, HttpTypes
<1>3. \/ \E status : Answer(s, status)
      \/ /\ UNCHANGED tally
         /\ \E place \in CallPlaces : \E handler :
              call' = [call EXCEPT ![s].at = place, ![s].by = handler]
  BY DEF RouteFeature, CallPlaces
<1>4. ASSUME NEW place \in CallPlaces, NEW handler, call' = [call EXCEPT ![s].at = place, ![s].by = handler]
      PROVE  CallsOK(call')
  <2>1. CallsOK([[call EXCEPT ![s].at = place] EXCEPT ![s].by = handler])
    BY PutAt, PutBy DEF HttpTypes
  <2> QED BY <1>4, <2>1
<1> QED BY <1>1, <1>2, <1>3, <1>4, CallMovesOK

LEMMA ReadOK ==
  ASSUME HttpTypes, NEW s \in Slots, BodyRead(s) PROVE HttpTypes'
<1>1. UNCHANGED <<tick, served>> /\ (NoLimiter \/ Consume(Key(s)))
  BY DEF BodyRead, At
<1>2. BucketsOK(buckets')
  BY <1>1, ConsumeCounts DEF NoLimiter, HttpTypes
<1>3. \/ \E status : Answer(s, status)
      \/ UNCHANGED tally /\ call' = [call EXCEPT ![s].at = "working"]
  BY DEF BodyRead
<1>4. CallsOK([call EXCEPT ![s].at = "working"])
  BY PutAt DEF HttpTypes, CallPlaces
<1> QED BY <1>1, <1>2, <1>3, <1>4, CallMovesOK

\* The other steps of a call leave the limiters alone.
LEMMA OtherServedOK ==
  ASSUME HttpTypes, NEW s \in Slots,
         \/ ForeignRefused(s) \/ WorkDone(s) \/ ServerCatches(s) \/ ServeMetrics(s)
             \/ ServeAsset(s) \/ ServeLast(s)
         \/ \E why \in Refusals : WorkRaises(s, why)
         \/ ClientLeaves(s)
  PROVE  HttpTypes'
<1>1. UNCHANGED <<tick, served>> /\ NoLimiter
  BY DEF ForeignRefused, WorkDone, ServerCatches, ServeMetrics, ServeAsset,
             ServeLast, WorkRaises, ClientLeaves, At
<1>2. BucketsOK(buckets')
  BY <1>1 DEF NoLimiter, HttpTypes
<1>3. CallsOK([call EXCEPT ![s] = [NoCall EXCEPT !.at = "left"]])
  BY PutOver DEF HttpTypes, CallPlaces
<1>4. CallsOK([call EXCEPT ![s].at = "thrown"])
  BY PutAt DEF HttpTypes, CallPlaces
<1>5. CASE ForeignRefused(s) \/ WorkDone(s) \/ ServerCatches(s)
  <2>1. \E status : Answer(s, status)
    BY <1>5 DEF ForeignRefused, WorkDone, ServerCatches
  <2> QED BY <1>1, <1>2, <2>1, CallMovesOK
<1>6. CASE ServeMetrics(s) \/ ServeAsset(s)
  <2>1. \/ \E status : Answer(s, status)
        \/ UNCHANGED tally /\ call' = [call EXCEPT ![s].at = "thrown"]
    BY <1>6 DEF ServeMetrics, ServeAsset
  <2> QED BY <1>1, <1>2, <1>4, <2>1, CallMovesOK
<1>7. CASE ServeLast(s)
  <2>1. \E status : Answer(s, status)
    BY <1>7 DEF ServeLast
  <2> QED BY <1>1, <1>2, <2>1, CallMovesOK
<1>8. ASSUME NEW why \in Refusals, WorkRaises(s, why) PROVE HttpTypes'
  <2>1. \/ \E status : Answer(s, status)
        \/ UNCHANGED tally /\ call' = [call EXCEPT ![s].at = "thrown"]
    BY <1>8 DEF WorkRaises
  <2> QED BY <1>1, <1>2, <1>4, <2>1, CallMovesOK
<1>9. CASE ClientLeaves(s)
  BY <1>1, <1>2, <1>3, <1>9, CallMovesOK DEF ClientLeaves
<1> QED BY <1>5, <1>6, <1>7, <1>8, <1>9

LEMMA HttpTypesKeep == HttpTypes /\ [HttpNext]_httpVars => HttpTypes'
<1> SUFFICES ASSUME HttpTypes, [HttpNext]_httpVars PROVE HttpTypes'
  OBVIOUS
<1>1. CASE UNCHANGED httpVars
  BY <1>1 DEF httpVars, HttpTypes
<1>2. CASE ClockTicks
  <2>1. tick' \in 0 .. MaxTick
    BY <1>2, QuotaAssumption DEF ClockTicks, HttpTypes, QuotaAssumption
  <2> QED BY <1>2, <2>1 DEF ClockTicks, HttpTypes
<1>3. ASSUME NEW s \in Slots, NEW ask, NEW peer, NEW foreign, CallArrives(s, ask, peer, foreign)
      PROVE  HttpTypes'
  <2> DEFINE new == [NoCall EXCEPT !.at = IF foreign THEN "foreign" ELSE "routing",
                                   !.ask = ask, !.peer = peer]
  <2>1. DOMAIN new = CallFields /\ new.at \in CallPlaces
    BY DEF NoCall, CallFields, CallPlaces
  <2>2. call' = [call EXCEPT ![s] = new]
    BY <1>3 DEF CallArrives
  <2> HIDE DEF new
  <2>3. CallsOK(call')
    BY <2>1, <2>2 DEF HttpTypes, CallsOK
  <2>4. served' \in 0 .. MaxServed
    BY <1>3, QuotaAssumption DEF CallArrives, HttpTypes, QuotaAssumption
  <2> QED BY <1>3, <2>3, <2>4 DEF CallArrives, HttpTypes
<1>4. ASSUME NEW s \in Slots, CallForgotten(s) PROVE HttpTypes'
  <2>1. DOMAIN NoCall = CallFields /\ NoCall.at \in CallPlaces
    BY DEF NoCall, CallFields, CallPlaces
  <2>2. CallsOK(call')
    BY <1>4, <2>1 DEF CallForgotten, HttpTypes, CallsOK
  <2> QED BY <1>4, <2>2 DEF CallForgotten, HttpTypes
<1> QED BY <1>1, <1>2, <1>3, <1>4, RoutedOK, ReadOK, OtherServedOK DEF HttpNext, Served

LEMMA HttpIsTyped == LimiterInv /\ HttpTypes => HttpTypeOK
BY DEF LimiterInv, HttpTypes, CallsOK, CallPlaces, BucketsOK, TallyOK, HttpTypeOK


-----------------------------------------------------------------------------
(***************************************************************************)
(* The notifications.  What a request has read and what it is about to     *)
(* write are of bets that are there.                                       *)
(***************************************************************************)

BetStates == {"placed"} \cup BetOutcomes
NoteKinds == {"bet-awaiting", "result-available"} \cup BetOutcomes

\* A request, when the bets registered are ids.
VisitOK(x, ids) ==
    /\ x.at \in {"none", "bets", "results", "write"}
    /\ x.at = "results" => DOMAIN x.states \subseteq ids /\ x.states \in [DOMAIN x.states -> BetStates]
    /\ x.at = "write" => DOMAIN x.notes \subseteq ids /\ x.notes \in [DOMAIN x.notes -> NoteKinds]

NotesInv ==
    /\ bets \in Seq(BetStates) /\ Len(bets) <= NumBets
    /\ drawn \subseteq DOMAIN bets
    /\ told \in [1..NumBets -> {Untold} \cup NoteKinds]
    /\ unread \subseteq {b \in DOMAIN bets : told[b] # Untold}
    /\ DOMAIN visit = Visitors /\ \A v \in Visitors : VisitOK(visit[v], DOMAIN bets)
    /\ noteFaults \in 0..MaxNoteFaults

LEMMA NotesStart == NotesInit => NotesInv
<1> SUFFICES ASSUME NotesInit PROVE NotesInv
  OBVIOUS
<1>1. bets = <<>> /\ bets \in Seq(BetStates) /\ Len(bets) = 0 /\ DOMAIN bets = {}
  BY DEF NotesInit
<1>2. DOMAIN visit = Visitors /\ \A v \in Visitors : VisitOK(visit[v], DOMAIN bets)
  BY DEF NotesInit, NotVisiting, VisitOK
<1> QED BY <1>1, <1>2, NotificationsAssumption DEF NotesInit, NotesInv, NotificationsAssumption

\* The bets of the invariant are the first numbers.
LEMMA BetsAreNumbers ==
  ASSUME NotesInv
  PROVE  /\ DOMAIN bets \subseteq 1..NumBets /\ DOMAIN bets = 1..Len(bets) /\ Len(bets) \in Nat
         /\ \A b \in DOMAIN bets : bets[b] \in BetStates
BY NotificationsAssumption DEF NotesInv, NotificationsAssumption

\* What is told of a bet in a known state is one of the known notifications.
LEMMA NotesAreKnown ==
  ASSUME NEW state \in BetStates, NEW hasResult
  PROVE  NoteOf(state, hasResult) \in NoteKinds /\ NoteOf(state, hasResult) # Untold
BY DEF NoteOf, BetStates, NoteKinds, BetOutcomes, Untold

LEMMA KindsAreTold == Untold \notin NoteKinds
BY DEF NoteKinds, BetOutcomes, Untold

\* A set of positive numbers up to n that is not empty has a greatest one.
LEMMA HasGreatest ==
  ASSUME NEW n \in Nat, NEW S \in SUBSET (1..n), S # {}
  PROVE  \E b \in S : \A c \in S : b >= c
<1> DEFINE Above(b) == {c \in S : c > b}
           all == {Above(b) : b \in S}
<1>1. IsFiniteSet(1..n)
  BY FS_Interval
<1>2. IsWellFoundedOn(StrictSubsetOrdering(1..n), SUBSET (1..n))
  BY <1>1, FS_FiniteSubsetsOfFinite, FS_StrictSubsetOrderingWellFounded
<1>3. all \subseteq SUBSET (1..n) /\ all # {}
  OBVIOUS
<1> HIDE DEF all
<1>4. PICK T \in all : \A U \in all : <<U, T>> \notin StrictSubsetOrdering(1..n)
  BY <1>2, <1>3, WFMin
<1>5. PICK b \in S : T = Above(b)
  BY DEF all
<1>6. ASSUME NEW c \in S, c > b PROVE FALSE
  <2>1. b \in Int /\ c \in Int /\ S \subseteq Int
    OBVIOUS
  <2>2. \A x \in Above(c) : x \in Above(b)
    BY <1>6, <2>1
  <2>3. c \in Above(b) /\ c \notin Above(c)
    BY <1>6, <2>1
  <2>4. Above(c) \in all
    BY DEF all
  <2> HIDE DEF Above
  <2>5. <<Above(c), T>> \in StrictSubsetOrdering(1..n)
    BY <1>3, <1>5, <2>2, <2>3, <2>4 DEF StrictSubsetOrdering
  <2> QED BY <1>4, <2>4, <2>5
<1>7. \A c \in S : b >= c
  BY <1>6
<1> QED BY <1>7

\* A visit moves, the notifications and the bets stay.
LEMMA VisitMoves ==
  ASSUME NotesInv, NEW v \in Visitors, NEW x, VisitOK(x, DOMAIN bets),
         visit' = [visit EXCEPT ![v] = x], noteFaults' \in 0..MaxNoteFaults,
         UNCHANGED <<bets, drawn, told, unread>>
  PROVE  NotesInv'
<1>1. DOMAIN visit' = Visitors /\ \A w \in Visitors : VisitOK(visit'[w], DOMAIN bets)
  BY DEF NotesInv
<1>2. DOMAIN bets' = DOMAIN bets
  OBVIOUS
<1>3. \A w \in Visitors : VisitOK(visit'[w], DOMAIN bets')
  BY <1>1, <1>2
<1> QED BY <1>1, <1>3 DEF NotesInv

LEMMA BetsChangeKeeps == ASSUME NotesInv, BetsChange PROVE NotesInv'
<1>1. UNCHANGED <<told, unread, visit, noteFaults>>
  BY DEF BetsChange
<1>2. /\ bets' \in Seq(BetStates) /\ Len(bets') <= NumBets
      /\ drawn' \subseteq DOMAIN bets' /\ DOMAIN bets \subseteq DOMAIN bets'
  <2>1. CASE Len(bets) < NumBets /\ bets' = Append(bets, "placed") /\ UNCHANGED drawn
    <3>1. "placed" \in BetStates /\ bets \in Seq(BetStates) /\ drawn \subseteq DOMAIN bets
      BY DEF BetStates, NotesInv
    <3>2. bets' \in Seq(BetStates) /\ Len(bets') = Len(bets) + 1
      BY <2>1, <3>1
    <3>3. DOMAIN bets \subseteq DOMAIN bets'
      BY <2>1, <3>1, <3>2, BetsAreNumbers
    <3> QED BY <2>1, <3>1, <3>2, <3>3, BetsAreNumbers, NotificationsAssumption DEF NotificationsAssumption
  <2>2. CASE (\E b \in DOMAIN bets \ drawn : drawn' = drawn \cup {b}) /\ UNCHANGED bets
    BY <2>2 DEF NotesInv
  <2>3. CASE /\ \E b \in drawn, o \in BetOutcomes :
                  /\ bets[b] \in {"placed", "checked"} \ {o}
                  /\ bets' = [bets EXCEPT ![b] = o]
             /\ UNCHANGED drawn
    <3>1. PICK b \in drawn, o \in BetOutcomes : bets' = [bets EXCEPT ![b] = o]
      BY <2>3
    <3>2. b \in DOMAIN bets /\ o \in BetStates /\ bets \in Seq(BetStates)
      BY DEF NotesInv, BetStates
    <3>3. bets' \in Seq(BetStates) /\ Len(bets') = Len(bets) /\ DOMAIN bets' = DOMAIN bets
      BY <3>1, <3>2, ExceptSeq
    <3> QED BY <2>3, <3>3 DEF NotesInv
  <2> QED BY <2>1, <2>2, <2>3 DEF BetsChange
<1>3. unread' \subseteq {b \in DOMAIN bets' : told'[b] # Untold}
  BY <1>1, <1>2 DEF NotesInv
<1>4. \A v \in Visitors : VisitOK(visit'[v], DOMAIN bets')
  BY <1>1, <1>2 DEF NotesInv, VisitOK
<1> QED BY <1>1, <1>2, <1>3, <1>4 DEF NotesInv

LEMMA ReadBetsKeeps == ASSUME NotesInv, NEW v \in Visitors, ReadBets(v) PROVE NotesInv'
<1> DEFINE read == [b \in ListRecent |-> bets[b]]
           x == [at |-> "results", states |-> read]
<1>1. visit' = [visit EXCEPT ![v] = x] /\ UNCHANGED <<bets, drawn, told, unread, noteFaults>>
  BY DEF ReadBets
<1>2. DOMAIN read \subseteq DOMAIN bets /\ read \in [DOMAIN read -> BetStates]
  BY BetsAreNumbers DEF ListRecent
<1>3. x.at = "results" /\ x.states = read
  OBVIOUS
<1> HIDE DEF read, x
<1>4. VisitOK(x, DOMAIN bets)
  BY <1>2, <1>3 DEF VisitOK
<1> QED BY <1>1, <1>4, VisitMoves DEF NotesInv

LEMMA ReadResultsKeeps == ASSUME NotesInv, NEW v \in Visitors, ReadResults(v) PROVE NotesInv'
<1> DEFINE s == visit[v].states
           n == [b \in DOMAIN s |-> NoteOf(s[b], b \in drawn)]
           x == [at |-> "write", notes |-> n]
<1>1. visit' = [visit EXCEPT ![v] = x] /\ UNCHANGED <<bets, drawn, told, unread, noteFaults>>
  BY DEF ReadResults
<1>2. DOMAIN s \subseteq DOMAIN bets /\ \A b \in DOMAIN s : s[b] \in BetStates
  BY DEF NotesInv, VisitOK, ReadResults, VisitAt
<1>3. DOMAIN n \subseteq DOMAIN bets /\ n \in [DOMAIN n -> NoteKinds]
  BY <1>2, NotesAreKnown
<1>4. x.at = "write" /\ x.notes = n
  OBVIOUS
<1> HIDE DEF s, n, x
<1>5. VisitOK(x, DOMAIN bets)
  BY <1>3, <1>4 DEF VisitOK
<1> QED BY <1>1, <1>5, VisitMoves DEF NotesInv

\* The note that is written next, of those that wait.
LEMMA NextToWrite ==
  ASSUME NotesInv, NEW v \in Visitors, VisitAt(v, "write"), visit[v].notes # <<>>
  PROVE  LET todo == DOMAIN visit[v].notes
             b == CHOOSE x \in todo : \A y \in todo : x >= y
         IN  b \in todo
<1> DEFINE notes == visit[v].notes
           todo == DOMAIN notes
<1>1. todo \subseteq DOMAIN bets /\ notes \in [todo -> NoteKinds]
  BY DEF NotesInv, VisitOK, VisitAt
<1>2. todo # {}
  <2>1. todo = {} => notes = <<>>
    <3>1. <<>> \in [{} -> NoteKinds]
      OBVIOUS
    <3> QED BY <1>1, <3>1
  <2> QED BY <2>1
<1>3. todo \in SUBSET (1..NumBets) /\ NumBets \in Nat
  BY <1>1, BetsAreNumbers, NotificationsAssumption DEF NotificationsAssumption
<1> HIDE DEF todo
<1>4. \E x \in todo : \A y \in todo : x >= y
  BY <1>2, <1>3, HasGreatest
<1>5. (CHOOSE x \in todo : \A y \in todo : x >= y) \in todo
  BY <1>4
<1> QED BY <1>5 DEF todo

LEMMA WriteNoteKeeps == ASSUME NotesInv, NEW v \in Visitors, WriteNote(v) PROVE NotesInv'
<1> DEFINE notes == visit[v].notes
           todo == DOMAIN notes
           b == CHOOSE x \in todo : \A y \in todo : x >= y
           note == notes[b]
           x == [visit[v] EXCEPT !.notes = Restrict(@, todo \ {b})]
<1>1. /\ VisitAt(v, "write") /\ notes # <<>>
      /\ UNCHANGED <<bets, drawn, noteFaults>>
      /\ told' = [told EXCEPT ![b] = note]
      /\ unread' = IF told'[b] # told[b] THEN unread \cup {b} ELSE unread
      /\ visit' = [visit EXCEPT ![v] = x]
  BY DEF WriteNote, UpsertNote
<1>2. b \in todo
  BY <1>1, NextToWrite
<1>3. visit[v].at = "write" /\ todo \subseteq DOMAIN bets /\ notes \in [todo -> NoteKinds]
  BY <1>1 DEF NotesInv, VisitOK, VisitAt
<1>4. x.at = "write" /\ x.notes = Restrict(notes, todo \ {b})
  BY <1>3
<1> HIDE DEF b, x, notes, todo
<1>5. /\ DOMAIN Restrict(notes, todo \ {b}) = todo \ {b}
      /\ Restrict(notes, todo \ {b}) \in [todo \ {b} -> NoteKinds]
  BY <1>3 DEF Restrict
<1>6. VisitOK(x, DOMAIN bets)
  BY <1>3, <1>4, <1>5 DEF VisitOK
<1>7. b \in DOMAIN bets /\ b \in 1..NumBets /\ note \in NoteKinds /\ note # Untold
  BY <1>2, <1>3, BetsAreNumbers, KindsAreTold
<1> HIDE DEF note
<1>8. told' \in [1..NumBets -> {Untold} \cup NoteKinds] /\ told'[b] = note
      /\ \A c \in 1..NumBets : c # b => told'[c] = told[c]
  BY <1>1, <1>7 DEF NotesInv
<1>9. unread' \subseteq {c \in DOMAIN bets : told'[c] # Untold}
  <2>1. ASSUME NEW c \in unread' PROVE c \in DOMAIN bets /\ told'[c] # Untold
    <3>1. CASE c = b
      BY <1>7, <1>8, <3>1
    <3>2. CASE c # b
      <4>1. c \in unread
        BY <1>1, <3>2
      <4>2. c \in DOMAIN bets /\ told[c] # Untold
        BY <4>1 DEF NotesInv
      <4>3. c \in 1..NumBets
        BY <4>2, BetsAreNumbers
      <4> QED BY <1>8, <3>2, <4>2, <4>3
    <3> QED BY <3>1, <3>2
  <2> QED BY <2>1
<1>10. DOMAIN visit' = Visitors /\ \A w \in Visitors : VisitOK(visit'[w], DOMAIN bets)
  BY <1>1, <1>6 DEF NotesInv
<1>11. DOMAIN bets' = DOMAIN bets
  BY <1>1
<1>12. \A w \in Visitors : VisitOK(visit'[w], DOMAIN bets')
  BY <1>10, <1>11
<1> QED BY <1>1, <1>8, <1>9, <1>10, <1>11, <1>12 DEF NotesInv

LEMMA NotesKeep == NotesInv /\ [NotesNext]_noteVars => NotesInv'
<1> SUFFICES ASSUME NotesInv, [NotesNext]_noteVars PROVE NotesInv'
  OBVIOUS
<1>1. CASE UNCHANGED noteVars
  <2>1. UNCHANGED <<bets, drawn, told, unread, visit, noteFaults>>
    BY <1>1 DEF noteVars
  <2> QED BY <2>1 DEF NotesInv, VisitOK
<1>2. CASE MarkRead
  <2>1. unread' \subseteq unread /\ UNCHANGED <<bets, drawn, told, visit, noteFaults>>
    BY <1>2 DEF MarkRead
  <2> QED BY <2>1 DEF NotesInv, VisitOK
<1>3. ASSUME NEW v \in Visitors, Visit(v) \/ ShowNotes(v) \/ RefreshFails(v) PROVE NotesInv'
  <2>1. VisitOK([at |-> "bets"], DOMAIN bets) /\ VisitOK(NotVisiting, DOMAIN bets)
    BY DEF VisitOK, NotVisiting
  <2>2. /\ \/ visit' = [visit EXCEPT ![v] = [at |-> "bets"]]
           \/ visit' = [visit EXCEPT ![v] = NotVisiting]
        /\ UNCHANGED <<bets, drawn, told, unread>>
    BY <1>3 DEF Visit, ShowNotes, RefreshFails
  <2>3. noteFaults' \in 0..MaxNoteFaults
    BY <1>3, NotificationsAssumption
       DEF Visit, ShowNotes, RefreshFails, NotesInv, NotificationsAssumption
  <2> QED BY <2>1, <2>2, <2>3, VisitMoves
<1> QED BY <1>1, <1>2, <1>3, BetsChangeKeeps, ReadBetsKeeps, ReadResultsKeeps, WriteNoteKeeps
        DEF NotesNext, RefreshStep

LEMMA NotesAreTyped == NotesInv => NotesTypeOK
BY BetsAreNumbers DEF NotesInv, NotesTypeOK, BetStates, NoteKinds, VisitOK

-----------------------------------------------------------------------------
(* The form of the generator. *)

\* A request names a form; the games asked for under the present revision are for
\* the form on screen, or for the form it was before a plan switched its filter off.
RequestOK(r, f, current) ==
    /\ r.ask \in AllForms
    /\ r.revision \in Nat /\ r.revision <= current
    /\ r.kind = "preview" /\ r.revision = current => f \in LeftOf(r.ask)

WebInv ==
    /\ selected \in WebLotteries
    /\ form \in AllForms \cup {NoForm}
    /\ preview \in AllForms \cup {NoForm}
    /\ revision \in Nat
    /\ mounting => form = NoForm
    /\ form = NoForm => preview = NoForm
    /\ asked # {} \/ planTimer => form # NoForm
    /\ \A r \in asked : RequestOK(r, form, revision)
    /\ preview # NoForm => form \in LeftOf(preview)

\* A form is not NoForm, and what its fields are.
LEMMA FormFacts ==
    ASSUME NEW f \in AllForms
    PROVE  /\ f # NoForm
           /\ f.lottery \in WebLotteries
           /\ f.repeated \in BOOLEAN
           /\ f \in Forms(f.lottery)
           /\ \A g \in Forms(f.lottery) : g \in AllForms
  <1>1. PICK l \in WebLotteries : f \in Forms(l)
    BY DEF AllForms
  <1>2. f.lottery = l /\ f.repeated \in BOOLEAN
    BY <1>1 DEF Forms
  <1>3. DOMAIN f = {"lottery", "target", "repeated", "rest"}
    BY <1>1 DEF Forms
  <1>4. DOMAIN NoForm = {"lottery"}
    BY DEF NoForm
  <1>5. f # NoForm
    BY <1>3, <1>4
  <1> QED BY <1>1, <1>2, <1>5 DEF AllForms

\* The form without the filter of repeated numbers is a form.
LEMMA SwitchedOff ==
    ASSUME NEW f \in AllForms
    PROVE  /\ [f EXCEPT !.repeated = FALSE] \in AllForms
           /\ [f EXCEPT !.repeated = FALSE].repeated = FALSE
  <1>1. PICK l \in WebLotteries : f \in Forms(l)
    BY DEF AllForms
  <1>2. [f EXCEPT !.repeated = FALSE] \in Forms(l)
    BY <1>1 DEF Forms
  <1>3. [f EXCEPT !.repeated = FALSE].repeated = FALSE
    BY <1>1 DEF Forms
  <1> QED BY <1>1, <1>2, <1>3 DEF AllForms

\* Switching the filter off leads no further away from the form asked for.
LEMMA LeftStays ==
    ASSUME NEW a \in AllForms, NEW f \in LeftOf(a), f.repeated
    PROVE  [f EXCEPT !.repeated = FALSE] \in LeftOf(a)
  <1>1. f = a
    BY SwitchedOff DEF LeftOf
  <1> QED BY <1>1 DEF LeftOf

\* The lottery that a mount falls back to is offered, and its first form is a form.
LEMMA ConfigOffered ==
    ASSUME WebAssumption, NEW l \in WebLotteries
    PROVE  /\ LotteryConfig(l) \in WebLotteries
           /\ FirstForm(LotteryConfig(l)) \in AllForms
  <1>1. LotteryConfig(l) \in Offered
    BY DEF WebAssumption, LotteryConfig
  <1>2. LotteryConfig(l) \in WebLotteries
    BY <1>1 DEF WebAssumption
  <1>3. FirstForm(LotteryConfig(l)) \in Forms(LotteryConfig(l))
    BY DEF FirstForm, Forms, WebAssumption
  <1> QED BY <1>2, <1>3 DEF AllForms

\* A request of the present form, under the present revision.
LEMMA PlanCallOK ==
    ASSUME revision \in Nat, NEW f \in AllForms, NEW g
    PROVE  RequestOK(PlanCall(f), g, revision)
  BY DEF RequestOK, PlanCall

\* ++revision: what was asked before fits no later form.
LEMMA OlderIsOK ==
    ASSUME NEW n \in Nat, NEW r, NEW f, NEW g, RequestOK(r, f, n)
    PROVE  RequestOK(r, g, n + 1)
  BY DEF RequestOK

\* The initial states.
LEMMA WebInitOK == WebInit => WebInv
  BY DEF WebInit, WebInv

\* An edit clears the preview and makes every request in flight an older one.
LEMMA EditKeeps ==
    ASSUME WebInv, Edit PROVE WebInv'
  <1>1. form \in AllForms
    BY DEF WebInv, Edit
  <1>2. /\ form' \in AllForms
        /\ preview' = NoForm /\ revision' = revision + 1
    <2>1. CASE EditPlanned
      BY <1>1, <2>1, FormFacts DEF EditPlanned, SchedulePlan, ClearPreview
    <2>2. CASE EditRest
      <3>1. PICK l \in WebLotteries : form \in Forms(l)
        BY <1>1 DEF AllForms
      <3>2. [form EXCEPT !.rest = 1 - @] \in Forms(l)
        <4>1. form.rest \in 0..1
          BY <3>1 DEF Forms
        <4>2. 1 - form.rest \in 0..1
          BY <4>1
        <4> QED BY <3>1, <4>2 DEF Forms
      <3> QED BY <2>2, <3>2 DEF EditRest, ClearPreview, AllForms
    <2>3. CASE ChangePurpose
      BY <1>1, <2>3, FormFacts DEF ChangePurpose, ClearPreview
    <2> QED BY <2>1, <2>2, <2>3 DEF Edit
  <1>3. \A r \in asked' : RequestOK(r, form', revision')
    <2>1. \A r \in asked : RequestOK(r, form', revision')
      BY <1>2, OlderIsOK DEF WebInv
    <2>2. CASE EditPlanned \/ EditRest
      BY <2>1, <2>2 DEF EditPlanned, SchedulePlan, DropPlans, EditRest
    <2>3. CASE ChangePurpose
      <3>1. RequestOK(PlanCall(form'), form', revision')
        BY <1>2 DEF RequestOK, PlanCall, WebInv
      <3> QED BY <2>1, <2>3, <3>1 DEF ChangePurpose, DropPlans
    <2> QED BY <2>2, <2>3 DEF Edit
  <1>4. form' # NoForm
    BY <1>2, FormFacts
  <1>5. selected' \in WebLotteries /\ revision' \in Nat
    BY <1>2 DEF WebInv, Edit
  <1>6. ~mounting'
    BY DEF WebInv, Edit
  <1> QED BY <1>6, <1>2, <1>3, <1>4, <1>5 DEF WebInv

\* The plan of the form on screen is asked for.
LEMMA PlanAskedKeeps ==
    ASSUME WebInv, form # NoForm, asked' = DropPlans \cup {PlanCall(form)},
           UNCHANGED <<selected, form, mounting, preview, revision>>
    PROVE  WebInv'
  <1>1. form \in AllForms
    BY DEF WebInv
  <1>2. RequestOK(PlanCall(form), form, revision)
    BY <1>1, PlanCallOK DEF WebInv
  <1>3. \A r \in asked' : RequestOK(r, form, revision)
    BY <1>2 DEF WebInv, DropPlans
  <1> QED BY <1>3 DEF WebInv

\* The event of a finished synchronization asks for the plan of the same form.
LEMMA RefreshKeeps ==
    ASSUME WebInv, RefreshOnSync, UNCHANGED selected PROVE WebInv'
  <1>1. CASE form = NoForm
    BY <1>1 DEF WebInv, RefreshOnSync, formVars
  <1>2. CASE form # NoForm
    BY <1>2, PlanAskedKeeps DEF RefreshOnSync
  <1> QED BY <1>1, <1>2

\* What leaves the form alone.
LEMMA SameFormKeeps ==
    ASSUME WebInv, UNCHANGED <<selected, formVars>> PROVE WebInv'
  BY DEF WebInv, formVars

\* A mount starts again from nothing.
LEMMA MountKeeps ==
    ASSUME Mount, selected' \in WebLotteries PROVE WebInv'
  BY DEF Mount, WebInv

\* A plan may switch the filter off; games are kept under their own revision only.
LEMMA FormAnswerKeeps ==
    ASSUME WebInv, FormAnswered PROVE WebInv'
  <1>1. PICK r \in asked :
           \/ r.kind = "plan" /\ (PlanAnswers(r) \/ PlanFails(r))
           \/ r.kind = "preview" /\ (PreviewAnswers(r) \/ PreviewFails(r))
    BY DEF FormAnswered
  <1>2. UNCHANGED <<selected, mounting>>
    BY DEF FormAnswered
  <1>3. RequestOK(r, form, revision) /\ form \in AllForms /\ form # NoForm /\ ~mounting
    BY DEF WebInv
  <1>4. CASE PlanAnswers(r)
    <2>1. PICK known \in r.since..server.latest :
            IF form.repeated /\ ~PreviousAvailable(r.ask, known)
            THEN /\ form' = [form EXCEPT !.repeated = FALSE]
                 /\ asked' = (asked \ {r}) \cup {PlanCall(form')}
            ELSE /\ asked' = asked \ {r}
                 /\ UNCHANGED form
      BY <1>4 DEF PlanAnswers
    <2>2. UNCHANGED <<preview, revision, planTimer>>
      BY <1>4 DEF PlanAnswers
    <2>3. CASE form.repeated /\ ~PreviousAvailable(r.ask, known)
      <3>1. /\ form' = [form EXCEPT !.repeated = FALSE]
            /\ asked' = (asked \ {r}) \cup {PlanCall(form')}
        BY <2>1, <2>3
      <3>2. form' \in AllForms /\ form' # NoForm
        BY <1>3, <3>1, SwitchedOff, FormFacts
      <3>3. \A a \in AllForms : form \in LeftOf(a) => form' \in LeftOf(a)
        BY <2>3, <3>1, LeftStays
      <3>4. ASSUME NEW q \in asked PROVE RequestOK(q, form', revision')
        BY <2>2, <3>3 DEF WebInv, RequestOK
      <3>5. RequestOK(PlanCall(form'), form', revision')
        BY <2>2, <3>2 DEF RequestOK, PlanCall, WebInv
      <3>6. preview # NoForm => form' \in LeftOf(preview)
        BY <3>3 DEF WebInv
      <3>7. \A q \in asked' : RequestOK(q, form', revision')
        BY <3>1, <3>4, <3>5
      <3> QED BY <1>2, <2>2, <3>2, <3>6, <3>7 DEF WebInv
    <2>4. CASE ~(form.repeated /\ ~PreviousAvailable(r.ask, known))
      <3>1. asked' = asked \ {r} /\ UNCHANGED form
        BY <2>1, <2>4
      <3> QED BY <1>2, <1>3, <2>2, <3>1 DEF WebInv
    <2> QED BY <2>3, <2>4
  <1>5. CASE PlanFails(r) \/ PreviewFails(r)
    <2>1. asked' = asked \ {r} /\ UNCHANGED <<form, preview, revision, planTimer>>
      BY <1>5 DEF PlanFails, PreviewFails
    <2> QED BY <1>2, <1>3, <2>1 DEF WebInv
  <1>6. CASE r.kind = "preview" /\ PreviewAnswers(r)
    <2>1. asked' = asked \ {r} /\ UNCHANGED <<form, revision, planTimer>>
      BY <1>6 DEF PreviewAnswers
    <2>2. preview' = IF r.revision = revision THEN r.ask ELSE preview
      BY <1>6 DEF PreviewAnswers
    <2>3. preview' \in AllForms \cup {NoForm} /\ (preview' # NoForm => form' \in LeftOf(preview'))
      BY <1>3, <1>6, <2>1, <2>2 DEF WebInv, RequestOK
    <2> QED BY <1>2, <1>3, <2>1, <2>3 DEF WebInv
  <1> QED BY <1>1, <1>4, <1>5, <1>6

\* Every step of the page keeps the invariant.
LEMMA WebStepOK == WebInv /\ [WebNext]_webVars => WebInv'
  <1> SUFFICES ASSUME WebInv, [WebNext]_webVars PROVE WebInv'
    OBVIOUS
  <1>1. CASE UNCHANGED webVars
    BY <1>1, SameFormKeeps DEF webVars
  <1>2. CASE MountEnds
    <2>1. form' \in AllForms /\ selected' \in WebLotteries
      BY <1>2, WebAssumption, ConfigOffered DEF MountEnds, WebInv
    <2>2. asked = {} /\ preview = NoForm
      BY <1>2 DEF MountEnds, WebInv
    <2>3. UNCHANGED <<preview, revision, asked, planTimer>> /\ mounting' = FALSE
      BY <1>2 DEF MountEnds
    <2>4. form' # NoForm
      BY <2>1, FormFacts
    <2> QED BY <2>1, <2>2, <2>3, <2>4 DEF WebInv
  <1>3. CASE MountFails
    BY <1>3 DEF MountFails, WebInv
  <1>4. CASE Remount \/ SelectLottery
    BY <1>4, MountKeeps DEF Remount, SelectLottery, WebInv
  <1>5. CASE Edit
    BY <1>5, EditKeeps
  <1>6. CASE PlanTimerFires
    BY <1>6, PlanAskedKeeps DEF PlanTimerFires, WebInv
  <1>7. CASE GeneratePreview
    <2> DEFINE q == [kind |-> "preview", ask |-> form, revision |-> revision, since |-> server.latest]
    <2>1. form \in AllForms
      BY <1>7 DEF GeneratePreview, WebInv
    <2>2. RequestOK(q, form, revision)
      BY <2>1 DEF RequestOK, WebInv, LeftOf
    <2>3. asked' = asked \cup {q} /\ UNCHANGED <<selected, form, preview, revision, planTimer>>
      BY <1>7 DEF GeneratePreview
    <2>4. \A r \in asked' : RequestOK(r, form', revision')
      BY <2>2, <2>3 DEF WebInv
    <2> HIDE DEF q
    <2> QED BY <1>7, <2>3, <2>4 DEF WebInv, GeneratePreview
  <1>8. CASE FormAnswered
    BY <1>8, FormAnswerKeeps
  <1>9. CASE RecentEnds \/ RetryRecent \/ PollFails \/ PollAgain \/ ClickSync
             \/ PageHide \/ PageShow \/ ServerSyncs
    BY <1>9, SameFormKeeps DEF RecentEnds, RetryRecent, PollFails, PollAgain, ClickSync,
       PageHide, PageShow, ServerSyncs
  <1>10. CASE PollAnswers \/ PostAnswers
    BY <1>10, SameFormKeeps, RefreshKeeps DEF PollAnswers, PostAnswers, SyncFinished
  <1> QED BY <1>1, <1>2, <1>3, <1>4, <1>5, <1>6, <1>7, <1>8, <1>9, <1>10 DEF WebNext

\* The inductive invariant of the form, whatever the bounds of the constants.
THEOREM WebInvHolds == WebSpec => []WebInv
  BY WebInitOK, WebStepOK, PTL DEF WebSpec

\* generatePreview() and clearPreview(): games made for one form never stand under
\* another, but for the filter that a plan switched off (PreviewFitsForm).
THEOREM PreviewsFitTheForm == WebSpec => []PreviewFitsForm
  <1>1. WebInv => PreviewFitsForm
    BY DEF WebInv, PreviewFitsForm
  <1> QED BY <1>1, WebInvHolds, PTL

\* What is counted, and the rest of the state.
TallyFields == {"edits", "mounts", "syncs", "faults"}

WebTypes ==
    /\ {mounting, planPending, planTimer, generating} \subseteq BOOLEAN
    /\ DOMAIN webTally = TallyFields /\ webTally.edits \in 0..MaxEdits
    /\ revision \in Nat /\ revision <= webTally.edits
    /\ \A r \in asked : r.kind \in {"plan", "preview"}
    /\ recentOf \in WebLotteries \cup {"loading", "failed"}
    /\ DOMAIN server = {"latest", "run"}
    /\ server.latest \in 1..MaxLatest /\ server.run \in {"none", "running", "ended", "failed"}

LEMMA WebTypesStart == WebInit => WebTypes
  <1> SUFFICES ASSUME WebInit PROVE WebTypes
    OBVIOUS
  <1>1. DOMAIN webTally = TallyFields /\ webTally.edits = 0
    BY DEF WebInit, TallyFields
  <1>2. DOMAIN server = {"latest", "run"} /\ server.latest = 1 /\ server.run = "none"
    BY DEF WebInit
  <1>3. 0 \in 0..MaxEdits /\ 1 \in 1..MaxLatest
    BY WebAssumption DEF WebAssumption
  <1>4. {mounting, planPending, planTimer, generating} \subseteq BOOLEAN
    BY DEF WebInit
  <1>5. revision \in Nat /\ revision <= webTally.edits
    BY <1>1 DEF WebInit
  <1> QED BY <1>1, <1>2, <1>3, <1>4, <1>5 DEF WebInit, WebTypes

\* What is counted besides the changes of the form.
LEMMA CountOthers ==
    ASSUME WebTypes, NEW k, k # "edits", Count(k) \/ UNCHANGED webTally
    PROVE  DOMAIN webTally' = TallyFields /\ webTally'.edits = webTally.edits
  BY DEF Count, WebTypes, TallyFields

\* A plan or the games are asked for, or an answer is taken away.
LEMMA AskedKinds ==
    ASSUME WebTypes
    PROVE  /\ \A r \in DropPlans : r.kind \in {"plan", "preview"}
           /\ \A f : PlanCall(f).kind = "plan"
  BY DEF WebTypes, DropPlans, PlanCall

LEMMA MountTypes ==
    ASSUME WebTypes, Mount, UNCHANGED server, recentOf' \in WebLotteries \cup {"loading", "failed"}
    PROVE  WebTypes'
  <1>1. DOMAIN webTally' = TallyFields /\ webTally'.edits = webTally.edits
    BY CountOthers DEF Mount
  <1>2. revision' = 0 /\ webTally'.edits \in 0..MaxEdits
    BY <1>1 DEF WebTypes, Mount
  <1>3. revision' \in Nat /\ revision' <= webTally'.edits
    BY <1>2, WebAssumption DEF WebAssumption
  <1> QED BY <1>1, <1>2, <1>3 DEF WebTypes, Mount

LEMMA EditTypes ==
    ASSUME WebTypes, Edit PROVE WebTypes'
  <1>1. /\ DOMAIN webTally' = TallyFields /\ webTally'.edits = webTally.edits + 1
        /\ webTally.edits < MaxEdits
    BY DEF Edit, Count, WebTypes, TallyFields
  <1>2. webTally'.edits \in 0..MaxEdits
    BY <1>1, WebAssumption DEF WebTypes, WebAssumption
  <1>3. revision' \in {revision, revision + 1}
    BY DEF Edit, EditPlanned, EditRest, ChangePurpose, SchedulePlan, ClearPreview
  <1>4. revision' \in Nat /\ revision' <= webTally'.edits
    BY <1>1, <1>3 DEF WebTypes
  <1>5. {planPending', planTimer', generating'} \subseteq BOOLEAN
    BY DEF Edit, EditPlanned, EditRest, ChangePurpose, SchedulePlan, WebTypes
  <1>6. \A r \in asked' : r.kind \in {"plan", "preview"}
    BY AskedKinds DEF Edit, EditPlanned, EditRest, ChangePurpose, SchedulePlan, WebTypes
  <1>7. UNCHANGED <<mounting, recentOf, server>>
    BY DEF Edit
  <1> QED BY <1>1, <1>2, <1>4, <1>5, <1>6, <1>7 DEF WebTypes

LEMMA FormAnswerTypes ==
    ASSUME WebTypes, FormAnswered PROVE WebTypes'
  <1>1. PICK r \in asked :
           \/ PlanAnswers(r) \/ PlanFails(r)
           \/ PreviewAnswers(r) \/ PreviewFails(r)
    BY DEF FormAnswered
  <1>2. UNCHANGED <<mounting, recentOf, server>>
    BY DEF FormAnswered
  <1>3. Count("faults") \/ UNCHANGED webTally
    BY <1>1 DEF PlanAnswers, PlanFails, PreviewAnswers, PreviewFails
  <1>4. DOMAIN webTally' = TallyFields /\ webTally'.edits = webTally.edits
    BY <1>3, CountOthers
  <1>5. revision' = revision /\ {planPending', planTimer', generating'} \subseteq BOOLEAN
    BY <1>1 DEF PlanAnswers, PlanFails, PreviewAnswers, PreviewFails, WebTypes
  <1>6. \A q \in asked' : q \in asked \/ \E f : q = PlanCall(f)
    BY <1>1 DEF PlanAnswers, PlanFails, PreviewAnswers, PreviewFails
  <1>7. \A q \in asked' : q.kind \in {"plan", "preview"}
    BY <1>6, AskedKinds DEF WebTypes
  <1> QED BY <1>2, <1>4, <1>5, <1>7 DEF WebTypes

\* The plan of the form is asked for.
LEMMA PlanAskedTypes ==
    ASSUME WebTypes, NEW f, asked' = DropPlans \cup {PlanCall(f)},
           {planPending', planTimer', generating'} \subseteq BOOLEAN,
           recentOf' \in WebLotteries \cup {"loading", "failed"},
           UNCHANGED <<mounting, revision, server, webTally>>
    PROVE  WebTypes'
  <1>1. \A r \in asked' : r.kind \in {"plan", "preview"}
    BY AskedKinds
  <1> QED BY <1>1 DEF WebTypes

\* What leaves the form alone and keeps the number of changes.
LEMMA SameFormTypes ==
    ASSUME WebTypes, UNCHANGED formVars,
           DOMAIN webTally' = TallyFields, webTally'.edits = webTally.edits,
           recentOf' \in WebLotteries \cup {"loading", "failed"},
           DOMAIN server' = {"latest", "run"}, server'.latest \in 1..MaxLatest,
           server'.run \in {"none", "running", "ended", "failed"}
    PROVE  WebTypes'
  BY DEF WebTypes, formVars

LEMMA SyncFinishedTypes ==
    ASSUME WebTypes, NEW refresh, SyncFinished(refresh), UNCHANGED <<server, webTally>>
    PROVE  WebTypes'
  <1>1. CASE UNCHANGED <<recentOf, formVars>>
    BY <1>1, SameFormTypes DEF WebTypes
  <1>2. CASE recentOf' = "loading" /\ RefreshOnSync
    <2>1. CASE UNCHANGED formVars
      BY <1>2, <2>1, SameFormTypes DEF WebTypes
    <2>2. CASE form # NoForm
      BY <1>2, <2>2, PlanAskedTypes DEF RefreshOnSync, WebTypes
    <2> QED BY <1>2, <2>1, <2>2 DEF RefreshOnSync
  <1> QED BY <1>1, <1>2 DEF SyncFinished

LEMMA WatchTypes ==
    ASSUME WebTypes, selected \in WebLotteries,
           \/ RecentEnds \/ RetryRecent \/ PollFails \/ PollAgain \/ ClickSync
           \/ PageHide \/ PageShow \/ ServerSyncs
    PROVE  WebTypes'
  <1>1. UNCHANGED formVars
    BY DEF RecentEnds, RetryRecent, PollFails, PollAgain, ClickSync, PageHide, PageShow, ServerSyncs
  <1>2. Count("faults") \/ Count("syncs") \/ Count("mounts") \/ UNCHANGED webTally
    BY DEF RecentEnds, RetryRecent, PollFails, PollAgain, ClickSync, PageHide, PageShow, ServerSyncs
  <1>3. DOMAIN webTally' = TallyFields /\ webTally'.edits = webTally.edits
    BY <1>2, CountOthers
  <1>4. recentOf' \in WebLotteries \cup {"loading", "failed"}
    BY DEF RecentEnds, RetryRecent, PollFails, PollAgain, ClickSync, PageHide, PageShow, ServerSyncs,
       WebTypes
  <1>5. /\ DOMAIN server' = {"latest", "run"} /\ server'.latest \in 1..MaxLatest
        /\ server'.run \in {"none", "running", "ended", "failed"}
    <2>1. CASE ServerSyncs
      <3>1. CASE server' = [server EXCEPT !.run = "running"]
        BY <3>1 DEF WebTypes
      <3>2. CASE \E l \in server.latest..MaxLatest, o \in {"ended", "failed"} :
                    server' = [latest |-> l, run |-> o]
        BY <3>2, WebAssumption DEF WebTypes, WebAssumption
      <3> QED BY <2>1, <3>1, <3>2 DEF ServerSyncs
    <2>2. CASE server' \in {server, [server EXCEPT !.run = "running"]}
      BY <2>2 DEF WebTypes
    <2> QED BY <2>1, <2>2 DEF RecentEnds, RetryRecent, PollFails, PollAgain, ClickSync, PageHide,
             PageShow
  <1> QED BY <1>1, <1>3, <1>4, <1>5, SameFormTypes

LEMMA WebTypesKeep == WebInv /\ WebTypes /\ [WebNext]_webVars => WebTypes'
  <1> SUFFICES ASSUME WebInv, WebTypes, [WebNext]_webVars PROVE WebTypes'
    OBVIOUS
  <1>0. selected \in WebLotteries
    BY DEF WebInv
  <1>1. CASE UNCHANGED webVars
    BY <1>1 DEF webVars, formVars, WebTypes
  <1>2. CASE MountEnds
    BY <1>2 DEF MountEnds, WebTypes
  <1>3. CASE MountFails
    <2>1. DOMAIN webTally' = TallyFields /\ webTally'.edits = webTally.edits
      BY <1>3, CountOthers DEF MountFails
    <2> QED BY <1>3, <2>1 DEF MountFails, WebTypes
  <1>4. CASE Remount \/ SelectLottery
    BY <1>4, MountTypes DEF Remount, SelectLottery, WebTypes
  <1>5. CASE PlanTimerFires
    BY <1>5, PlanAskedTypes DEF PlanTimerFires, WebTypes
  <1>6. CASE GeneratePreview
    <2> DEFINE q == [kind |-> "preview", ask |-> form, revision |-> revision, since |-> server.latest]
    <2>1. asked' = asked \cup {q} /\ q.kind = "preview"
      BY <1>6 DEF GeneratePreview
    <2> HIDE DEF q
    <2>2. \A r \in asked' : r.kind \in {"plan", "preview"}
      BY <2>1 DEF WebTypes
    <2> QED BY <1>6, <2>2 DEF GeneratePreview, WebTypes
  <1>7. CASE PollAnswers \/ PostAnswers
    <2>1. CASE UNCHANGED <<recentOf, formVars>>
      <3>1. UNCHANGED server /\ (Count("faults") \/ UNCHANGED webTally)
        BY <1>7 DEF PollAnswers, PostAnswers
      <3>2. DOMAIN webTally' = TallyFields /\ webTally'.edits = webTally.edits
        BY <3>1, CountOthers
      <3> QED BY <2>1, <3>1, <3>2, SameFormTypes DEF WebTypes
    <2>2. CASE (\E refresh : SyncFinished(refresh)) /\ UNCHANGED <<server, webTally>>
      BY <2>2, SyncFinishedTypes
    <2> QED BY <1>7, <2>1, <2>2 DEF PollAnswers, PostAnswers
  <1> QED BY <1>0, <1>1, <1>2, <1>3, <1>4, <1>5, <1>6, <1>7, EditTypes, FormAnswerTypes, WatchTypes
          DEF WebNext

LEMMA WebIsTyped == WebInv /\ WebTypes => WebTypeOK
  BY WebAssumption DEF WebInv, WebTypes, WebTypeOK, RequestOK, WebAssumption

-----------------------------------------------------------------------------
(* The pages. *)

\* What the ten pages have in common: a page of the main view tests the view and
\* the selection of every answer, and whoever does not begin a load on a change
\* of the selector tests the selection.
Traits(q) ==
    /\ q.pick \in {"load", "bump", "clear", "event"}
    /\ "token" \in q.tests \/ q.pick = "clear"
    /\ "picked" \in q.tests \/ q.pick = "load"
    /\ q.pick = "clear" => "picked" \in q.tests
    /\ q.pick = "event" => q.main
    /\ q.main => {"view", "picked"} \subseteq q.tests /\ (q.falls \/ "view" \in q.errorTests)
    /\ "view" \in q.tests \cup q.errorTests => q.main
    /\ q.pick = "clear" => q.single
    /\ q.leave => q.main
    /\ q.single => ~q.main /\ q.pick # "load"

LoadsOK(ls, newest) ==
    /\ newest \in Nat
    /\ \A l \in ls : l.token \in Nat /\ l.token <= newest
    /\ \A l, m \in ls : l.token = m.token => l = m

\* The newest load is for the selection, or an event replaces it, or the page
\* tests the selection and shows nothing it could contradict.
CurrentFits(l) ==
    l.token = token =>
       \/ l.of = picked
       \/ due
       \/ "picked" \in Me.tests /\ shown.is # "data"

PagesInv ==
    /\ page \in DOMAIN Pages
    /\ LoadsOK(loads, token)
    /\ Me.single => \A l, m \in loads : l = m
    /\ pollTimer => page = "jobs"
    /\ due => Me.main /\ there
    /\ Me.main /\ ~there => shown = Nothing
    /\ \A l \in loads : CurrentFits(l)
    /\ ShownFitsSelection
    /\ WorkIsFollowed

PageNames == {"jobs", "strategies", "history", "insight", "agenda", "lab",
              "dashboard", "analysis", "backtests", "games"}

\* Each of the ten pages has the traits.
LEMMA PageTraits ==
    /\ DOMAIN Pages = PageNames
    /\ \A p \in PageNames : Traits(Pages[p])
    /\ Pages["jobs"].pick = "load" /\ Pages["jobs"].main = FALSE
  <1>1. DOMAIN Pages = PageNames
    BY DEF Pages, PageNames
  <1>2. /\ Pages["jobs"] = JobsPage /\ Pages["strategies"] = StrategiesPage
        /\ Pages["history"] = HistoryPage /\ Pages["insight"] = InsightPage
        /\ Pages["agenda"] = AgendaPage /\ Pages["lab"] = LabPage
        /\ Pages["dashboard"] = DashboardPage /\ Pages["analysis"] = AnalysisPage
        /\ Pages["backtests"] = BacktestsPage /\ Pages["games"] = GamesPage
    BY DEF Pages
  <1>3. Traits(JobsPage) /\ Traits(StrategiesPage) /\ Traits(HistoryPage)
    BY DEF Traits, JobsPage, StrategiesPage, HistoryPage, Page
  <1>4. Traits(InsightPage)
    BY DEF Traits, InsightPage, Page
  <1>5. Traits(AgendaPage)
    BY DEF Traits, AgendaPage, Page
  <1>6. Traits(LabPage)
    BY DEF Traits, LabPage, Page
  <1>7. Traits(DashboardPage)
    BY DEF Traits, DashboardPage, Page
  <1>8. Traits(AnalysisPage)
    BY DEF Traits, AnalysisPage, Page
  <1>9. Traits(BacktestsPage)
    BY DEF Traits, BacktestsPage, Page
  <1>10. Traits(GamesPage)
    BY DEF Traits, GamesPage, Page
  <1>11. JobsPage.pick = "load" /\ JobsPage.main = FALSE
    BY DEF JobsPage, Page
  <1>12. \A p \in PageNames : Traits(Pages[p])
    BY <1>2, <1>3, <1>4, <1>5, <1>6, <1>7, <1>8, <1>9, <1>10 DEF PageNames
  <1> QED BY <1>1, <1>2, <1>11, <1>12

\* The traits, of the page of this behaviour.
LEMMA MyTraits ==
    ASSUME page \in DOMAIN Pages
    PROVE  /\ Traits(Me)
           /\ page = "jobs" => Me.pick = "load" /\ Me.main = FALSE /\ ~Me.single
  <1>1. Traits(Me) /\ (page = "jobs" => Me.pick = "load" /\ Me.main = FALSE)
    BY PageTraits DEF Me
  <1> QED BY <1>1 DEF Traits

\* A page says of itself whether it is a view of the main page.
LEMMA MainIsBoolean ==
    ASSUME page \in DOMAIN Pages
    PROVE  Me.main \in BOOLEAN
  <1>1. /\ Pages["jobs"] = JobsPage /\ Pages["strategies"] = StrategiesPage
        /\ Pages["history"] = HistoryPage /\ Pages["insight"] = InsightPage
        /\ Pages["agenda"] = AgendaPage /\ Pages["lab"] = LabPage
        /\ Pages["dashboard"] = DashboardPage /\ Pages["analysis"] = AnalysisPage
        /\ Pages["backtests"] = BacktestsPage /\ Pages["games"] = GamesPage
    BY DEF Pages
  <1>2. {JobsPage.main, StrategiesPage.main, HistoryPage.main, InsightPage.main, AgendaPage.main,
         LabPage.main} = {FALSE}
    BY DEF JobsPage, StrategiesPage, HistoryPage, InsightPage, AgendaPage, LabPage, Page
  <1>3. {DashboardPage.main, AnalysisPage.main, BacktestsPage.main, GamesPage.main} = {TRUE}
    BY DEF DashboardPage, AnalysisPage, BacktestsPage, GamesPage, Page
  <1>4. \A p \in PageNames : Pages[p].main \in {TRUE, FALSE}
    <2>1. /\ Pages["jobs"].main = FALSE /\ Pages["strategies"].main = FALSE
          /\ Pages["history"].main = FALSE /\ Pages["insight"].main = FALSE
          /\ Pages["agenda"].main = FALSE /\ Pages["lab"].main = FALSE
      BY <1>1, <1>2
    <2>2. /\ Pages["dashboard"].main = TRUE /\ Pages["analysis"].main = TRUE
          /\ Pages["backtests"].main = TRUE /\ Pages["games"].main = TRUE
      BY <1>1, <1>3
    <2> QED BY <2>1, <2>2 DEF PageNames
  <1>5. page \in PageNames
    BY PageTraits
  <1> QED BY <1>4, <1>5 DEF Me

\* A load that begins is the newest one, for the selection of that moment.
LEMMA BeginOK ==
    ASSUME NEW choice, NEW keeps, LoadsOK(loads, token), Begin(choice, keeps)
    PROVE  /\ LoadsOK(loads', token')
           /\ Current'
           /\ \A l \in loads' : l.token = token' => l.of = choice
           /\ loads = {} => \A l, m \in loads' : l = m
  <1> DEFINE new == [token |-> token + 1, of |-> choice]
  <1>1. token' = token + 1 /\ new \in loads' /\ loads' \subseteq loads \cup {new}
    BY DEF Begin
  <1>2. new.token = token + 1 /\ new.of = choice
    OBVIOUS
  <1> HIDE DEF new
  <1>3. LoadsOK(loads', token')
    BY <1>1, <1>2 DEF LoadsOK
  <1>4. Current'
    BY <1>1, <1>2 DEF Current
  <1>5. \A l \in loads' : l.token = token' => l.of = choice
    BY <1>1, <1>2 DEF LoadsOK
  <1>6. loads = {} => \A l, m \in loads' : l = m
    BY <1>1
  <1> QED BY <1>3, <1>4, <1>5, <1>6

\* Only an answer puts data on screen.
LEMMA ShownIs ==
    Nothing.is # "data" /\ Loading.is # "data" /\ Failed.is # "data"
  BY DEF Nothing, Loading, Failed

\* Whatever begins a load for the selection keeps the invariant.
LEMMA BeginKeeps ==
    ASSUME PagesInv, NEW keeps, Begin(picked', keeps), page' = page,
           Me.single => loads = {},
           pollTimer' => page = "jobs",
           due' => Me.main /\ there',
           Me.main /\ ~there' => shown' = Nothing
    PROVE  PagesInv'
  <1>1. LoadsOK(loads, token)
    BY DEF PagesInv
  <1>2. /\ LoadsOK(loads', token') /\ Current'
        /\ \A l \in loads' : l.token = token' => l.of = picked'
    BY <1>1, BeginOK
  <1>7. Me.single => \A l, m \in loads' : l = m
    BY <1>1, BeginOK
  <1>3. Me' = Me
    BY DEF Me
  <1>4. ShownFitsSelection' /\ WorkIsFollowed'
    BY <1>2 DEF ShownFitsSelection, WorkIsFollowed
  <1>5. \A l \in loads' : CurrentFits(l)'
    BY <1>2 DEF CurrentFits
  <1>6. page' \in DOMAIN Pages
    BY DEF PagesInv
  <1> QED BY <1>2, <1>3, <1>4, <1>5, <1>6, <1>7 DEF PagesInv

\* The initial states.
LEMMA PagesInitOK == PagesInit => PagesInv
  BY ShownIs DEF PagesInit, PagesInv, LoadsOK, ShownFitsSelection, WorkIsFollowed

\* A refresh or a submit.
LEMMA AskKeeps ==
    ASSUME PagesInv, Ask PROVE PagesInv'
  BY BeginKeeps DEF Ask, PagesInv

\* The timer of the jobs page.
LEMMA PollKeeps ==
    ASSUME PagesInv, PollDue PROVE PagesInv'
  <1>1. Begin(picked', TRUE) /\ shown' = shown
    BY DEF PollDue, Begin
  <1>2. ~Me.single
    BY MyTraits DEF PollDue, PagesInv
  <1> QED BY <1>1, <1>2, BeginKeeps DEF PollDue, PagesInv

\* The event of the main view begins the load, or the view shows an error.
LEMMA RenderedKeeps ==
    ASSUME PagesInv, ViewRendered PROVE PagesInv'
  <1>1. /\ there /\ due /\ due' = FALSE
        /\ UNCHANGED <<page, picked, there, pollTimer, working>>
    BY DEF ViewRendered
  <1>2. Me.main /\ Me' = Me /\ "picked" \in Me.tests /\ ~Me.single
    BY <1>1, MyTraits DEF PagesInv, Me, Traits
  <1>3. CASE Begin(picked, Me.keeps)
    BY <1>1, <1>2, <1>3, BeginKeeps DEF PagesInv
  <1>4. CASE shown' = Failed /\ UNCHANGED <<token, loads>>
    <2>1. shown'.is # "data"
      BY <1>4, ShownIs
    <2>2. \A l \in loads' : CurrentFits(l)'
      BY <1>2, <2>1 DEF CurrentFits
    <2>3. ShownFitsSelection' /\ WorkIsFollowed'
      BY <2>1 DEF ShownFitsSelection, WorkIsFollowed
    <2> QED BY <1>1, <1>2, <1>4, <2>2, <2>3 DEF PagesInv
  <1> QED BY <1>3, <1>4 DEF ViewRendered

\* An answer that fails the page's tests is dropped: nothing on screen waited for it.
LEMMA DropKeeps ==
    ASSUME PagesInv, NEW l \in loads, loads' = loads \ {l},
           UNCHANGED <<page, picked, there, token, due, shown, pollTimer, working>>,
           NEW T, ~Passes(l, T), "view" \in T => Me.main
    PROVE  PagesInv'
  <1>1. Me' = Me /\ (page = "jobs" => Me.main = FALSE)
    BY MyTraits DEF PagesInv, Me
  <1>2. LoadsOK(loads', token')
    BY DEF PagesInv, LoadsOK
  <1>3. \A m \in loads' : CurrentFits(m)'
    BY <1>1 DEF PagesInv, CurrentFits
  <1>4. ShownFitsSelection' /\ WorkIsFollowed'
    <2>1. CASE l.token # token
      <3>1. Current => Current'
        BY <2>1 DEF Current
      <3> QED BY <3>1 DEF PagesInv, ShownFitsSelection, WorkIsFollowed
    <2>2. CASE l.token = token
      <3>1. shown.is # "data" \/ due
        BY <2>2, ShownIs DEF Passes, PagesInv, CurrentFits
      <3> QED BY <1>1, <3>1 DEF PagesInv, ShownFitsSelection, WorkIsFollowed
    <2> QED BY <2>1, <2>2
  <1> QED BY <1>1, <1>2, <1>3, <1>4 DEF PagesInv

\* An answer that is shown was the newest, or is for the selection.
LEMMA ShowKeeps ==
    ASSUME PagesInv, NEW l \in loads, loads' = loads \ {l}, Show(l),
           UNCHANGED <<page, picked, there, token, due, working>>
    PROVE  PagesInv'
  <1>1. Traits(Me) /\ Me' = Me
    BY MyTraits DEF PagesInv, Me
  <1>2. LoadsOK(loads', token')
    BY DEF PagesInv, LoadsOK
  <1>3. CASE ~Passes(l, Me.tests)
    <2>1. UNCHANGED <<shown, pollTimer>>
      BY <1>3 DEF Show
    <2>2. "view" \in Me.tests => Me.main
      BY <1>1 DEF Traits
    <2> QED BY <1>3, <2>1, <2>2, DropKeeps
  <1>4. CASE Passes(l, Me.tests)
    <2>1. /\ shown' = [is |-> "data", of |-> l.of, pending |-> working]
          /\ pollTimer' = IF page = "jobs" THEN working /\ there ELSE pollTimer
      BY <1>4 DEF Show
    <2>2. shown'.of = l.of /\ shown'.pending = working /\ shown'.is = "data"
      BY <2>1
    <2>3. l.of = picked \/ due
      <3>1. CASE "picked" \in Me.tests
        BY <1>4, <3>1 DEF Passes
      <3>2. CASE "picked" \notin Me.tests
        <4>1. l.token = token
          BY <1>1, <1>4, <3>2 DEF Traits, Passes
        <4> QED BY <3>2, <4>1 DEF PagesInv, CurrentFits
      <3> QED BY <3>1, <3>2
    <2>4. ShownFitsSelection'
      BY <2>2, <2>3 DEF ShownFitsSelection
    <2>5. WorkIsFollowed'
      BY <2>1, <2>2 DEF WorkIsFollowed
    <2>6. \A m \in loads' : m.token # token
      <3>1. CASE "token" \in Me.tests
        BY <1>4, <3>1 DEF PagesInv, LoadsOK, Passes
      <3>2. CASE "token" \notin Me.tests
        BY <1>1, <3>2 DEF PagesInv, Traits
      <3> QED BY <3>1, <3>2
    <2>7. \A m \in loads' : CurrentFits(m)'
      BY <2>6 DEF CurrentFits
    <2>8. ~(Me.main /\ ~there)
      BY <1>1, <1>4 DEF Traits, Passes
    <2>9. pollTimer' => page = "jobs"
      BY <2>1 DEF PagesInv
    <2> QED BY <1>1, <1>2, <2>4, <2>5, <2>7, <2>8, <2>9 DEF PagesInv
  <1> QED BY <1>3, <1>4

\* A failure shows an error, an empty answer, or nothing.
LEMMA FailKeeps ==
    ASSUME PagesInv, LoadFails PROVE PagesInv'
  <1>1. PICK l \in loads :
          /\ loads' = loads \ {l}
          /\ IF Me.falls THEN Show(l)
             ELSE /\ shown' = IF Passes(l, Me.errorTests) THEN Failed ELSE shown
                  /\ UNCHANGED pollTimer
    BY DEF LoadFails
  <1>2. UNCHANGED <<page, picked, there, token, due, working>>
    BY DEF LoadFails
  <1>3. Traits(Me) /\ Me' = Me
    BY <1>2, MyTraits DEF PagesInv, Me
  <1>4. CASE Me.falls
    BY <1>1, <1>2, <1>4, ShowKeeps
  <1>5. CASE ~Me.falls /\ ~Passes(l, Me.errorTests)
    <2>1. UNCHANGED <<shown, pollTimer>>
      BY <1>1, <1>5
    <2>2. "view" \in Me.errorTests => Me.main
      BY <1>3 DEF Traits
    <2> QED BY <1>1, <1>2, <1>5, <2>1, <2>2, DropKeeps
  <1>6. CASE ~Me.falls /\ Passes(l, Me.errorTests)
    <2>1. shown' = Failed /\ UNCHANGED pollTimer
      BY <1>1, <1>6
    <2>2. shown'.is # "data"
      BY <2>1, ShownIs
    <2>3. ~(Me.main /\ ~there)
      BY <1>3, <1>6 DEF Traits, Passes
    <2>4. LoadsOK(loads', token')
      BY <1>1, <1>2 DEF PagesInv, LoadsOK
    <2>5. \A m \in loads' : CurrentFits(m)'
      BY <1>1, <1>2, <1>3, <2>2 DEF PagesInv, CurrentFits
    <2>6. ShownFitsSelection' /\ WorkIsFollowed'
      BY <2>2 DEF ShownFitsSelection, WorkIsFollowed
    <2> QED BY <1>1, <1>2, <1>3, <2>1, <2>3, <2>4, <2>5, <2>6 DEF PagesInv
  <1> QED BY <1>4, <1>5, <1>6

\* An answer.
LEMMA AnswerKeeps ==
    ASSUME PagesInv, LoadAnswers PROVE PagesInv'
  BY ShowKeeps DEF LoadAnswers

\* A change of the selector, in the four ways the pages take it.
LEMMA PickKeeps ==
    ASSUME PagesInv, Pick PROVE PagesInv'
  <1>1. there /\ UNCHANGED <<page, there, pollTimer, working>>
    BY DEF Pick
  <1>2. /\ Traits(Me) /\ Me' = Me
        /\ page = "jobs" => Me.pick = "load" /\ Me.main = FALSE /\ ~Me.single
    BY <1>1, MyTraits DEF PagesInv, Me
  <1>3. CASE Me.pick = "load"
    <2>1. Begin(picked', Me.keeps) /\ due' = Me.main
      BY <1>3 DEF Pick
    <2>2. ~Me.single
      BY <1>2, <1>3 DEF Traits
    <2> QED BY <1>1, <2>1, <2>2, BeginKeeps DEF PagesInv
  <1>4. CASE Me.pick = "bump"
    <2>1. /\ token' = token + 1
          /\ loads' = IF Me.single THEN {} ELSE loads
          /\ shown' = IF Me.main THEN shown ELSE Nothing
          /\ due' = Me.main
      BY <1>4 DEF Pick
    <2>2. LoadsOK(loads', token')
      BY <2>1 DEF PagesInv, LoadsOK
    <2>3. \A l \in loads' : l.token # token'
      BY <2>1 DEF PagesInv, LoadsOK
    <2>4. \A l \in loads' : CurrentFits(l)'
      BY <2>3 DEF CurrentFits
    <2>5. ShownFitsSelection'
      BY <2>1, ShownIs DEF ShownFitsSelection
    <2>6. WorkIsFollowed'
      BY <1>1, <1>2, <1>4 DEF WorkIsFollowed
    <2>7. Me'.single => \A l, m \in loads' : l = m
      BY <1>2, <2>1
    <2> QED BY <1>1, <1>2, <2>1, <2>2, <2>4, <2>5, <2>6, <2>7 DEF PagesInv
  <1>5. CASE Me.pick = "clear"
    <2>1. shown' = Nothing /\ UNCHANGED <<token, loads, due>>
      BY <1>5 DEF Pick
    <2>2. shown'.is # "data" /\ "picked" \in Me'.tests
      BY <1>2, <1>5, <2>1, ShownIs DEF Traits
    <2>3. \A l \in loads' : CurrentFits(l)'
      BY <2>2 DEF CurrentFits
    <2>4. ShownFitsSelection' /\ WorkIsFollowed'
      BY <2>2 DEF ShownFitsSelection, WorkIsFollowed
    <2> QED BY <1>1, <1>2, <2>1, <2>3, <2>4 DEF PagesInv
  <1>6. CASE Me.pick = "event"
    <2>1. due' = TRUE /\ UNCHANGED <<token, loads, shown>>
      BY <1>6 DEF Pick
    <2>2. Me.main /\ page # "jobs"
      BY <1>2, <1>6 DEF Traits
    <2>3. \A l \in loads' : CurrentFits(l)'
      BY <2>1 DEF CurrentFits
    <2>4. ShownFitsSelection' /\ WorkIsFollowed'
      BY <1>1, <2>1, <2>2 DEF ShownFitsSelection, WorkIsFollowed
    <2> QED BY <1>1, <1>2, <2>1, <2>2, <2>3, <2>4 DEF PagesInv
  <1> QED BY <1>2, <1>3, <1>4, <1>5, <1>6 DEF Traits

\* Another view, or the tab hidden.
LEMMA LeaveKeeps ==
    ASSUME PagesInv, Leave PROVE PagesInv'
  <1>1. /\ there' = FALSE /\ pollTimer' = FALSE
        /\ UNCHANGED <<page, picked, working>>
    BY DEF Leave
  <1>2. Traits(Me) /\ Me' = Me
    BY <1>1, MyTraits DEF PagesInv, Me
  <1>3. IF Me.leave THEN token' = token + 1 /\ loads' = {} ELSE UNCHANGED <<token, loads>>
    BY DEF Leave
  <1>4. LoadsOK(loads', token')
    BY <1>3 DEF PagesInv, LoadsOK
  <1>5. Me'.single => \A l, m \in loads' : l = m
    BY <1>2, <1>3 DEF PagesInv
  <1>6. WorkIsFollowed'
    BY <1>1 DEF WorkIsFollowed
  <1>7. CASE Me.main
    <2>1. shown' = Nothing /\ due' = FALSE
      BY <1>7 DEF Leave
    <2>2. shown'.is # "data" /\ "picked" \in Me'.tests
      BY <1>2, <1>7, <2>1, ShownIs DEF Traits
    <2>3. (\A l \in loads' : CurrentFits(l)') /\ ShownFitsSelection'
      BY <2>2 DEF CurrentFits, ShownFitsSelection
    <2> QED BY <1>1, <1>2, <1>4, <1>5, <1>6, <2>1, <2>3 DEF PagesInv
  <1>8. CASE ~Me.main
    <2>1. UNCHANGED <<shown, due, token, loads>>
      BY <1>2, <1>3, <1>8 DEF Leave, Traits
    <2>2. \A l \in loads' : CurrentFits(l)'
      BY <1>1, <1>2, <2>1 DEF PagesInv, CurrentFits
    <2>3. ShownFitsSelection'
      BY <1>1, <2>1 DEF PagesInv, ShownFitsSelection, Current
    <2>4. due' = FALSE
      BY <1>8, <2>1 DEF PagesInv, Leave
    <2> QED BY <1>1, <1>2, <1>4, <1>5, <1>6, <1>8, <2>2, <2>3, <2>4 DEF PagesInv
  <1> QED BY <1>7, <1>8

\* The view or the tab comes back.
LEMMA ReturnKeeps ==
    ASSUME PagesInv, Return PROVE PagesInv'
  <1>1. /\ there' = TRUE /\ due' = Me.main
        /\ UNCHANGED <<page, picked, pollTimer, working>>
    BY DEF Return
  <1>2. /\ Me' = Me
        /\ page = "jobs" => ~Me.single
    BY <1>1, MyTraits DEF PagesInv, Me
  <1>3. CASE page = "jobs"
    <2>1. Begin(picked', TRUE)
      BY <1>1, <1>3 DEF Return
    <2> QED BY <1>1, <1>2, <1>3, <2>1, BeginKeeps DEF PagesInv
  <1>4. CASE page # "jobs"
    <2>1. UNCHANGED <<token, loads, shown>>
      BY <1>4 DEF Return
    <2>2. due => due'
      BY <1>1 DEF PagesInv
    <2>3. \A l \in loads' : CurrentFits(l)'
      BY <1>1, <1>2, <2>1, <2>2 DEF PagesInv, CurrentFits
    <2>4. ShownFitsSelection' /\ WorkIsFollowed'
      BY <1>1, <1>4, <2>1, <2>2 DEF PagesInv, ShownFitsSelection, WorkIsFollowed, Current
    <2> QED BY <1>1, <1>2, <1>4, <2>1, <2>3, <2>4 DEF PagesInv
  <1> QED BY <1>3, <1>4

\* What the invariant reads stays as it was.
LEMMA SamePageKeeps ==
    ASSUME PagesInv, UNCHANGED <<page, picked, there, token, due, loads, shown, pollTimer>>
    PROVE  PagesInv'
  BY DEF PagesInv, LoadsOK, CurrentFits, ShownFitsSelection, WorkIsFollowed, Current, Me

\* Every step of a page keeps the invariant.
LEMMA PagesStepOK == PagesInv /\ [PagesNext]_pagesVars => PagesInv'
  <1> SUFFICES ASSUME PagesInv, [PagesNext]_pagesVars PROVE PagesInv'
    OBVIOUS
  <1>1. CASE JobsEnd \/ UNCHANGED pagesVars
    BY <1>1, SamePageKeeps DEF JobsEnd, pagesVars
  <1> QED BY <1>1, AskKeeps, RenderedKeeps, AnswerKeeps, FailKeeps, PollKeeps, PickKeeps,
             LeaveKeeps, ReturnKeeps DEF PagesNext

\* The inductive invariant of the pages.
THEOREM PagesInvHolds == PagesSpec => []PagesInv
  BY PagesInitOK, PagesStepOK, PTL DEF PagesSpec

\* Late answers, failures, changes of selector, view and tab in any order: no page
\* shows one choice under another, and the jobs page follows its work (PagesSafe).
THEOREM PagesFollowTheSelector == PagesSpec => []PagesSafe
  <1>1. PagesInv => PagesSafe
    BY DEF PagesInv, PagesSafe
  <1> QED BY <1>1, PagesInvHolds, PTL

\* What is loaded is for a value of the selector.
ShownKinds == {"nothing", "loading", "failed", "data"}

PagesTypes ==
    /\ picked \in Options
    /\ {there, due, pollTimer, working} \subseteq BOOLEAN
    /\ token \in Nat
    /\ \A l \in loads : l.of \in Options /\ l.token \in 1..token
    /\ shown.is \in ShownKinds

LEMMA PagesTypesStart == PagesInit => PagesTypes
  <1> SUFFICES ASSUME PagesInit PROVE PagesTypes
    OBVIOUS
  <1>1. Me.main \in BOOLEAN
    BY PagesInitOK, MainIsBoolean DEF PagesInv
  <1> QED BY <1>1 DEF PagesInit, PagesTypes, Nothing, ShownKinds

LEMMA BeginTypes ==
    ASSUME PagesTypes, NEW choice \in Options, NEW keeps, Begin(choice, keeps)
    PROVE  /\ token' \in Nat /\ shown'.is \in ShownKinds
           /\ \A l \in loads' : l.of \in Options /\ l.token \in 1..token'
  <1> DEFINE new == [token |-> token + 1, of |-> choice]
  <1>1. token' = token + 1 /\ loads' \subseteq loads \cup {new}
    BY DEF Begin
  <1>2. new.token = token + 1 /\ new.of = choice
    OBVIOUS
  <1> HIDE DEF new
  <1>3. \A l \in loads' : l.of \in Options /\ l.token \in 1..token'
    BY <1>1, <1>2 DEF PagesTypes
  <1>4. shown'.is \in ShownKinds
    BY DEF Begin, PagesTypes, Loading, ShownKinds
  <1> QED BY <1>1, <1>3, <1>4 DEF PagesTypes

LEMMA ShowTypes ==
    ASSUME PagesTypes, NEW l \in loads, Show(l)
    PROVE  pollTimer' \in BOOLEAN /\ shown'.is \in ShownKinds
  BY DEF Show, PagesTypes, ShownKinds

LEMMA LoadEndsTypes ==
    ASSUME PagesTypes, NEW l \in loads, loads' = loads \ {l},
           UNCHANGED <<picked, there, token, due, working>>,
           pollTimer' \in BOOLEAN, shown'.is \in ShownKinds
    PROVE  PagesTypes'
  BY DEF PagesTypes

LEMMA PagesTypesKeep == PagesInv /\ PagesTypes /\ [PagesNext]_pagesVars => PagesTypes'
  <1> SUFFICES ASSUME PagesInv, PagesTypes, [PagesNext]_pagesVars PROVE PagesTypes'
    OBVIOUS
  <1>0. /\ Me.main \in BOOLEAN /\ picked \in Options
        /\ {Nothing.is, Failed.is} \subseteq ShownKinds
    BY MainIsBoolean DEF PagesInv, PagesTypes, Nothing, Failed, ShownKinds
  <1>1. CASE JobsEnd \/ UNCHANGED pagesVars
    BY <1>1 DEF JobsEnd, pagesVars, PagesTypes
  <1>2. CASE Ask \/ PollDue
    <2>1. (\E keeps : Begin(picked, keeps)) /\ UNCHANGED <<picked, there, due, working>>
          /\ pollTimer' \in BOOLEAN
      BY <1>2 DEF Ask, PollDue, PagesTypes
    <2> QED BY <1>0, <2>1, BeginTypes DEF PagesTypes
  <1>3. CASE ViewRendered
    <2>1. CASE Begin(picked, Me.keeps)
      BY <1>0, <1>3, <2>1, BeginTypes DEF ViewRendered, PagesTypes
    <2>2. CASE shown' = Failed /\ UNCHANGED <<token, loads>>
      BY <1>0, <1>3, <2>2 DEF ViewRendered, PagesTypes
    <2> QED BY <1>3, <2>1, <2>2 DEF ViewRendered
  <1>4. CASE LoadAnswers
    BY <1>4, ShowTypes, LoadEndsTypes DEF LoadAnswers
  <1>5. CASE LoadFails
    <2>1. PICK l \in loads :
            /\ loads' = loads \ {l}
            /\ \/ Show(l)
               \/ shown' \in {Failed, shown} /\ UNCHANGED pollTimer
      BY <1>5 DEF LoadFails
    <2>2. pollTimer' \in BOOLEAN /\ shown'.is \in ShownKinds
      BY <1>0, <2>1, ShowTypes DEF PagesTypes
    <2>3. UNCHANGED <<picked, there, token, due, working>>
      BY <1>5 DEF LoadFails
    <2> QED BY <2>1, <2>2, <2>3, LoadEndsTypes
  <1>6. CASE Pick
    <2>1. picked' \in Options /\ UNCHANGED <<there, pollTimer, working>>
      BY <1>6 DEF Pick
    <2>2. Me.pick \in {"load", "bump", "clear", "event"}
      BY MyTraits DEF PagesInv, Traits
    <2>3. CASE Me.pick = "load"
      <3>1. Begin(picked', Me.keeps) /\ due' = Me.main
        BY <1>6, <2>3 DEF Pick
      <3> QED BY <1>0, <2>1, <3>1, BeginTypes DEF PagesTypes
    <2>4. CASE Me.pick = "bump"
      <3>1. /\ token' = token + 1 /\ loads' \subseteq loads /\ due' = Me.main
            /\ shown' \in {shown, Nothing}
        BY <1>6, <2>4 DEF Pick
      <3>2. token' \in Nat /\ \A l \in loads' : l.of \in Options /\ l.token \in 1..token'
        BY <3>1 DEF PagesTypes
      <3> QED BY <1>0, <2>1, <3>1, <3>2 DEF PagesTypes
    <2>5. CASE Me.pick = "clear"
      <3>1. shown' = Nothing /\ UNCHANGED <<token, loads, due>>
        BY <1>6, <2>5 DEF Pick
      <3> QED BY <1>0, <2>1, <3>1 DEF PagesTypes
    <2>6. CASE Me.pick = "event"
      <3>1. due' = TRUE /\ UNCHANGED <<token, loads, shown>>
        BY <1>6, <2>6 DEF Pick
      <3> QED BY <2>1, <3>1 DEF PagesTypes
    <2> QED BY <2>2, <2>3, <2>4, <2>5, <2>6
  <1>7. CASE Leave
    <2>1. /\ token' \in {token, token + 1} /\ loads' \in {{}, loads}
          /\ shown' \in {Nothing, shown} /\ due' \in {FALSE, due}
          /\ there' = FALSE /\ pollTimer' = FALSE /\ UNCHANGED <<picked, working>>
      BY <1>7 DEF Leave
    <2>2. token' \in Nat /\ \A l \in loads' : l.of \in Options /\ l.token \in 1..token'
      BY <2>1 DEF PagesTypes
    <2> QED BY <1>0, <2>1, <2>2 DEF PagesTypes
  <1>8. CASE Return
    <2>1. there' = TRUE /\ due' = Me.main /\ UNCHANGED <<picked, pollTimer, working>>
      BY <1>8 DEF Return
    <2>2. CASE Begin(picked, TRUE)
      BY <1>0, <2>1, <2>2, BeginTypes DEF PagesTypes
    <2>3. CASE UNCHANGED <<token, loads, shown>>
      BY <1>0, <2>1, <2>3 DEF PagesTypes
    <2> QED BY <1>8, <2>2, <2>3 DEF Return
  <1> QED BY <1>1, <1>2, <1>3, <1>4, <1>5, <1>6, <1>7, <1>8 DEF PagesNext

LEMMA PagesAreTyped == PagesInv /\ PagesTypes => PagesTypeOK
  BY DEF PagesInv, PagesTypes, PagesTypeOK, ShownKinds

-----------------------------------------------------------------------------
(***************************************************************************)
(* The components of the run.  A step moves the component of the scene and *)
(* leaves the others where they were, so that what each module keeps of    *)
(* its own state is kept while it is the one that moves.                   *)
(***************************************************************************)

PlatformInv ==
    /\ scene = "notes" => NotesInv
    /\ scene = "caixa" => CaixaInv /\ MetricsOK(caixaMetrics)
    /\ scene = "server" => LimiterInv /\ HttpTypes
    /\ scene = "form" => WebInv /\ WebTypes
    /\ scene = "pages" => PagesInv /\ PagesTypes

LEMMA PlatformStarts == PlatformInit => PlatformInv
BY NotesStart, CaixaStarts, MetricsStart, LimiterStarts, HttpTypesStart, WebInitOK, WebTypesStart,
   PagesInitOK, PagesTypesStart DEF PlatformInit, PlatformInv

LEMMA PlatformKeeps == PlatformInv /\ [PlatformNext]_PlatformVars => PlatformInv'
<1> SUFFICES ASSUME PlatformInv, [PlatformNext]_PlatformVars PROVE PlatformInv'
  OBVIOUS
<1>1. scene' = scene
  BY DEF PlatformNext, InNotes, InCaixa, InServer, InForm, InPages, PlatformVars
<1>2. CASE scene = "notes"
  <2>1. [NotesNext]_noteVars
    BY <1>2 DEF PlatformNext, InNotes, InCaixa, InServer, InForm, InPages, PlatformVars
  <2> QED BY <1>1, <1>2, <2>1, NotesKeep DEF PlatformInv
<1>3. CASE scene = "caixa"
  <2>1. [CaixaNext]_caixaVars
    BY <1>3 DEF PlatformNext, InNotes, InCaixa, InServer, InForm, InPages, PlatformVars
  <2> QED BY <1>1, <1>3, <2>1, CaixaKeeps, MetricsKeep DEF PlatformInv
<1>4. CASE scene = "server"
  <2>1. [HttpNext]_httpVars
    BY <1>4 DEF PlatformNext, InNotes, InCaixa, InServer, InForm, InPages, PlatformVars
  <2> QED BY <1>1, <1>4, <2>1, LimiterKeeps, HttpTypesKeep DEF PlatformInv
<1>5. CASE scene = "form"
  <2>1. [WebNext]_webVars
    BY <1>5 DEF PlatformNext, InNotes, InCaixa, InServer, InForm, InPages, PlatformVars
  <2> QED BY <1>1, <1>5, <2>1, WebStepOK, WebTypesKeep DEF PlatformInv
<1>6. CASE scene = "pages"
  <2>1. [PagesNext]_pagesVars
    BY <1>6 DEF PlatformNext, InNotes, InCaixa, InServer, InForm, InPages, PlatformVars
  <2> QED BY <1>1, <1>6, <2>1, PagesStepOK, PagesTypesKeep DEF PlatformInv
<1>7. CASE scene \notin {"notes", "caixa", "server", "form", "pages"}
  BY <1>1, <1>7 DEF PlatformInv
<1> QED BY <1>2, <1>3, <1>4, <1>5, <1>6, <1>7

\* The notifications, the client of CAIXA, the server, the form and the pages keep
\* the shapes of their state, for every value of the constants: an unread notification
\* tells something of a bet that is there, the timer of a call is armed with no more
\* than the budget, an answer is counted in one class at most, and the revision of the
\* form is never ahead of its changes (notificationRepository.ts, caixaHttpClient.ts,
\* httpMetrics.ts, generationV2.ts).
THEOREM PlatformIsTyped == PlatformSpec => []PlatformTypeOK
<1>1. PlatformInv => PlatformTypeOK
  BY NotesAreTyped, CaixaIsTyped, HttpIsTyped, WebIsTyped, PagesAreTyped
     DEF PlatformInv, PlatformTypeOK
<1> QED BY <1>1, PlatformStarts, PlatformKeeps, PTL DEF PlatformSpec
=============================================================================
