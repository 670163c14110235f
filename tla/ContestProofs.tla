---------------------------- MODULE ContestProofs ----------------------------
(***************************************************************************)
(* Proofs about what is stored of contests and what is computed from it.   *)
(* PrizeTables: what a stored prize table never loses, and that the total  *)
(* reported for a game is the one it is owed.  ContestData: what the       *)
(* stores never forget, and that a reconciliation with the second source   *)
(* adds up.  ContestHistory: that a signature stands for all a result      *)
(* depends on, that the parts of a lab agree, and that what is cut or      *)
(* counted twice from a history is the same.                               *)
(***************************************************************************)
EXTENDS PrizeTables, ContestData, ContestFile, ContestHistory, FiniteSetTheorems, SequenceTheorems, TLAPS

\* StoredTable keeps the old table or takes the new one, whole.
LEMMA StoredIsEither ==
    ASSUME NEW l, NEW old, NEW new
    PROVE  StoredTable(l, old, new) \in {old, new}
BY DEF StoredTable

\* A complete table is kept or replaced by a complete one.
LEMMA StoredStaysComplete ==
    ASSUME NEW l, NEW old, NEW new, Complete(l, old)
    PROVE  Complete(l, StoredTable(l, old, new))
BY DEF StoredTable

LEMMA TypeStarts == Init => TypeOK
BY DEF Init, TypeOK, Months

LEMMA TypeKeeps == TypeOK /\ [Upsert]_vars => TypeOK'
<1> SUFFICES ASSUME TypeOK, [Upsert]_vars PROVE TypeOK'
  OBVIOUS
<1>1. CASE Upsert
  <2>1. lottery' = lottery
    BY <1>1 DEF Upsert
  <2>2. table' \in Snapshots(lottery)
    BY <1>1, StoredIsEither DEF Upsert, TypeOK
  <2>3. month' \in BOOLEAN
    BY <1>1 DEF Upsert, TypeOK, Months
  <2>4. QED
    BY <2>1, <2>2, <2>3 DEF TypeOK
<1>2. CASE UNCHANGED vars
  BY <1>2 DEF vars, TypeOK
<1>3. QED
  BY <1>1, <1>2

\* Every state holds one of the tables CAIXA may publish (upsertMany() replaces
\* the rows of a contest in one transaction).
THEOREM TypeCorrect == Spec => []TypeOK
BY TypeStarts, TypeKeeps, PTL DEF Spec

\* No later snapshot takes a tier of a complete payout table away (the guard
\* of upsertMany() on hasCompletePrizeSchedule()).
THEOREM NoDowngrade == Spec => NeverDowngraded
<1>1. [Upsert]_vars => [Complete(lottery, table) => Complete(lottery, table')]_vars
  BY StoredStaysComplete DEF Upsert
<1>2. QED
  BY <1>1, PTL DEF Spec, NeverDowngraded

-----------------------------------------------------------------------------
(* The tiers a game is paid from                                           *)

\* resolvePrizeValue() looks up no tier hasCompletePrizeSchedule() does not
\* ask for: the paid tiers of a draw are in the schedule.
LEMMA PaidIsScheduled ==
    ASSUME NEW l \in Supported, NEW r \in Results(l), NEW s \in BOOLEAN
    PROVE  PaidTiers(l, r.hits, r.clovers, s, 1) \subseteq Schedule(l)
<1>1. CASE l = "mega-sena"
  BY <1>1 DEF Results, PaidTiers, NumberPrizeExpected, Schedule, HitTiers
<1>2. CASE l = "lotofacil"
  BY <1>2 DEF Results, PaidTiers, NumberPrizeExpected, Schedule, HitTiers
<1>3. CASE l = "dia-de-sorte"
  BY <1>3 DEF Results, PaidTiers, NumberPrizeExpected, Schedule, HitTiers
<1>4. CASE l = "quina"
  BY <1>4 DEF Results, PaidTiers, NumberPrizeExpected, Schedule, HitTiers
<1>5. CASE l = "lotomania"
  BY <1>5 DEF Results, PaidTiers, NumberPrizeExpected, Schedule, HitTiers
<1>6. CASE l = "dupla-sena"
  BY <1>6 DEF Results, PaidTiers, NumberPrizeExpected, Schedule
<1>7. CASE l = "mais-milionaria"
  <2>1. r.hits \in 0..6 /\ r.clovers \in 0..2
    BY <1>7 DEF Results
  <2>2. TierIndex(r.hits, r.clovers) \in 0..10
    BY <2>1 DEF TierIndex
  <2>3. ~NumberPrizeExpected(l, r.hits)
    BY <1>7 DEF NumberPrizeExpected
  <2>4. Schedule(l) = {Faixa(i) : i \in 1..10}
    BY <1>7 DEF Schedule
  <2>5. QED
    BY <1>7, <2>2, <2>3, <2>4 DEF PaidTiers
<1>8. CASE l = "timemania"
  BY <1>8 DEF Results, PaidTiers, NumberPrizeExpected, Schedule, HitTiers
<1>9. CASE l = "super-sete"
  BY <1>9 DEF Results, PaidTiers, NumberPrizeExpected, Schedule, HitTiers
<1>10. QED
  BY <1>1, <1>2, <1>3, <1>4, <1>5, <1>6, <1>7, <1>8, <1>9 DEF Supported

\* The same of the second draw of dupla-sena.
LEMMA SecondIsScheduled ==
    ASSUME NEW r \in Results("dupla-sena")
    PROVE  PaidTiers("dupla-sena", r.hits2, 0, FALSE, 2) \subseteq Schedule("dupla-sena")
<1>1. r.hits2 \in 0..6
  BY DEF Results
<1>2. QED
  BY <1>1 DEF PaidTiers, NumberPrizeExpected, Schedule

\* Every bet on a contest with a complete table is settled financially
\* (hasCompletePrizeSchedule() against resolvePrizeValue()).
THEOREM CompleteSettles == Spec => []CompleteIsEnough
<1>1. TypeOK => CompleteIsEnough
  <2> SUFFICES ASSUME TypeOK, Complete(lottery, table), NEW r \in Results(lottery)
               PROVE  TotalPrizeValue(lottery, table, r) # Unknown
    BY DEF CompleteIsEnough
  <2> DEFINE one == PaidTiers(lottery, r.hits, r.clovers, SeenSide(lottery, r), 1)
             two == PaidTiers(lottery, r.hits2, 0, FALSE, 2)
  <2>1. lottery \in Supported
    BY LotteriesAssumption DEF TypeOK
  <2>2. r.side \in BOOLEAN
    BY DEF Results
  <2>3. SeenSide(lottery, r) \in BOOLEAN
    BY <2>2 DEF SeenSide, TypeOK
  <2>4. one \subseteq Schedule(lottery)
    BY ONLY <2>1, <2>3, r \in Results(lottery), PaidIsScheduled DEF one
  <2>5. lottery = "dupla-sena" => two \subseteq Schedule(lottery)
    BY SecondIsScheduled DEF two
  <2>6. Resolve(table, one) = {Addends(table, one)}
    BY <2>4 DEF Resolve, Complete
  <2>7. lottery = "dupla-sena" => Resolve(table, two) = {Addends(table, two)}
    BY <2>5 DEF Resolve, Complete
  <2> DEFINE first == Resolve(table, one)
             later == IF lottery = "dupla-sena" THEN Resolve(table, two) ELSE {{}}
             both  == {a \cup b : a \in first, b \in later}
  <2>total. TotalPrizeValue(lottery, table, r) = IF both # Unknown THEN both ELSE first
    BY DEF TotalPrizeValue
  <2> HIDE DEF one, two, both
  <2>8. TotalPrizeValue(lottery, table, r) # {}
    BY <2>total, <2>6 DEF Unknown
  <2>9. QED
    BY <2>8 DEF Unknown
<1>2. QED
  BY <1>1, TypeCorrect, PTL

\* The two readings of the rules agree: resolvePrizeValue() pays from exactly
\* the tiers evaluateGame() names.
LEMMA PaidIsNamed ==
    ASSUME NEW l \in Supported, l # "dupla-sena", NEW r \in Results(l)
    PROVE  PaidTiers(l, r.hits, r.clovers, r.side, 1) = NamedTiers(l, r)
<1>1. CASE l = "mais-milionaria"
  <2>1. r.hits \in 0..6 /\ r.clovers \in 0..2
    BY <1>1 DEF Results
  <2>2. ~NumberPrizeExpected(l, r.hits)
    BY <1>1 DEF NumberPrizeExpected
  <2>3. PaidTiers(l, r.hits, r.clovers, r.side, 1)
          = IF TierIndex(r.hits, r.clovers) # 0
            THEN {Faixa(TierIndex(r.hits, r.clovers))} ELSE {}
    BY <1>1, <2>2 DEF PaidTiers
  <2>4. MaisMilionariaPrizeTier(r.hits, r.clovers)
          = IF TierIndex(r.hits, r.clovers) # 0
            THEN {Faixa(TierIndex(r.hits, r.clovers))} ELSE {}
    <3>1. CASE r.hits \in 0..1
      BY <3>1 DEF MaisMilionariaPrizeTier, TierIndex
    <3>2. CASE r.hits = 2
      BY <2>1, <3>2 DEF MaisMilionariaPrizeTier, TierIndex
    <3>3. CASE r.hits = 3
      BY <2>1, <3>3 DEF MaisMilionariaPrizeTier, TierIndex
    <3>4. CASE r.hits = 4
      BY <2>1, <3>4 DEF MaisMilionariaPrizeTier, TierIndex
    <3>5. CASE r.hits = 5
      BY <2>1, <3>5 DEF MaisMilionariaPrizeTier, TierIndex
    <3>6. CASE r.hits = 6
      BY <2>1, <3>6 DEF MaisMilionariaPrizeTier, TierIndex
    <3>7. QED
      BY <2>1, <3>1, <3>2, <3>3, <3>4, <3>5, <3>6
  <2>5. QED
    BY <1>1, <2>3, <2>4 DEF NamedTiers
<1>2. CASE l # "mais-milionaria"
  <2>1. PrizeTierFor(l, r.hits, 1) =
          IF NumberPrizeExpected(l, r.hits) THEN {Hits(r.hits, 1)} ELSE {}
    BY <1>2 DEF Results, NumberPrizeExpected, PrizeTierFor, Supported
  <2>2. QED
    BY <1>2, <2>1 DEF PaidTiers, NamedTiers
<1>3. QED
  BY <1>1, <1>2

\* Missing data is never zero outside dupla-sena and while the month of every
\* stored Dia de Sorte contest is known: a reported total is made of exactly
\* the tiers evaluateGame() names, all of them stored, and with a whole table it
\* is reported.
THEOREM OwedTotal ==
    ASSUME "dupla-sena" \notin Lotteries, MonthIsLate = FALSE
    PROVE  Spec => []SettlesWhatIsOwed
<1>1. Init => month = TRUE
  BY DEF Init, Months
<1>2. month = TRUE /\ [Upsert]_vars => (month = TRUE)'
  BY DEF Upsert, vars, Months
<1>3. TypeOK /\ month = TRUE => TotalIsOwed
  <2> SUFFICES ASSUME TypeOK, month = TRUE, NEW r \in Results(lottery),
                      NEW total \in TotalPrizeValue(lottery, table, r)
               PROVE  /\ NamedTiers(lottery, r) \subseteq DOMAIN table
                      /\ total = Addends(table, NamedTiers(lottery, r))
    BY DEF TotalIsOwed
  <2> DEFINE named == NamedTiers(lottery, r)
  <2>1. lottery \in Supported /\ lottery # "dupla-sena"
    BY LotteriesAssumption DEF TypeOK
  <2>2. r.side \in BOOLEAN
    BY DEF Results
  <2>3. SeenSide(lottery, r) = r.side
    BY <2>2 DEF SeenSide
  <2>4. PaidTiers(lottery, r.hits, r.clovers, SeenSide(lottery, r), 1) = named
    BY <2>1, <2>3, PaidIsNamed
  <2> HIDE DEF named
  <2> DEFINE first == Resolve(table, named)
             both  == {a \cup b : a \in first, b \in {{}}}
  <2>total. TotalPrizeValue(lottery, table, r) = IF both # Unknown THEN both ELSE first
    <3> DEFINE paid == PaidTiers(lottery, r.hits, r.clovers, SeenSide(lottery, r), 1)
               one  == Resolve(table, paid)
               two  == IF lottery = "dupla-sena"
                       THEN Resolve(table, PaidTiers(lottery, r.hits2, 0, FALSE, 2))
                       ELSE {{}}
               sum  == {a \cup b : a \in one, b \in two}
    <3>1. TotalPrizeValue(lottery, table, r) = IF sum # Unknown THEN sum ELSE one
      BY DEF TotalPrizeValue
    <3>2. one = first
      BY <2>4
    <3>3. two = {{}}
      BY <2>1
    <3> HIDE DEF paid, one, two, first
    <3>4. QED
      BY <3>1, <3>2, <3>3
  <2>both. both = first
    <3> HIDE DEF first
    <3> QED
      OBVIOUS
  <2>5. total \in Resolve(table, named)
    BY <2>total, <2>both
  <2>6. named \subseteq DOMAIN table /\ total = Addends(table, named)
    BY <2>5 DEF Resolve, Unknown
  <2>7. QED
    BY <2>6 DEF named
<1>4. QED
  BY <1>1, <1>2, <1>3, TypeCorrect, CompleteSettles, PTL DEF Spec, SettlesWhatIsOwed

-----------------------------------------------------------------------------
(* ContestData: a listing names each contest once, and a report leaves it  *)

\* What a reconciliation holds at each of its awaits: distinct contests still to
\* be compared, none of them reported, and nothing reported before the answer of
\* the second source is in.
CheckOk ==
    /\ check = [stage |-> check.stage, todo |-> check.todo, latest |-> check.latest,
                items |-> check.items, counts |-> check.counts]
    /\ check.todo \in Seq(Nat \X Nat)
    /\ \A i, j \in DOMAIN check.todo : check.todo[i][1] = check.todo[j][1] => i = j
    /\ IsFiniteSet(check.items)
    /\ check.counts \in [1..5 -> Nat]
    /\ check.stage = "latest" => check.items = {} /\ check.counts = <<0, 0, 0, 0, 0>>
    /\ ReconcileAddsUp

\* The rows of the database are of contests that were drawn, and only a lottery
\* that has a part of its own has stored one.
StoresOk ==
    /\ kind \in Numeric \cup WithPart
    /\ official \in Seq(Nat)
    /\ DOMAIN contestRows \subseteq DOMAIN official
    /\ \A n \in DOMAIN contestRows : IsRow(contestRows[n])
    /\ \A n \in DOMAIN products : products[n].part => kind \in WithPart

DataInv == StoresOk /\ CheckOk

StatusesAre ==
    /\ DOMAIN Statuses = 1..5
    /\ \A s, t \in 1..5 : Statuses[s] = Statuses[t] => s = t
    /\ \A s \in 1..5 : /\ Statuses[s] = "content-divergence" <=> s = 4
                       /\ Statuses[s] = "consistent" <=> s = 1
                       /\ Statuses[s] = "contest-missing" <=> s = 3

\* The places of the statuses of a report in their order.
LEMMA StatusesFacts == StatusesAre
<1>1. /\ Statuses[1] = "consistent" /\ Statuses[2] = "secondary-stale"
      /\ Statuses[3] = "contest-missing" /\ Statuses[4] = "content-divergence"
      /\ Statuses[5] = "source-unavailable" /\ DOMAIN Statuses = 1..5
    BY DEF Statuses
<1>2. \A s \in 1..5 : s = 1 \/ s = 2 \/ s = 3 \/ s = 4 \/ s = 5
    OBVIOUS
<1> QED
    BY <1>1, <1>2 DEF StatusesAre

\* The newest-first listing of a finite set of contests names each of them once:
\* every rank from the first to the last is the rank of one contest.
LEMMA DescendingIsOneToOne ==
    ASSUME NEW S \in SUBSET Nat, IsFiniteSet(S)
    PROVE  LET d == Descending(S) IN
           /\ Cardinality(S) \in Nat
           /\ d \in Seq(S) /\ Len(d) = Cardinality(S)
           /\ \A i, j \in DOMAIN d : d[i] = d[j] => i = j
<1> DEFINE rank == [n \in S |-> Cardinality({m \in S : m >= n})]
           N == Cardinality(S)
           From(n) == {m \in S : m >= n}
           d == Descending(S)
<1>1. N \in Nat
    BY FS_CardinalityType
<1>2. ASSUME NEW n \in S
      PROVE  /\ IsFiniteSet(From(n)) /\ Cardinality(From(n)) \in 1..N
             /\ rank[n] = Cardinality(From(n))
    <2>1. From(n) \in SUBSET S /\ n \in From(n)
        OBVIOUS
    <2>2. IsFiniteSet(From(n)) /\ Cardinality(From(n)) <= N
        BY <2>1, FS_Subset
    <2>3. Cardinality(From(n)) \in Nat
        BY <2>2, FS_CardinalityType
    <2>4. Cardinality(From(n)) # 0
        BY <2>1, <2>2, FS_EmptySet
    <2> QED
        BY <1>1, <2>2, <2>3, <2>4
<1>3. ASSUME NEW a \in S, NEW b \in S, rank[a] = rank[b], a < b
      PROVE  FALSE
    <2>. /\ a \in Nat /\ b \in Nat /\ a < b
         /\ \A m \in S : m \in Nat
        BY <1>3
    <2>1. From(b) \subseteq From(a) /\ a \in From(a) /\ a \notin From(b)
        <3>1. ASSUME NEW m \in From(b)
              PROVE  m \in From(a)
            <4>1. m \in S /\ m >= b
                BY <3>1
            <4>2. m \in Nat
                BY <4>1
            <4> QED
                BY <4>1, <4>2
        <3>2. a >= a /\ ~(a >= b)
            OBVIOUS
        <3>3. a \in From(a) /\ a \notin From(b)
            BY <3>2
        <3>4. From(b) \subseteq From(a)
            BY <3>1
        <3> QED
            BY <3>3, <3>4
    <2>2. Cardinality(From(a)) = Cardinality(From(b)) => From(a) = From(b)
        BY <1>2, <2>1, FS_Subset
    <2>3. Cardinality(From(a)) = Cardinality(From(b))
        BY <1>2, <1>3
    <2> HIDE DEF From
    <2> QED
        BY <2>1, <2>2, <2>3
<1>4. \A a, b \in S : rank[a] = rank[b] => a = b
    <2>1. \A a, b \in S : a = b \/ a < b \/ b < a
        OBVIOUS
    <2> QED
        BY <1>3, <2>1
<1>5. rank \in [S -> 1..N]
    BY <1>2
<1>6. rank \in Injection(S, 1..N)
    <2> HIDE DEF rank, N
    <2> QED
        BY <1>4, <1>5 DEF Injection, IsInjective
<1>7. IsFiniteSet(1..N) /\ Cardinality(1..N) = N
    BY <1>1, FS_Interval
<1>8. rank \in Surjection(S, 1..N)
    <2> HIDE DEF rank
    <2> QED
        BY <1>6, <1>7, FS_Injection
<1>9. \A i \in 1..N : \E n \in S : rank[n] = i
    <2> HIDE DEF rank
    <2> QED
        BY <1>8 DEF Surjection
<1>10. \A i \in 1..N : d[i] \in S /\ rank[d[i]] = i
    <2> TAKE i \in 1..N
    <2>1. d[i] = CHOOSE n \in S : Cardinality({m \in S : m >= n}) = i
        BY DEF Descending
    <2>2. \E n \in S : Cardinality({m \in S : m >= n}) = i
        BY <1>9
    <2>3. d[i] \in S /\ Cardinality({m \in S : m >= d[i]}) = i
        BY <2>1, <2>2
    <2> QED
        BY <2>3
<1>11. DOMAIN d = 1..N
    BY DEF Descending
<1> HIDE DEF rank, From
<1>12. \A i, j \in DOMAIN d : d[i] = d[j] => i = j
    BY <1>10, <1>11
<1>13. d = [i \in 1..N |-> d[i]]
    BY DEF Descending
<1>14. d \in Seq(S) /\ Len(d) = N
    <2> HIDE DEF d, N
    <2> QED
        BY <1>1, <1>10, <1>13
<1> QED
    BY <1>1, <1>12, <1>14

\* Nothing is stored, asked or reported at first.
LEMMA DataInitHolds == DataInit => DataInv
<1> SUFFICES ASSUME DataInit PROVE DataInv
    OBVIOUS
<1>1. StoresOk
    BY DataAssumption DEF DataAssumption, DataInit, StoresOk
<1>2. CheckOk
    <2>1. check = [stage |-> "none", todo |-> <<>>, latest |-> 0, items |-> {},
                   counts |-> <<0, 0, 0, 0, 0>>]
        BY DEF DataInit, NoCheck
    <2>2. ReconcileAddsUp
        <3>1. \A s \in DOMAIN Statuses : check.counts[s] = 0
            BY <2>1, StatusesFacts DEF StatusesAre
        <3>2. \A s \in DOMAIN Statuses : {i \in check.items : i.status = Statuses[s]} = {}
            BY <2>1
        <3> QED
            BY <2>1, <3>1, <3>2, FS_EmptySet DEF ReconcileAddsUp
    <2>3. IsFiniteSet(check.items)
        BY <2>1, FS_EmptySet
    <2> QED
        BY <2>1, <2>2, <2>3 DEF CheckOk
<1> QED
    BY <1>1, <1>2 DEF DataInv

\* A check that has just begun, or is over, has reported nothing.
LEMMA NothingReported ==
    ASSUME check'.items = {}, check'.counts = <<0, 0, 0, 0, 0>>
    PROVE  ReconcileAddsUp'
<1>1. \A s \in DOMAIN Statuses : check'.counts[s] = 0
    BY StatusesFacts DEF StatusesAre
<1>2. \A s \in DOMAIN Statuses : {i \in check'.items : i.status = Statuses[s]} = {}
    OBVIOUS
<1>3. Cardinality({}) = 0
    BY FS_EmptySet
<1> QED
    BY <1>1, <1>2, <1>3 DEF ReconcileAddsUp

\* The first n numbers are n.
LEMMA FirstNumbers ==
    ASSUME NEW n \in Nat
    PROVE  IsFiniteSet(1..n) /\ Cardinality(1..n) = n
<1>1. n \in Int /\ 1 \in Int
    OBVIOUS
<1>2. IsFiniteSet(1..n) /\ Cardinality(1..n) = IF 1 > n THEN 0 ELSE n - 1 + 1
    BY <1>1, FS_Interval
<1> QED
    BY <1>2

\* Counting one more leaves a row of counts.
LEMMA OneMoreCounted ==
    ASSUME NEW counts \in [1..5 -> Nat], NEW s \in 1..5
    PROVE  [counts EXCEPT ![s] = @ + 1] \in [1..5 -> Nat]
OBVIOUS

\* Pairs made of the members of a list are a list of pairs.
LEMMA PairsOfList ==
    ASSUME NEW T \in SUBSET Nat, NEW list \in Seq(T), NEW f \in [T -> Nat]
    PROVE  [i \in DOMAIN list |-> <<list[i], f[list[i]]>>] \in Seq(Nat \X Nat)
<1>1. DOMAIN list = 1..Len(list) /\ Len(list) \in Nat
    OBVIOUS
<1>2. \A i \in DOMAIN list : list[i] \in T
    OBVIOUS
<1>3. \A i \in DOMAIN list : <<list[i], f[list[i]]>> \in Nat \X Nat
    BY <1>2
<1> QED
    BY <1>1, <1>3

\* One more contest is reported and leaves the list.
LEMMA ReportAddsUp ==
    ASSUME CheckOk, check.stage = "compare", check.todo # <<>>,
           NEW s \in 1..5, NEW seen, Report(s, seen),
           s = 4 => seen # Head(check.todo)[2],
           s = 1 => seen = Head(check.todo)[2],
           s \in {1, 3, 4} => Head(check.todo)[1] <= check.latest
    PROVE  CheckOk'
<1> DEFINE new == Item(Head(check.todo), s, seen)
           Of(items, t) == {i \in items : i.status = Statuses[t]}
<1>1. /\ check.todo \in Seq(Nat \X Nat) /\ Len(check.todo) \in Nat \ {0}
      /\ Head(check.todo) = check.todo[1]
      /\ Tail(check.todo) \in Seq(Nat \X Nat)
      /\ DOMAIN Tail(check.todo) = 1..(Len(check.todo) - 1)
      /\ \A k \in DOMAIN Tail(check.todo) :
            k + 1 \in DOMAIN check.todo /\ Tail(check.todo)[k] = check.todo[k + 1]
    BY SMTT(30) DEF CheckOk
<1>2. /\ check'.stage = "compare" /\ check'.latest = check.latest
      /\ check'.todo = Tail(check.todo)
      /\ check'.items = check.items \cup {new}
      /\ check'.counts = [check.counts EXCEPT ![s] = @ + 1]
      /\ check' = [stage |-> check'.stage, todo |-> check'.todo, latest |-> check'.latest,
                   items |-> check'.items, counts |-> check'.counts]
    <2>1. check = [stage |-> check.stage, todo |-> check.todo, latest |-> check.latest,
                   items |-> check.items, counts |-> check.counts]
        BY DEF CheckOk
    <2>2. DOMAIN check = {"stage", "todo", "latest", "items", "counts"}
        BY <2>1
    <2>3. check' = [check EXCEPT !.todo = Tail(check.todo),
                        !.counts = [check.counts EXCEPT ![s] = check.counts[s] + 1],
                        !.items = check.items \cup {Item(Head(check.todo), s, seen)}]
        BY DEF Report
    <2>4. check' = [stage |-> "compare", todo |-> Tail(check.todo), latest |-> check.latest,
                    items |-> check.items \cup {new},
                    counts |-> [check.counts EXCEPT ![s] = check.counts[s] + 1]]
        <3> HIDE DEF new
        <3> DEFINE counts == [check.counts EXCEPT ![s] = check.counts[s] + 1]
                   todo == Tail(check.todo)
                   items == check.items \cup {new}
        <3>1. check' = [check EXCEPT !.todo = todo, !.counts = counts, !.items = items]
            BY <2>3 DEF new
        <3> HIDE DEF counts, todo, items
        <3>2. check' = [stage |-> check.stage, todo |-> todo, latest |-> check.latest,
                        items |-> items, counts |-> counts]
            BY <2>1, <3>1
        <3> QED
            BY <3>2 DEF counts, todo, items
    <2> QED
        BY <2>4
<1>3. /\ new.contest = check.todo[1][1] /\ new.status = Statuses[s]
      /\ new.draw = Head(check.todo)[2] /\ new.seen = seen
    BY <1>1 DEF Item
<1> HIDE DEF new
<1>4. \A i \in check.items : i.contest # new.contest
    BY <1>1, <1>3, SMTT(30) DEF CheckOk, ReconcileAddsUp
<1>5. new \notin check.items
    BY <1>4
<1>6. ASSUME NEW t \in 1..5
      PROVE  check'.counts[t] = Cardinality(Of(check'.items, t))
    <2>1. IsFiniteSet(Of(check.items, t)) /\ check.counts[t] = Cardinality(Of(check.items, t))
        <3>1. Of(check.items, t) \in SUBSET check.items
            OBVIOUS
        <3>2. IsFiniteSet(Of(check.items, t))
            BY <3>1, FS_Subset DEF CheckOk
        <3> QED
            BY <3>2, StatusesFacts DEF CheckOk, ReconcileAddsUp, StatusesAre
    <2>2. CASE t = s
        <3>1. Of(check'.items, t) = Of(check.items, t) \cup {new} /\ new \notin Of(check.items, t)
            BY <1>2, <1>3, <1>5, <2>2
        <3>2. Cardinality(Of(check'.items, t)) = Cardinality(Of(check.items, t)) + 1
            BY <2>1, <3>1, FS_AddElement
        <3> HIDE DEF Of
        <3> QED
            BY <1>2, <2>1, <2>2, <3>2 DEF CheckOk
    <2>3. CASE t # s
        <3>1. Of(check'.items, t) = Of(check.items, t)
            BY <1>2, <1>3, <2>3, StatusesFacts DEF StatusesAre
        <3> HIDE DEF Of
        <3> QED
            BY <1>2, <2>1, <2>3, <3>1 DEF CheckOk
    <2> QED
        BY <2>2, <2>3
<1>7. \A i, j \in check'.items : i.contest = j.contest => i = j
    BY <1>2, <1>4 DEF CheckOk, ReconcileAddsUp
<1>8. ASSUME NEW i \in check'.items, NEW k \in DOMAIN check'.todo
      PROVE  check'.todo[k][1] # i.contest
    <2>1. k + 1 \in DOMAIN check.todo /\ check'.todo[k] = check.todo[k + 1]
        BY <1>1, <1>2
    <2>2. k + 1 # 1
        BY <1>1, <1>2
    <2>3. CASE i = new
        <3>1. 1 \in DOMAIN check.todo /\ i.contest = check.todo[1][1]
            BY <1>1, <1>3, <2>3
        <3> QED
            BY <2>1, <2>2, <3>1 DEF CheckOk
    <2>4. CASE i \in check.items
        BY <2>1, <2>4 DEF CheckOk, ReconcileAddsUp
    <2> QED
        BY <1>2, <2>3, <2>4
<1>9. ASSUME NEW i \in check'.items
      PROVE  /\ i.status = "content-divergence" => i.seen # i.draw
             /\ i.status = "consistent" => i.seen = i.draw
             /\ i.status \in {"consistent", "contest-missing", "content-divergence"}
                   => i.contest <= check'.latest
    <2>1. CASE i = new
        BY <1>1, <1>2, <1>3, <2>1, StatusesFacts, SMTT(30) DEF StatusesAre
    <2>2. CASE i \in check.items
        BY <1>2, <2>2 DEF CheckOk, ReconcileAddsUp
    <2> QED
        BY <1>2, <2>1, <2>2
<1>10. ReconcileAddsUp'
    BY <1>6, <1>7, <1>8, <1>9, StatusesFacts DEF ReconcileAddsUp, StatusesAre
<1>11. \A i, j \in DOMAIN check'.todo : check'.todo[i][1] = check'.todo[j][1] => i = j
    BY <1>1, <1>2, SMTT(30) DEF CheckOk
<1>12. IsFiniteSet(check'.items)
    <2>1. IsFiniteSet(check.items)
        BY DEF CheckOk
    <2> QED
        BY <1>2, <2>1, FS_AddElement
<1>13. check'.counts \in [1..5 -> Nat]
    <2> DEFINE counts == check.counts
               more == check'.counts
    <2>1. counts \in [1..5 -> Nat] /\ more = [counts EXCEPT ![s] = @ + 1]
        BY <1>2 DEF CheckOk
    <2> HIDE DEF counts, more
    <2>2. more \in [1..5 -> Nat]
        BY <2>1, OneMoreCounted
    <2> QED
        BY <2>2 DEF more
<1> QED
    BY <1>1, <1>2, <1>10, <1>11, <1>12, <1>13 DEF CheckOk

\* A reconciliation begins with the contests it has read, each once.
LEMMA StartCheckOk ==
    ASSUME DataInv, StartCheck
    PROVE  CheckOk'
<1> DEFINE S == NewestOf(DOMAIN contestRows, CompareLimit)
           listed == Descending(S)
<1>1. DOMAIN contestRows \in SUBSET Nat /\ IsFiniteSet(DOMAIN contestRows)
    <2>1. DOMAIN official = 1..Len(official) /\ Len(official) \in Nat
        BY DEF DataInv, StoresOk
    <2>2. IsFiniteSet(DOMAIN official)
        BY <2>1, FS_Interval
    <2> QED
        BY <2>1, <2>2, FS_Subset DEF DataInv, StoresOk
<1>2. S \in SUBSET (DOMAIN contestRows)
    BY DEF NewestOf
<1>3. S \in SUBSET Nat /\ IsFiniteSet(S)
    BY <1>1, <1>2, FS_Subset
<1>4. /\ listed \in Seq(S)
      /\ \A i, j \in DOMAIN listed : listed[i] = listed[j] => i = j
    BY <1>3, DescendingIsOneToOne
<1>5. /\ check'.stage = "latest" /\ check'.items = {} /\ check'.counts = <<0, 0, 0, 0, 0>>
      /\ check'.todo = [i \in DOMAIN listed |-> <<listed[i], contestRows[listed[i]].draw>>]
      /\ check' = [stage |-> check'.stage, todo |-> check'.todo, latest |-> check'.latest,
                   items |-> check'.items, counts |-> check'.counts]
    BY DEF StartCheck, NoCheck
<1> HIDE DEF listed
<1>6. \A i \in DOMAIN listed : listed[i] \in Nat /\ contestRows[listed[i]].draw \in Nat
    BY <1>2, <1>3, <1>4 DEF DataInv, StoresOk, IsRow
<1>7. check'.todo \in Seq(Nat \X Nat)
    <2> DEFINE drawn == [n \in S |-> contestRows[n].draw]
    <2>1. drawn \in [S -> Nat]
        BY <1>2 DEF DataInv, StoresOk, IsRow
    <2>2. \A i \in DOMAIN listed : listed[i] \in S
        BY <1>4
    <2>3. check'.todo = [i \in DOMAIN listed |-> <<listed[i], drawn[listed[i]]>>]
        BY <1>5, <2>2
    <2> DEFINE todo == check'.todo
    <2> HIDE DEF drawn, S
    <2>4. todo = [i \in DOMAIN listed |-> <<listed[i], drawn[listed[i]]>>]
        BY <2>3
    <2> HIDE DEF todo
    <2>5. todo \in Seq(Nat \X Nat)
        BY <1>3, <1>4, <2>1, <2>4, PairsOfList
    <2> QED
        BY <2>5 DEF todo
<1>8. \A i, j \in DOMAIN check'.todo : check'.todo[i][1] = check'.todo[j][1] => i = j
    BY <1>4, <1>5
<1>9. ReconcileAddsUp' /\ IsFiniteSet(check'.items)
    BY <1>5, NothingReported, FS_EmptySet
<1>10. check'.counts \in [1..5 -> Nat]
    BY <1>5
<1> QED
    BY <1>5, <1>7, <1>8, <1>9, <1>10 DEF CheckOk

\* Without its source, a reconciliation reports each of its contests as such.
LEMMA UnavailableAddsUp ==
    ASSUME CheckOk, check.stage = "latest", ReportUnavailable
    PROVE  CheckOk'
<1> DEFINE T == check.todo
           new == [i \in DOMAIN T |-> Item(T[i], 5, 0)]
           items == {Item(T[i], 5, 0) : i \in DOMAIN T}
           counts == [check.counts EXCEPT ![5] = Len(T)]
           Of(t) == {i \in items : i.status = Statuses[t]}
<1>1. /\ T \in Seq(Nat \X Nat) /\ Len(T) \in Nat /\ DOMAIN T = 1..Len(T)
      /\ \A i, j \in DOMAIN T : T[i][1] = T[j][1] => i = j
    BY DEF CheckOk
<1>2. check' = [stage |-> "done", todo |-> <<>>, latest |-> check.latest,
                items |-> items, counts |-> counts]
    <2>1. check = [stage |-> check.stage, todo |-> check.todo, latest |-> check.latest,
                   items |-> check.items, counts |-> check.counts]
        BY DEF CheckOk
    <2>2. check' = [check EXCEPT !.stage = "done", !.todo = <<>>, !.items = items, !.counts = counts]
        BY DEF ReportUnavailable
    <2> HIDE DEF items, counts
    <2> QED
        BY <2>1, <2>2
<1>3. /\ counts \in [1..5 -> Nat] /\ counts[5] = Len(T)
      /\ \A t \in 1..4 : counts[t] = 0
    <2>1. check.counts = <<0, 0, 0, 0, 0>>
        BY DEF CheckOk
    <2> QED
        BY <1>1, <2>1
<1>4. \A i \in DOMAIN T : /\ new[i].contest = T[i][1] /\ new[i].draw = T[i][2]
                          /\ new[i].seen = 0 /\ new[i].status = Statuses[5]
    BY DEF Item
<1>5. items = {new[i] : i \in DOMAIN T}
    OBVIOUS
<1> HIDE DEF T, new, items, counts
<1>6. \A i \in items : i.status = Statuses[5]
    BY <1>4, <1>5
<1>7. \A i, j \in items : i.contest = j.contest => i = j
    <2> TAKE i, j \in items
    <2>1. PICK k \in DOMAIN T : i = new[k]
        BY <1>5
    <2>2. PICK l \in DOMAIN T : j = new[l]
        BY <1>5
    <2>3. i.contest = j.contest => k = l
        BY <1>1, <1>4, <2>1, <2>2
    <2> QED
        BY <2>1, <2>2, <2>3
<1>8. \A i, j \in DOMAIN T : new[i] = new[j] => i = j
    <2> SUFFICES ASSUME NEW i \in DOMAIN T, NEW j \in DOMAIN T, new[i] = new[j]
                 PROVE  i = j
        OBVIOUS
    <2>1. new[i].contest = T[i][1] /\ new[j].contest = T[j][1]
        BY <1>4
    <2> QED
        BY <1>1, <2>1
<1>9. DOMAIN new = DOMAIN T
    BY DEF new
<1>10. new \in Bijection(DOMAIN T, items)
    <2>1. new \in [DOMAIN T -> items]
        BY <1>5, <1>9 DEF new
    <2>2. new \in Injection(DOMAIN T, items)
        BY <1>8, <2>1 DEF Injection, IsInjective
    <2>3. new \in Surjection(DOMAIN T, items)
        BY <1>5, <2>1 DEF Surjection
    <2> QED
        BY <2>2, <2>3 DEF Bijection
<1>11. IsFiniteSet(items) /\ Cardinality(items) = Len(T)
    <2>1. IsFiniteSet(1..Len(T)) /\ Cardinality(1..Len(T)) = Len(T)
        BY <1>1, FirstNumbers
    <2>2. ExistsBijection(1..Len(T), items)
        BY <1>1, <1>10 DEF ExistsBijection
    <2> QED
        BY <2>1, <2>2, FS_Bijection
<1>12. ASSUME NEW t \in 1..5
       PROVE  counts[t] = Cardinality(Of(t))
    <2>1. CASE t = 5
        <3>1. Of(t) = items
            BY <1>6, <2>1
        <3> QED
            BY <1>3, <1>11, <2>1, <3>1
    <2>2. CASE t \in 1..4
        <3>1. Of(t) = {}
            BY <1>6, <2>2, StatusesFacts DEF StatusesAre
        <3> QED
            BY <1>3, <2>2, <3>1, FS_EmptySet
    <2> QED
        BY <2>1, <2>2
<1>13. ReconcileAddsUp'
    <2>1. check'.items = items /\ check'.counts = counts /\ check'.todo = <<>>
        BY <1>2
    <2>2. \A s \in DOMAIN Statuses :
             check'.counts[s] = Cardinality({i \in check'.items : i.status = Statuses[s]})
        BY <1>12, <2>1, StatusesFacts DEF StatusesAre
    <2>3. \A i \in items : i.status \notin {"consistent", "contest-missing", "content-divergence"}
        <3>1. Statuses[5] \notin {"consistent", "contest-missing", "content-divergence"}
            BY DEF Statuses
        <3> QED
            BY <1>6, <3>1
    <2>4. \A k \in DOMAIN check'.todo : FALSE
        BY <2>1
    <2>5. \A i, j \in check'.items : i.contest = j.contest => i = j
        BY <1>7, <2>1
    <2>6. \A i \in check'.items : i.status \notin {"consistent", "contest-missing", "content-divergence"}
        BY <2>1, <2>3
    <2> QED
        BY <2>2, <2>4, <2>5, <2>6 DEF ReconcileAddsUp
<1>14. /\ check'.stage = "done" /\ check'.todo = <<>> /\ check'.items = items
       /\ check'.counts = counts
       /\ check' = [stage |-> check'.stage, todo |-> check'.todo, latest |-> check'.latest,
                    items |-> check'.items, counts |-> check'.counts]
    BY <1>2
<1>15. <<>> \in Seq(Nat \X Nat) /\ DOMAIN <<>> = {}
    OBVIOUS
<1>16. \A i, j \in DOMAIN check'.todo : check'.todo[i][1] = check'.todo[j][1] => i = j
    BY <1>14, <1>15
<1> QED
    BY <1>3, <1>11, <1>13, <1>14, <1>15, <1>16 DEF CheckOk

\* A reconciliation stays true to what it read, whatever is stored meanwhile.
LEMMA CheckStepOk ==
    ASSUME DataInv, DataNext
    PROVE  CheckOk'
<1>1. CASE UNCHANGED check
    BY <1>1 DEF DataInv, CheckOk, ReconcileAddsUp
<1>2. CASE StartCheck
    BY <1>2, StartCheckOk
<1>3. CASE AskLatest
    <2>1. CASE check' = [check EXCEPT !.stage = "compare", !.latest = Max(DOMAIN second)]
        <3>1. check.items = {} /\ check.counts = <<0, 0, 0, 0, 0>>
            BY <1>3 DEF AskLatest, DataInv, CheckOk
        <3>2. /\ check'.stage = "compare" /\ check'.todo = check.todo
              /\ check'.items = check.items /\ check'.counts = check.counts
              /\ check' = [stage |-> check'.stage, todo |-> check'.todo, latest |-> check'.latest,
                           items |-> check'.items, counts |-> check'.counts]
            BY <2>1 DEF DataInv, CheckOk
        <3>3. ReconcileAddsUp'
            BY <3>1, <3>2, NothingReported
        <3> QED
            BY <3>2, <3>3 DEF DataInv, CheckOk
    <2>2. CASE ReportUnavailable
        BY <1>3, <2>2, UnavailableAddsUp DEF AskLatest, DataInv
    <2> QED
        BY <1>3, <2>1, <2>2 DEF AskLatest
<1>4. CASE CompareNext
    <2> DEFINE n == Head(check.todo)[1]
    <2>1. CheckOk /\ check.stage = "compare" /\ check.todo # <<>>
        BY <1>4 DEF CompareNext, DataInv
    <2>2. CASE Report(2, 0)
        BY <2>1, <2>2, ReportAddsUp
    <2>3. CASE Report(5, 0)
        BY <2>1, <2>3, ReportAddsUp
    <2>4. CASE Reached(n) /\ Report(3, 0)
        BY <2>1, <2>4, ReportAddsUp DEF Reached
    <2>5. CASE Reached(n) /\ second[n] = Head(check.todo)[2] /\ Report(1, second[n])
        BY <2>1, <2>5, ReportAddsUp DEF Reached
    <2>6. CASE Reached(n) /\ second[n] # Head(check.todo)[2] /\ Report(4, second[n])
        BY <2>1, <2>6, ReportAddsUp DEF Reached
    <2> QED
        BY <1>4, <2>2, <2>3, <2>4, <2>5, <2>6 DEF CompareNext
<1>5. CASE EndCheck
    <2>1. /\ check'.stage = "done" /\ check'.todo = check.todo /\ check'.latest = check.latest
          /\ check'.items = check.items /\ check'.counts = check.counts
          /\ check' = [stage |-> check'.stage, todo |-> check'.todo, latest |-> check'.latest,
                       items |-> check'.items, counts |-> check'.counts]
        BY <1>5 DEF EndCheck, DataInv, CheckOk
    <2>2. ReconcileAddsUp'
        BY <2>1 DEF DataInv, CheckOk, ReconcileAddsUp
    <2> QED
        BY <2>1, <2>2 DEF DataInv, CheckOk
<1>6. CASE ForgetCheck
    <2>1. check' = [stage |-> "none", todo |-> <<>>, latest |-> 0, items |-> {},
                    counts |-> <<0, 0, 0, 0, 0>>]
        BY <1>6 DEF ForgetCheck, NoCheck
    <2>2. ReconcileAddsUp' /\ IsFiniteSet(check'.items)
        BY <2>1, NothingReported, FS_EmptySet
    <2>3. check'.counts \in [1..5 -> Nat]
        BY <2>1
    <2> QED
        BY <2>1, <2>2, <2>3 DEF CheckOk
<1> QED
    BY <1>1, <1>2, <1>3, <1>4, <1>5, <1>6
    DEF DataNext, SyncContest, SyncProduct, Draw, Correct, Copy

\* No step forgets a contest, a part or an amount.
LEMMA StoresStepOk ==
    ASSUME DataInv, DataNext
    PROVE  /\ StoresOk'
           /\ Keeps(contestRows', contestRows)
           /\ Keeps(products', products)
<1> USE DEF DataInv, StoresOk, Keeps, Richer
<1>1. CASE UNCHANGED <<kind, official, contestRows, products>>
    BY <1>1 DEF IsRow
<1>2. CASE SyncContest
    <2>1. PICK n \in DOMAIN official :
             \E p \in Payloads(n) : ContestAccepts(p) /\ contestRows' = Coalesce(contestRows, p)
        BY <1>2 DEF SyncContest
    <2>2. PICK p \in Payloads(n) : contestRows' = Coalesce(contestRows, p)
        BY <2>1
    <2>3. p.contest = n /\ p.draw = official[n] /\ p.part \in BOOLEAN /\ p.amount \in BOOLEAN
        BY DEF Payloads
    <2>4. official[n] \in Nat
        OBVIOUS
    <2>5. DOMAIN contestRows' = DOMAIN contestRows \cup {n}
        BY <2>2, <2>3 DEF Coalesce
    <2>6. ASSUME NEW m \in DOMAIN contestRows'
          PROVE  /\ IsRow(contestRows'[m])
                 /\ m \in DOMAIN contestRows => Richer(contestRows'[m], contestRows[m])
        <3>1. CASE m # n
            BY <2>2, <2>3, <2>5, <2>6, <3>1 DEF Coalesce
        <3>2. CASE m = n /\ m \notin DOMAIN contestRows
            BY <2>2, <2>3, <2>4, <2>5, <3>2 DEF Coalesce, RowOf, IsRow
        <3>3. CASE m = n /\ m \in DOMAIN contestRows
            BY <2>2, <2>3, <2>4, <2>5, <3>3 DEF Coalesce, RowOf, IsRow
        <3> QED
            BY <3>1, <3>2, <3>3
    <2> QED
        BY <1>2, <2>5, <2>6 DEF SyncContest
<1>3. CASE SyncProduct
    <2> DEFINE top == Max(DOMAIN official)
    <2>1. PICK p \in Payloads(top) : ProductAccepts(p) /\ products' = CoalesceAmount(products, p)
        BY <1>3 DEF SyncProduct
    <2> HIDE DEF top
    <2>2. p.part \in BOOLEAN /\ p.amount \in BOOLEAN
        BY DEF Payloads
    <2>3. DOMAIN products' = DOMAIN products \cup {p.contest}
        BY <2>1 DEF CoalesceAmount, Coalesce
    <2>4. \A m \in DOMAIN products' : m # p.contest => products'[m] = products[m]
        BY <2>1, <2>3 DEF CoalesceAmount, Coalesce
    <2>5. /\ products'[p.contest].part = RowOf(p).part
          /\ p.contest \in DOMAIN products => products'[p.contest].amount = (p.amount \/ products[p.contest].amount)
        <3>1. CASE p.contest \in DOMAIN products
            BY <2>1, <3>1 DEF CoalesceAmount, Coalesce
        <3>2. CASE p.contest \notin DOMAIN products
            BY <2>1, <3>2 DEF CoalesceAmount, Coalesce, RowOf
        <3> QED
            BY <3>1, <3>2
    <2>6. RowOf(p).part => kind \in WithPart
        BY DEF RowOf
    <2>7. kind \in WithPart => RowOf(p).part
        BY <2>1, <2>2 DEF RowOf, ProductAccepts, WithPart, Numeric
    <2>8. \A m \in DOMAIN products' : products'[m].part => kind \in WithPart
        BY <2>3, <2>4, <2>5, <2>6
    <2>9. \A m \in DOMAIN products : Richer(products'[m], products[m])
        BY <2>3, <2>4, <2>5, <2>7
    <2> QED
        BY <1>3, <2>3, <2>8, <2>9 DEF SyncProduct, IsRow
<1>7. CASE Draw
    <2>1. official' \in Seq(Nat) /\ DOMAIN official \subseteq DOMAIN official'
        BY <1>7 DEF Draw
    <2> QED
        BY <1>7, <2>1 DEF Draw, IsRow
<1>8. CASE Correct
    <2>1. PICK n \in DOMAIN official : official' = [official EXCEPT ![n] = @ + 1]
        BY <1>8 DEF Correct
    <2>2. official' \in Seq(Nat) /\ DOMAIN official' = DOMAIN official
        BY <2>1
    <2> QED
        BY <1>8, <2>2 DEF Correct, IsRow
<1> QED
    BY <1>1, <1>2, <1>3, <1>7, <1>8
    DEF DataNext, StartCheck, AskLatest, CompareNext, EndCheck, ForgetCheck, Copy

\* The two, for every step.
LEMMA DataStepHolds == DataInv /\ [DataNext]_dataVars => DataInv'
<1> SUFFICES ASSUME DataInv, [DataNext]_dataVars PROVE DataInv'
    OBVIOUS
<1>1. CASE DataNext
    BY <1>1, CheckStepOk, StoresStepOk DEF DataInv
<1>2. CASE UNCHANGED dataVars
    BY <1>2 DEF DataInv, StoresOk, CheckOk, ReconcileAddsUp, IsRow, dataVars
<1> QED
    BY <1>1, <1>2

\* The invariant holds in every state.
THEOREM DataInvHolds == DataSpec => []DataInv
BY DataInitHolds, DataStepHolds, PTL DEF DataSpec

\* What the database learnt of the contests stays, whatever a later payload lacks, and a
\* reconciliation reports every contest it read once and truly, whatever is
\* synchronized or published while it asks.
THEOREM ContestDataIsSafe == DataSpec => DataSafe
<1>1. DataInv /\ [DataNext]_dataVars =>
         [Keeps(contestRows', contestRows) /\ Keeps(products', products)]_dataVars
    BY StoresStepOk
<1>2. DataInv => ReconcileAddsUp
    BY DEF DataInv, CheckOk
<1>3. DataSpec => NothingForgotten
    BY <1>1, DataInvHolds, PTL DEF DataSpec, NothingForgotten
<1>4. DataSpec => []ReconcileAddsUp
    BY <1>2, DataInvHolds, PTL
<1> QED
    BY <1>3, <1>4 DEF DataSafe

-----------------------------------------------------------------------------
(* ContestHistory: the rows of a history are its contests by rank         *)

\* The rank of a number within a set.
UpTo(S, n) == {m \in S : m <= n}
Rank(S, n) == Cardinality(UpTo(S, n))

\* A rank is a number from 1 to the size of the set.
LEMMA RankType ==
    ASSUME NEW S \in SUBSET Nat, IsFiniteSet(S), NEW n \in Nat
    PROVE  /\ IsFiniteSet(UpTo(S, n)) /\ Rank(S, n) \in 0..Cardinality(S)
           /\ Cardinality(S) \in Nat
           /\ n \in S => Rank(S, n) \in 1..Cardinality(S)
<1>1. UpTo(S, n) \in SUBSET S /\ (n \in S => n \in UpTo(S, n))
    BY DEF UpTo
<1>2. /\ IsFiniteSet(UpTo(S, n))
      /\ Cardinality(UpTo(S, n)) <= Cardinality(S)
    BY <1>1, FS_Subset
<1>3. Cardinality(UpTo(S, n)) \in Nat /\ Cardinality(S) \in Nat
    BY <1>2, FS_CardinalityType
<1>4. n \in S => Cardinality(UpTo(S, n)) # 0
    BY <1>1, <1>2, FS_EmptySet
<1> QED
    BY <1>2, <1>3, <1>4 DEF Rank

\* A larger element has a larger rank.
LEMMA RankGrows ==
    ASSUME NEW S \in SUBSET Nat, IsFiniteSet(S), NEW a \in Nat, NEW b \in S, a < b
    PROVE  Rank(S, a) < Rank(S, b)
<1>1. UpTo(S, a) \subseteq UpTo(S, b) /\ b \in UpTo(S, b) /\ b \notin UpTo(S, a)
    <2>1. ASSUME NEW m \in UpTo(S, a)
          PROVE  m \in UpTo(S, b)
        <3>1. m \in S /\ m \in Nat /\ m <= a
            BY DEF UpTo
        <3> QED
            BY <3>1 DEF UpTo
    <2>2. b \in Nat /\ b <= b /\ ~(b <= a)
        OBVIOUS
    <2>3. b \in UpTo(S, b) /\ b \notin UpTo(S, a)
        BY <2>2 DEF UpTo
    <2> QED
        BY <2>1, <2>3
<1>2. /\ IsFiniteSet(UpTo(S, a)) /\ IsFiniteSet(UpTo(S, b))
      /\ Rank(S, a) \in Nat /\ Rank(S, b) \in Nat
    BY RankType
<1>3. /\ Cardinality(UpTo(S, a)) <= Cardinality(UpTo(S, b))
      /\ Cardinality(UpTo(S, b)) = Cardinality(UpTo(S, a)) => UpTo(S, b) = UpTo(S, a)
    BY <1>1, <1>2, FS_Subset
<1> QED
    BY <1>1, <1>2, <1>3 DEF Rank

\* Two members of a set have two ranks.
LEMMA RankIsOneToOne ==
    ASSUME NEW S \in SUBSET Nat, IsFiniteSet(S), NEW a \in S, NEW b \in S,
           Rank(S, a) = Rank(S, b)
    PROVE  a = b
<1>1. a \in Nat /\ b \in Nat /\ Rank(S, a) \in Nat /\ Rank(S, b) \in Nat
    BY RankType
<1>2. a = b \/ a < b \/ b < a
    BY <1>1
<1>3. CASE a < b
    BY <1>1, <1>3, RankGrows
<1>4. CASE b < a
    BY <1>1, <1>4, RankGrows
<1> QED
    BY <1>2, <1>3, <1>4

\* Every rank is somebody's: the ranks of the elements are as many as they are.
LEMMA RankIsOnto ==
    ASSUME NEW S \in SUBSET Nat, IsFiniteSet(S), NEW i \in 1..Cardinality(S)
    PROVE  \E n \in S : Rank(S, n) = i
<1> DEFINE N == Cardinality(S)
           rank == [n \in S |-> Rank(S, n)]
<1>1. N \in Nat
    BY FS_CardinalityType
<1>2. rank \in [S -> 1..N]
    BY RankType
<1>3. \A a, b \in S : rank[a] = rank[b] => a = b
    BY RankIsOneToOne
<1>4. IsFiniteSet(1..N) /\ Cardinality(1..N) = N
    BY <1>1, FS_Interval
<1>5. \A n \in S : rank[n] = Rank(S, n)
    OBVIOUS
<1> HIDE DEF rank, N
<1>6. rank \in Injection(S, 1..N)
    BY <1>2, <1>3 DEF Injection, IsInjective
<1>7. rank \in Surjection(S, 1..N)
    BY <1>4, <1>6, FS_Injection DEF N
<1>8. \A k \in 1..N : \E n \in S : rank[n] = k
    BY <1>7 DEF Surjection
<1> QED
    BY <1>5, <1>8 DEF N

\* A set in its order: each member once, at its rank.
LEMMA AscendingOrder ==
    ASSUME NEW S \in SUBSET Nat, IsFiniteSet(S)
    PROVE  LET s == Ascending(S) IN
           /\ Cardinality(S) \in Nat /\ DOMAIN s = 1..Cardinality(S)
           /\ s \in Seq(S) /\ Len(s) = Cardinality(S)
           /\ \A i \in 1..Cardinality(S) : s[i] \in S /\ s[i] \in Nat /\ Rank(S, s[i]) = i
           /\ \A n \in S : Rank(S, n) \in 1..Cardinality(S) /\ s[Rank(S, n)] = n
<1> DEFINE N == Cardinality(S)
           s == Ascending(S)
<1>1. N \in Nat
    BY FS_CardinalityType
<1>2. ASSUME NEW i \in 1..N
      PROVE  s[i] \in S /\ s[i] \in Nat /\ Rank(S, s[i]) = i
    <2>1. s[i] = CHOOSE n \in S : Cardinality({m \in S : m <= n}) = i
        BY DEF Ascending
    <2>2. \E n \in S : Cardinality({m \in S : m <= n}) = i
        BY RankIsOnto DEF Rank, UpTo
    <2>3. s[i] \in S /\ Cardinality({m \in S : m <= s[i]}) = i
        BY <2>1, <2>2
    <2> QED
        BY <2>3 DEF Rank, UpTo
<1>3. DOMAIN s = 1..N /\ s = [i \in 1..N |-> s[i]]
    BY SMTT(30) DEF Ascending
<1> HIDE DEF s, N
<1>4. s \in Seq(S) /\ Len(s) = N
    BY <1>1, <1>2, <1>3
<1>5. ASSUME NEW n \in S
      PROVE  Rank(S, n) \in 1..N /\ s[Rank(S, n)] = n
    <2>1. Rank(S, n) \in 1..N
        BY RankType DEF N
    <2>2. s[Rank(S, n)] \in S /\ Rank(S, s[Rank(S, n)]) = Rank(S, n)
        BY <1>2, <2>1
    <2>3. s[Rank(S, n)] = n
        <3> DEFINE x == s[Rank(S, n)]
        <3>1. x \in S /\ Rank(S, x) = Rank(S, n)
            BY <2>2
        <3> HIDE DEF x
        <3>2. x = n
            BY <3>1, RankIsOneToOne
        <3> QED
            BY <3>2 DEF x
    <2> QED
        BY <2>1, <2>3
<1> QED
    BY <1>1, <1>2, <1>3, <1>4, <1>5 DEF s, N

\* The members of a set in its order grow.
LEMMA AscendingGrows ==
    ASSUME NEW S \in SUBSET Nat, IsFiniteSet(S),
           NEW i \in 1..Cardinality(S), NEW j \in 1..Cardinality(S), i < j
    PROVE  Ascending(S)[i] < Ascending(S)[j]
<1> DEFINE a == Ascending(S)[i]
           b == Ascending(S)[j]
<1>1. /\ a \in S /\ a \in Nat /\ Rank(S, a) = i
      /\ b \in S /\ b \in Nat /\ Rank(S, b) = j
    BY AscendingOrder
<1> HIDE DEF a, b
<1>2. i \in Nat /\ j \in Nat /\ ~(j < i) /\ i # j
    BY FS_CardinalityType
<1>3. b < a => Rank(S, b) < Rank(S, a)
    BY <1>1, RankGrows
<1>4. a < b
    BY <1>1, <1>2, <1>3
<1> QED
    BY <1>4 DEF a, b

\* A set of naturals that is not empty and finite has a least element.
LEMMA LeastElement ==
    ASSUME NEW S \in SUBSET Nat, IsFiniteSet(S), S # {}
    PROVE  \E n \in S : \A m \in S : n <= m
<1>1. Cardinality(S) \in Nat /\ Cardinality(S) # 0
    BY FS_CardinalityType, FS_EmptySet
<1>2. PICK n \in S : Rank(S, n) = 1
    BY <1>1, RankIsOnto
<1>3. ASSUME NEW m \in S, m < n
      PROVE  FALSE
    <2>1. m \in Nat /\ n \in Nat
        OBVIOUS
    <2>2. Rank(S, m) < Rank(S, n) /\ Rank(S, m) \in 1..Cardinality(S)
        BY <1>3, <2>1, RankGrows, RankType
    <2> QED
        BY <1>1, <1>2, <2>2
<1>4. \A m \in S : n \in Nat /\ m \in Nat
    OBVIOUS
<1>5. \A m \in S : n <= m
    BY <1>3, <1>4
<1> QED
    BY <1>5

\* Induction up to n, of what a set holds.
LEMMA UpToByInduction ==
    ASSUME NEW n \in Nat, NEW S, 0 \in S, \A k \in 0..(n - 1) : k \in S => k + 1 \in S
    PROVE  \A k \in 0..n : k \in S
<1> DEFINE X == {k \in 0..n : k \notin S}
<1>1. SUFFICES ASSUME X # {} PROVE FALSE
    OBVIOUS
<1>2. X \in SUBSET Nat /\ IsFiniteSet(X)
    <2>1. IsFiniteSet(0..n) /\ X \in SUBSET (0..n)
        BY FS_Interval
    <2> QED
        BY <2>1, FS_Subset
<1>3. PICK k \in X : \A m \in X : k <= m
    <2> HIDE DEF X
    <2> QED
        BY <1>1, <1>2, LeastElement
<1>4. k \in 0..n /\ k \notin S
    OBVIOUS
<1>5. k # 0 /\ k - 1 \in 0..(n - 1)
    BY <1>4
<1>6. k - 1 \in S
    <2>1. k - 1 \in 0..n
        BY <1>5
    <2>2. k - 1 \notin X
        BY <1>3, <1>4, <1>5
    <2> QED
        BY <2>1, <2>2
<1>7. (k - 1) + 1 \in S
    BY <1>5, <1>6
<1> QED
    BY <1>4, <1>7

\* The steps of D from a base.
Stepping(u, n, D, base, step) ==
    /\ u \in [0..n -> D]
    /\ u[0] = base
    /\ \A k \in 1..n : u[k] = step[k][u[k - 1]]
StepsOf(n, D) == [1..n -> [D -> D]]

\* A function defined on 0..n from its value before exists.
LEMMA StepsExist ==
    ASSUME NEW n \in Nat, NEW D, NEW base \in D, NEW step \in StepsOf(n, D)
    PROVE  \E u : Stepping(u, n, D, base, step)
<1> USE DEF StepsOf
<1> DEFINE Is(u, j) == u[0] = base /\ \A k \in 1..j : u[k] = step[k][u[k - 1]]
           S == {j \in 0..n : \E u \in [0..j -> D] : Is(u, j)}
<1>1. 0 \in S
    <2> DEFINE w == [k \in 0..0 |-> base]
    <2>1. w \in [0..0 -> D] /\ Is(w, 0) /\ 0 \in 0..n
        OBVIOUS
    <2> HIDE DEF w, Is
    <2> QED
        BY <2>1
<1>2. ASSUME NEW j \in 0..(n - 1), j \in S
      PROVE  j + 1 \in S
    <2>1. PICK u \in [0..j -> D] : Is(u, j)
        BY <1>2
    <2> DEFINE v == [k \in 0..(j + 1) |-> IF k = j + 1 THEN step[j + 1][u[j]] ELSE u[k]]
    <2>2. j + 1 \in 1..n /\ j \in 0..j
        OBVIOUS
    <2>3. u[j] \in D /\ step[j + 1] \in [D -> D]
        BY <2>2
    <2>4. step[j + 1][u[j]] \in D
        BY <2>3
    <2>5. v \in [0..(j + 1) -> D]
        BY <2>4
    <2>6. v[0] = base
        BY <2>1
    <2>7. ASSUME NEW k \in 1..(j + 1)
          PROVE  v[k] = step[k][v[k - 1]]
        <3>1. CASE k = j + 1
            BY <3>1
        <3>2. CASE k # j + 1
            BY <2>1, <3>2
        <3> QED
            BY <3>1, <3>2
    <2> HIDE DEF v
    <2>8. Is(v, j + 1)
        BY <2>6, <2>7
    <2> HIDE DEF Is
    <2> QED
        BY <2>2, <2>5, <2>8
<1> HIDE DEF S
<1>3. n \in S
    <2>1. \A k \in 0..n : k \in S
        BY <1>1, <1>2, UpToByInduction
    <2> QED
        BY <2>1
<1> QED
    BY <1>3 DEF S, Stepping

\* What holds of the first value and passes from each to the next holds of all.
LEMMA StepsHold ==
    ASSUME NEW n \in Nat, NEW u, NEW D, u[0] \in D,
           \A k \in 1..n : u[k - 1] \in D => u[k] \in D
    PROVE  \A k \in 0..n : u[k] \in D
<1> DEFINE S == {k \in 0..n : u[k] \in D}
<1>1. 0 \in S
    OBVIOUS
<1>2. \A k \in 0..(n - 1) : k \in S => k + 1 \in S
    <2> SUFFICES ASSUME NEW k \in 0..(n - 1), u[k] \in D
                 PROVE  k + 1 \in 0..n /\ u[k + 1] \in D
        OBVIOUS
    <2>1. k + 1 \in 1..n /\ (k + 1) - 1 = k
        OBVIOUS
    <2> QED
        BY <2>1
<1>3. \A k \in 0..n : k \in S
    <2> HIDE DEF S
    <2> QED
        BY <1>1, <1>2, UpToByInduction
<1> QED
    BY <1>3

\* SumTo() is the last of the partial sums.
LEMMA TotalIsSum ==
    ASSUME NEW n \in Nat, NEW f \in [1..n -> Int]
    PROVE  \E u \in [0..n -> Int] :
              u[0] = 0 /\ (\A k \in 1..n : u[k] = u[k - 1] + f[k]) /\ SumTo(f, n) = u[n]
<1> DEFINE Is(u) == u = [k \in 0..n |-> IF k = 0 THEN 0 ELSE u[k - 1] + f[k]]
           t == CHOOSE u : Is(u)
           step == [k \in 1..n |-> [x \in Int |-> x + f[k]]]
<1>1. step \in [1..n -> [Int -> Int]]
    OBVIOUS
<1>2. \A k \in 1..n : \A x \in Int : step[k][x] = x + f[k]
    OBVIOUS
<1>3. \E u : Is(u)
    <2> HIDE DEF step
    <2>1. PICK u : Stepping(u, n, Int, 0, step)
        <3>1. step \in StepsOf(n, Int)
            BY <1>1 DEF StepsOf
        <3>2. 0 \in Int
            OBVIOUS
        <3> QED
            BY <3>1, <3>2, StepsExist
    <2>2. ASSUME NEW k \in 1..n
          PROVE  u[k] = u[k - 1] + f[k]
        <3>1. k - 1 \in 0..n
            OBVIOUS
        <3>2. u[k - 1] \in Int
            BY <2>1, <3>1 DEF Stepping
        <3> QED
            BY <1>2, <2>1, <3>2 DEF Stepping
    <2>3. Is(u)
        BY <2>1, <2>2 DEF Stepping
    <2> QED
        BY <2>3
<1>4. Is(t)
    BY <1>3
<1>5. SumTo(f, n) = t[n]
    BY DEF SumTo
<1> HIDE DEF t
<1>6. t[0] = 0 /\ \A k \in 1..n : t[k] = t[k - 1] + f[k]
    BY <1>4
<1>7. \A k \in 0..n : t[k] \in Int
    <2>1. \A k \in 1..n : t[k - 1] \in Int => t[k] \in Int
        BY <1>6
    <2>2. t[0] \in Int
        BY <1>6
    <2> QED
        BY <2>1, <2>2, StepsHold
<1>8. t \in [0..n -> Int]
    BY <1>4, <1>7
<1> QED
    BY <1>5, <1>6, <1>8

-----------------------------------------------------------------------------
(* Rows, segments and gaps                                                 *)

\* The histories a store may hold, and their rows.
Histories == UNION {[D -> 0..1] : D \in SUBSET (1..LastContest)}
RowSet == [number : 1..LastContest, version : 0..1, draw : {1}]

\* A row has the number of a contest.
LEMMA NumbersOfRows == \A x \in RowSet : x.number \in Nat \ {0}
    BY HistoryAssumption DEF HistoryAssumption, RowSet

\* A history has finitely many contests.
LEMMA HistoryIsFinite ==
    ASSUME NEW h \in Histories
    PROVE  /\ DOMAIN h \in SUBSET (1..LastContest) /\ DOMAIN h \in SUBSET Nat
           /\ IsFiniteSet(DOMAIN h) /\ \A n \in DOMAIN h : h[n] \in 0..1
<1>1. PICK D \in SUBSET (1..LastContest) : h \in [D -> 0..1]
    BY DEF Histories
<1>2. LastContest \in Nat /\ IsFiniteSet(1..LastContest)
    BY HistoryAssumption, FS_Interval DEF HistoryAssumption
<1>3. IsFiniteSet(D)
    BY <1>2, FS_Subset
<1> QED
    BY <1>1, <1>2, <1>3

\* The rows of a history: as many as contests, one for each, in their order.
LEMMA RowsAre ==
    ASSUME NEW h \in Histories
    PROVE  LET rows == Rows(h)
               N == Cardinality(DOMAIN h)
           IN /\ N \in Nat /\ DOMAIN rows = 1..N /\ rows \in Seq(RowSet) /\ Len(rows) = N
              /\ \A i \in 1..N :
                    /\ rows[i].number \in DOMAIN h /\ rows[i].number \in 1..LastContest
                    /\ Rank(DOMAIN h, rows[i].number) = i
                    /\ rows[i].version = h[rows[i].number]
                    /\ rows[i] \in RowSet
              /\ \A i, j \in 1..N : i < j => rows[i].number < rows[j].number
<1> DEFINE S == DOMAIN h
           a == Ascending(S)
           N == Cardinality(S)
           rows == Rows(h)
<1>1. S \in SUBSET (1..LastContest) /\ S \in SUBSET Nat /\ IsFiniteSet(S)
    BY HistoryIsFinite
<1>2. \A n \in S : h[n] \in 0..1
    BY HistoryIsFinite
<1>3. /\ N \in Nat /\ DOMAIN a = 1..N
      /\ \A i \in 1..N : a[i] \in S /\ Rank(S, a[i]) = i
    BY <1>1, AscendingOrder
<1>4. \A i, j \in 1..N : i < j => a[i] < a[j]
    BY <1>1, AscendingGrows
<1>5. rows = [i \in 1..N |-> [number |-> a[i], version |-> h[a[i]], draw |-> 1]]
    BY <1>3 DEF Rows
<1> HIDE DEF a, N, rows, S
<1>6. ASSUME NEW i \in 1..N
      PROVE  /\ rows[i].number = a[i] /\ rows[i].version = h[a[i]]
             /\ rows[i] \in RowSet /\ a[i] \in 1..LastContest
    BY <1>1, <1>2, <1>3, <1>5 DEF RowSet
<1>7. rows \in Seq(RowSet) /\ Len(rows) = N /\ DOMAIN rows = 1..N
    BY <1>3, <1>5, <1>6
<1>8. \A i, j \in 1..N : i < j => rows[i].number < rows[j].number
    BY <1>4, <1>6
<1>9. \A i \in 1..N :
         /\ rows[i].number \in S /\ rows[i].number \in 1..LastContest
         /\ Rank(S, rows[i].number) = i
         /\ rows[i].version = h[rows[i].number]
         /\ rows[i] \in RowSet
    BY <1>3, <1>6
<1> QED
    BY <1>3, <1>7, <1>8, <1>9 DEF rows, N, S

\* The number of a row is at least as far from an earlier one as the rows are apart.
LEMMA RowNumbers ==
    ASSUME NEW h \in Histories, NEW i \in DOMAIN Rows(h)
    PROVE  /\ Rows(h)[i].number \in Nat /\ i \in Nat
           /\ i > 1 => /\ i - 1 \in DOMAIN Rows(h) /\ Rows(h)[i - 1].number \in Nat
                       /\ Rows(h)[i - 1].number < Rows(h)[i].number
BY RowsAre

\* The contests that are missing between the rows are those the store misses
\* between its first and its last.
LEMMA GapsAddUp ==
    ASSUME NEW h \in Histories, Rows(h) # <<>>
    PROVE  MissingCount(Rows(h)) = MissingInRange(h)
<1> DEFINE rows == Rows(h)
           S == DOMAIN h
           N == Cardinality(S)
           gap == [i \in DOMAIN rows |-> Gap(rows, i)]
<1>1. /\ N \in Nat /\ DOMAIN rows = 1..N /\ Len(rows) = N
      /\ \A i \in 1..N : rows[i].number \in S /\ rows[i].number \in Nat /\ Rank(S, rows[i].number) = i
      /\ \A i, j \in 1..N : i < j => rows[i].number < rows[j].number
    <2>1. \A i \in 1..LastContest : i \in Nat
        BY HistoryAssumption DEF HistoryAssumption
    <2> QED
        BY <2>1, RowsAre
<1>2. N # 0
    BY <1>1, RowsAre
<1>3. \A n \in S : Rank(S, n) \in 1..N /\ rows[Rank(S, n)].number = n
    <2>1. S \in SUBSET Nat /\ IsFiniteSet(S)
        BY HistoryIsFinite
    <2>2. ASSUME NEW n \in S PROVE Rank(S, n) \in 1..N
        BY <2>1, RankType
    <2>3. ASSUME NEW n \in S PROVE rows[Rank(S, n)].number = n
        <3>1. rows[Rank(S, n)].number \in S /\ Rank(S, rows[Rank(S, n)].number) = Rank(S, n)
            BY <1>1, <2>2
        <3> DEFINE x == rows[Rank(S, n)].number
        <3>2. x \in S /\ Rank(S, x) = Rank(S, n)
            BY <3>1
        <3> HIDE DEF x
        <3>3. x = n
            BY <2>1, <3>2, RankIsOneToOne
        <3> QED
            BY <3>3 DEF x
    <2> QED
        BY <2>2, <2>3
<1> HIDE DEF rows
<1>4. ASSUME NEW n \in S
      PROVE  n \in Nat /\ rows[1].number <= n /\ n <= rows[N].number
    <2>1. PICK i \in 1..N : rows[i].number = n
        BY <1>3
    <2>2. 1 \in 1..N /\ N \in 1..N /\ (i = 1 \/ 1 < i) /\ (i = N \/ i < N)
        BY <1>1, <1>2
    <2> QED
        BY <1>1, <2>1, <2>2
<1>5. Max(S) = rows[N].number /\ Min(S) = rows[1].number
    <2>1. rows[N].number \in S /\ rows[1].number \in S
        BY <1>1, <1>2
    <2>2. \A x \in S : (\A y \in S : x >= y) => x = rows[N].number
        BY <1>4, <2>1
    <2>3. \A x \in S : (\A y \in S : x <= y) => x = rows[1].number
        BY <1>4, <2>1
    <2>4. \A y \in S : rows[N].number >= y /\ rows[1].number <= y
        BY <1>4, <2>1
    <2>5. Max(S) \in S /\ \A y \in S : Max(S) >= y
        BY <2>1, <2>4 DEF Max
    <2>6. Min(S) \in S /\ \A y \in S : Min(S) <= y
        BY <2>1, <2>4 DEF Min
    <2> QED
        BY <2>2, <2>3, <2>5, <2>6
<1>6. \A i \in 1..N : gap[i] = IF i = 1 THEN 0 ELSE rows[i].number - rows[i - 1].number - 1
    <2> TAKE i \in 1..N
    <2>1. CASE i = 1
        BY <1>1, <2>1 DEF Gap
    <2>2. CASE i # 1
        <3>1. i - 1 \in 1..N /\ i - 1 < i
            BY <1>1, <2>2
        <3>2. rows[i - 1].number < rows[i].number /\ rows[i].number \in Nat /\ rows[i - 1].number \in Nat
            BY <1>1, <3>1
        <3>3. gap[i] = Gap(rows, i)
            BY <1>1
        <3> QED
            BY <2>2, <3>2, <3>3 DEF Gap
    <2> QED
        BY <2>1, <2>2
<1>7. gap \in [1..N -> Int]
    <2>1. \A i \in 1..N : gap[i] \in Int
        <3> TAKE i \in 1..N
        <3>1. CASE i = 1
            BY <1>6, <3>1
        <3>2. CASE i # 1
            <4>1. i - 1 \in 1..N
                BY <1>1, <3>2
            <4> QED
                BY <1>1, <1>6, <3>2, <4>1
        <3> QED
            BY <3>1, <3>2
    <2> QED
        BY <1>1, <2>1
<1> HIDE DEF gap
<1>8. PICK u \in [0..N -> Int] :
         u[0] = 0 /\ (\A k \in 1..N : u[k] = u[k - 1] + gap[k]) /\ SumTo(gap, N) = u[N]
    BY <1>1, <1>7, TotalIsSum
<1> DEFINE Told == {k \in 0..N : k = 0 \/ u[k] = rows[k].number - rows[1].number - (k - 1)}
<1>9. \A k \in 0..N : k \in Told
    <2>1. 0 \in Told
        BY <1>1
    <2>2. ASSUME NEW k \in 0..(N - 1), k \in Told
          PROVE  k + 1 \in Told
        <3>1. k + 1 \in 1..N /\ u[k + 1] = u[k] + gap[k + 1]
            BY <1>1, <1>8
        <3>2. rows[k + 1].number \in Nat /\ rows[1].number \in Nat
            BY <1>1, <1>2, <3>1
        <3>3. CASE k = 0
            BY <1>6, <1>8, <3>1, <3>2, <3>3
        <3>4. CASE k # 0
            <4>1. k \in 1..N /\ rows[k].number \in Nat
                BY <1>1, <3>4
            <4>2. gap[k + 1] = rows[k + 1].number - rows[k].number - 1
                BY <1>6, <3>1, <4>1
            <4>3. u[k] = rows[k].number - rows[1].number - (k - 1)
                BY <2>2, <3>4
            <4> QED
                BY <3>1, <3>2, <4>1, <4>2, <4>3, SMTT(30)
        <3> QED
            BY <3>3, <3>4
    <2> HIDE DEF Told
    <2> QED
        BY <1>1, <2>1, <2>2, UpToByInduction
<1>10. u[N] = rows[N].number - rows[1].number - (N - 1)
    <2>1. N \in 0..N
        BY <1>1
    <2> QED
        BY <1>2, <1>9, <2>1
<1>11. MissingCount(rows) = u[N]
    BY <1>1, <1>8 DEF MissingCount, gap
<1>12. rows[N].number \in Nat /\ rows[1].number \in Nat
    BY <1>1, <1>2
<1>13. MissingInRange(h) = rows[N].number - rows[1].number + 1 - N
    BY <1>5 DEF MissingInRange
<1>14. MissingCount(rows) = MissingInRange(h)
    <2> DEFINE a == rows[N].number
               b == rows[1].number
    <2>1. MissingCount(rows) = a - b - (N - 1) /\ MissingInRange(h) = a - b + 1 - N
        BY <1>10, <1>11, <1>13
    <2>2. a \in Int /\ b \in Int /\ N \in Int
        BY <1>1, <1>12
    <2> HIDE DEF a, b, N
    <2>3. a - b - (N - 1) = a - b + 1 - N
        BY <2>2
    <2> QED
        BY <2>1, <2>3
<1> QED
    BY <1>14 DEF rows

\* Where the segments of the first k rows end: each begins at a row that follows
\* none, and every later row of it follows the one before.
Cut(rows, k, segs, c) ==
    /\ segs \in Seq(Seq(RowSet)) /\ Len(segs) \in Nat
    /\ c \in [0..Len(segs) -> 0..k] /\ c[0] = 0 /\ c[Len(segs)] = k
    /\ \A j \in 1..Len(segs) :
          /\ c[j - 1] < c[j]
          /\ segs[j] = SubSeq(rows, c[j - 1] + 1, c[j])
          /\ ~Follows(rows, c[j - 1] + 1)
          /\ \A i \in (c[j - 1] + 2)..c[j] : Follows(rows, i)

\* A row that follows the one before makes the last piece longer.
LEMMA CutGoesOn ==
    ASSUME NEW rows \in Seq(RowSet), NEW k \in 2..Len(rows), Follows(rows, k),
           NEW segs, NEW c, Cut(rows, k - 1, segs, c)
    PROVE  \E d : Cut(rows, k, [segs EXCEPT ![Len(segs)] = Append(@, rows[k])], d)
<1> DEFINE L == Len(segs)
           new == Append(segs[L], rows[k])
           more == [segs EXCEPT ![L] = new]
           d == [j \in 0..L |-> IF j = L THEN k ELSE c[j]]
<1>1. /\ segs \in Seq(Seq(RowSet)) /\ L \in Nat /\ c \in [0..L -> 0..(k - 1)]
      /\ c[0] = 0 /\ c[L] = k - 1
      /\ \A j \in 1..L : /\ c[j - 1] < c[j]
                         /\ segs[j] = SubSeq(rows, c[j - 1] + 1, c[j])
                         /\ ~Follows(rows, c[j - 1] + 1)
                         /\ \A i \in (c[j - 1] + 2)..c[j] : Follows(rows, i)
    BY DEF Cut
<1>2. k \in Nat /\ k - 1 \in Nat \ {0} /\ Len(rows) \in Nat
    BY LenProperties
<1>3. L # 0 /\ L \in 1..L
    BY <1>1, <1>2
<1>4. /\ c[L - 1] \in 0..(k - 1) /\ c[L - 1] < k - 1 /\ L - 1 \in 0..L
      /\ segs[L] = SubSeq(rows, c[L - 1] + 1, k - 1)
    <2>1. L - 1 \in 0..L /\ L \in 0..L
        BY <1>1, <1>3
    <2>2. c[L - 1] \in 0..(k - 1)
        BY <1>1, <2>1
    <2>3. c[L - 1] < c[L] /\ segs[L] = SubSeq(rows, c[L - 1] + 1, c[L])
        BY <1>1, <1>3
    <2> QED
        BY <1>1, <2>1, <2>2, <2>3
<1>5. segs[L] \in Seq(RowSet) /\ rows[k] \in RowSet
    BY <1>1, <1>2, <1>3, ElementOfSeq
<1>6. new = SubSeq(rows, c[L - 1] + 1, k)
    <2>1. /\ c[L - 1] + 1 \in 1..Len(rows) /\ k \in (c[L - 1] + 1)..Len(rows)
        BY <1>2, <1>4, SMTT(30)
    <2>2. SubSeq(rows, c[L - 1] + 1, k) = SubSeq(rows, c[L - 1] + 1, k - 1) \o <<rows[k]>>
        BY <2>1, SubSeqRecursiveSecond
    <2>3. Append(segs[L], rows[k]) = segs[L] \o <<rows[k]>>
        BY <1>5, AppendIsConcat
    <2> QED
        BY <1>4, <2>2, <2>3
<1>7. new \in Seq(RowSet)
    BY <1>5, AppendProperties
<1>8. d \in [0..L -> 0..k] /\ d[0] = 0 /\ d[L] = k
    BY <1>1, <1>2, <1>3
<1>9. \A j \in 0..L : j # L => d[j] = c[j]
    OBVIOUS
<1> HIDE DEF L, new, d
<1>10. more \in Seq(Seq(RowSet)) /\ Len(more) = L
       /\ \A j \in 1..L : more[j] = IF j = L THEN new ELSE segs[j]
    BY <1>1, <1>3, <1>7, ExceptSeq, SMTT(30) DEF L
<1>11. ASSUME NEW j \in 1..L
       PROVE  /\ d[j - 1] < d[j]
              /\ more[j] = SubSeq(rows, d[j - 1] + 1, d[j])
              /\ ~Follows(rows, d[j - 1] + 1)
              /\ \A i \in (d[j - 1] + 2)..d[j] : Follows(rows, i)
    <2>1. j - 1 \in 0..L /\ j - 1 # L /\ d[j - 1] = c[j - 1] /\ c[j - 1] \in 0..(k - 1)
        BY <1>1, <1>9, SMTT(30)
    <2>2. CASE j = L
        <3>1. d[j] = k /\ c[j] = k - 1
            BY <1>1, <1>8, <2>2
        <3>2. d[j - 1] < d[j]
            BY <1>2, <2>1, <3>1
        <3>3. more[j] = SubSeq(rows, d[j - 1] + 1, d[j])
            BY <1>6, <1>10, <2>1, <2>2, <3>1
        <3>4. ASSUME NEW i \in (d[j - 1] + 2)..d[j]
              PROVE  Follows(rows, i)
            <4>1. i = k \/ i \in (c[j - 1] + 2)..c[j]
                BY <1>2, <2>1, <3>1
            <4> QED
                BY <1>1, <4>1
        <3> QED
            BY <1>1, <2>1, <3>2, <3>3, <3>4
    <2>3. CASE j # L
        <3>1. d[j] = c[j] /\ more[j] = segs[j]
            BY <1>1, <1>9, <1>10, <2>3, SMTT(30)
        <3> QED
            BY <1>1, <2>1, <3>1
    <2> QED
        BY <2>2, <2>3
<1>12. Cut(rows, k, more, d)
    BY <1>1, <1>8, <1>10, <1>11 DEF Cut
<1>13. more = [segs EXCEPT ![Len(segs)] = Append(@, rows[k])]
    BY DEF L, new
<1> QED
    BY <1>12, <1>13

\* A row after a gap begins a piece.
LEMMA CutBeginsAnother ==
    ASSUME NEW rows \in Seq(RowSet), NEW k \in 1..Len(rows), ~Follows(rows, k),
           NEW segs, NEW c, Cut(rows, k - 1, segs, c)
    PROVE  \E d : Cut(rows, k, Append(segs, <<rows[k]>>), d)
<1> DEFINE L == Len(segs)
           more == Append(segs, <<rows[k]>>)
           d == [j \in 0..(L + 1) |-> IF j = L + 1 THEN k ELSE c[j]]
<1>1. /\ segs \in Seq(Seq(RowSet)) /\ L \in Nat /\ c \in [0..L -> 0..(k - 1)]
      /\ c[0] = 0 /\ c[L] = k - 1
      /\ \A j \in 1..L : /\ c[j - 1] < c[j]
                         /\ segs[j] = SubSeq(rows, c[j - 1] + 1, c[j])
                         /\ ~Follows(rows, c[j - 1] + 1)
                         /\ \A i \in (c[j - 1] + 2)..c[j] : Follows(rows, i)
    BY DEF Cut
<1>2. k \in Nat /\ k - 1 \in Nat /\ Len(rows) \in Nat
    BY LenProperties
<1>3. rows[k] \in RowSet /\ <<rows[k]>> \in Seq(RowSet)
    BY <1>2, ElementOfSeq
<1>4. <<rows[k]>> = SubSeq(rows, k, k)
    <2>1. SubSeq(rows, k, k) = SubSeq(rows, k, k - 1) \o <<rows[k]>>
        BY <1>2, SubSeqRecursiveSecond
    <2>2. SubSeq(rows, k, k - 1) = <<>>
        BY <1>2, SubSeqEmpty
    <2> QED
        BY <1>3, <2>1, <2>2, ConcatEmptySeq
<1>5. d \in [0..(L + 1) -> 0..k] /\ d[0] = 0 /\ d[L + 1] = k /\ L + 1 \in Nat
    BY <1>1, <1>2
<1>6. \A j \in 0..L : d[j] = c[j]
    BY <1>1
<1> HIDE DEF L, d, more
<1>7. more \in Seq(Seq(RowSet)) /\ Len(more) = L + 1
      /\ (\A j \in 1..L : more[j] = segs[j]) /\ more[L + 1] = <<rows[k]>>
    BY <1>1, <1>3, AppendProperties DEF more, L
<1>8. ASSUME NEW j \in 1..(L + 1)
      PROVE  /\ d[j - 1] < d[j]
             /\ more[j] = SubSeq(rows, d[j - 1] + 1, d[j])
             /\ ~Follows(rows, d[j - 1] + 1)
             /\ \A i \in (d[j - 1] + 2)..d[j] : Follows(rows, i)
    <2>1. j - 1 \in 0..L /\ d[j - 1] = c[j - 1] /\ c[j - 1] \in 0..(k - 1)
        BY <1>1, <1>6
    <2>2. CASE j = L + 1
        <3>1. d[j] = k /\ d[j - 1] = k - 1
            BY <1>1, <1>5, <2>1, <2>2
        <3>2. d[j - 1] + 1 = k /\ d[j - 1] + 2 = k + 1
            BY <1>2, <3>1
        <3>3. \A i \in (k + 1)..k : FALSE
            BY <1>2
        <3> QED
            BY <1>2, <1>4, <1>7, <2>2, <3>1, <3>2, <3>3
    <2>3. CASE j # L + 1
        <3>1. j \in 1..L /\ d[j] = c[j] /\ more[j] = segs[j]
            BY <1>1, <1>6, <1>7, <2>3, SMTT(30)
        <3> QED
            BY <1>1, <2>1, <3>1
    <2> QED
        BY <2>2, <2>3
<1>9. Cut(rows, k, more, d)
    BY <1>5, <1>7, <1>8 DEF Cut
<1> QED
    BY <1>9 DEF more

\* One row more, in either case.
LEMMA CutExtends ==
    ASSUME NEW rows \in Seq(RowSet), NEW k \in 1..Len(rows), NEW segs, NEW c,
           Cut(rows, k - 1, segs, c)
    PROVE  \E d : Cut(rows, k, WithRow(segs, rows, k), d)
<1>1. CASE Follows(rows, k)
    <2>1. k \in 2..Len(rows)
        BY <1>1 DEF Follows
    <2> QED
        BY <1>1, <2>1, CutGoesOn DEF WithRow
<1>2. CASE ~Follows(rows, k)
    BY <1>2, CutBeginsAnother DEF WithRow
<1> QED
    BY <1>1, <1>2

\* A row is added to segments that are not empty, or is the first.
LEMMA ExtendedType ==
    ASSUME NEW rows \in Seq(RowSet), NEW k \in 1..Len(rows), NEW x \in Seq(Seq(RowSet)),
           x # <<>> \/ k = 1
    PROVE  WithRow(x, rows, k) \in Seq(Seq(RowSet)) \ {<<>>}
<1>1. rows[k] \in RowSet /\ <<rows[k]>> \in Seq(RowSet)
    <2>1. Len(rows) \in Nat
        BY LenProperties
    <2>2. rows[k] \in RowSet
        BY <2>1, ElementOfSeq
    <2> QED
        BY <2>2
<1>2. CASE Follows(rows, k)
    <2>1. k # 1
        BY <1>2 DEF Follows
    <2>2. Len(x) \in 1..Len(x) /\ Len(x) \in Nat
        BY <2>1, EmptySeq
    <2>3. x[Len(x)] \in Seq(RowSet)
        BY <2>2, ElementOfSeq
    <2>4. Append(x[Len(x)], rows[k]) \in Seq(RowSet)
        BY <1>1, <2>3, AppendProperties
    <2> DEFINE y == [x EXCEPT ![Len(x)] = Append(x[Len(x)], rows[k])]
    <2>5. y \in Seq(Seq(RowSet)) /\ Len(y) = Len(x)
        BY <2>2, <2>4, ExceptSeq
    <2>6. WithRow(x, rows, k) = y
        BY <1>2 DEF WithRow
    <2> HIDE DEF y
    <2> QED
        BY <2>2, <2>5, <2>6, EmptySeq
<1>3. CASE ~Follows(rows, k)
    <2>1. Append(x, <<rows[k]>>) \in Seq(Seq(RowSet)) /\ Append(x, <<rows[k]>>) # <<>>
        BY <1>1, AppendProperties
    <2> QED
        BY <1>3, <2>1 DEF WithRow
<1> QED
    BY <1>2, <1>3

\* The partial segmentations of splitContinuousSegments().
SegmentsUpTo(t, rows) ==
    /\ t[0] = <<>>
    /\ \A k \in 1..Len(rows) : t[k] = WithRow(t[k - 1], rows, k)

\* The segments are the last value of the loop of splitContinuousSegments().
LEMMA SegmentsAre ==
    ASSUME NEW rows \in Seq(RowSet)
    PROVE  \E t : SegmentsUpTo(t, rows) /\ Segments(rows) = t[Len(rows)]
<1> DEFINE N == Len(rows)
           D == Seq(Seq(RowSet))
           Is(u) == u = [k \in 0..N |-> IF k = 0 THEN <<>> ELSE WithRow(u[k - 1], rows, k)]
           t == CHOOSE u : Is(u)
           some(k, x) == IF x # <<>> \/ k = 1 THEN WithRow(x, rows, k) ELSE <<<<>>>>
           step == [k \in 1..N |-> [x \in D |-> some(k, x)]]
<1>1. N \in Nat
    BY LenProperties
<1>2. \A k \in 1..N, x \in D : some(k, x) \in D \ {<<>>}
    <2> TAKE k \in 1..N, x \in D
    <2>1. CASE x # <<>> \/ k = 1
        BY <2>1, ExtendedType
    <2>2. CASE ~(x # <<>> \/ k = 1)
        <3>1. <<>> \in Seq(RowSet)
            BY EmptySeq
        <3>2. <<<<>>>> \in D /\ <<<<>>>> # <<>>
            BY <3>1
        <3> QED
            BY <2>2, <3>2
    <2> QED
        BY <2>1, <2>2
<1>3. <<>> \in D
    BY EmptySeq
<1>4. \E u : Is(u)
    <2> HIDE DEF D, some, N
    <2>1. step \in StepsOf(N, D)
        BY <1>2 DEF StepsOf
    <2>2. \A k \in 1..N : \A x \in D : step[k][x] = some(k, x)
        OBVIOUS
    <2> HIDE DEF step
    <2>3. PICK u : Stepping(u, N, D, <<>>, step)
        BY <1>1, <1>3, <2>1, StepsExist
    <2>4. u[0] = <<>> /\ u \in [0..N -> D] /\ \A k \in 1..N : u[k] = step[k][u[k - 1]]
        BY <2>3 DEF Stepping
    <2>5. \A k \in 1..N : k - 1 \in 0..N /\ u[k - 1] \in D /\ u[k] = some(k, u[k - 1])
        BY <1>1, <2>2, <2>4
    <2>6. \A k \in 1..N : u[k] # <<>>
        BY <1>2, <2>5
    <2>7. \A k \in 1..N : u[k] = WithRow(u[k - 1], rows, k)
        <3> TAKE k \in 1..N
        <3>1. u[k - 1] # <<>> \/ k = 1
            <4>1. k = 1 \/ k - 1 \in 1..N
                BY <1>1
            <4> QED
                BY <2>6, <4>1
        <3> QED
            BY <2>5, <3>1 DEF some
    <2>8. u = [k \in 0..N |-> u[k]]
        BY <2>4
    <2>9. \A k \in 0..N : u[k] = IF k = 0 THEN <<>> ELSE WithRow(u[k - 1], rows, k)
        <3> TAKE k \in 0..N
        <3>1. k = 0 \/ k \in 1..N
            BY <1>1
        <3> QED
            BY <1>1, <2>4, <2>7, <3>1
    <2>10. Is(u)
        BY <2>8, <2>9
    <2> QED
        BY <2>10
<1>5. Is(t)
    BY <1>4
<1>6. Segments(rows) = t[N]
    BY DEF Segments
<1> HIDE DEF t
<1>7. SegmentsUpTo(t, rows)
    <2>1. t[0] = <<>>
        BY <1>1, <1>5
    <2>2. \A k \in 1..N : k \in 0..N /\ k # 0
        BY <1>1
    <2>3. \A k \in 1..N : t[k] = WithRow(t[k - 1], rows, k)
        BY <1>5, <2>2
    <2> QED
        BY <2>1, <2>3 DEF SegmentsUpTo
<1> QED
    BY <1>6, <1>7

\* The segments cut the rows.
LEMMA SegmentsCut ==
    ASSUME NEW rows \in Seq(RowSet)
    PROVE  \E c : Cut(rows, Len(rows), Segments(rows), c)
<1> DEFINE N == Len(rows)
<1>1. N \in Nat
    BY LenProperties
<1>2. PICK t : SegmentsUpTo(t, rows) /\ Segments(rows) = t[N]
    BY SegmentsAre
<1> DEFINE Done == {k \in 0..N : \E c : Cut(rows, k, t[k], c)}
<1>3. 0 \in Done
    <2> DEFINE c == [j \in 0..0 |-> 0]
    <2>1. c \in [0..0 -> 0..0] /\ c[0] = 0
        OBVIOUS
    <2>2. <<>> \in Seq(Seq(RowSet)) /\ Len(<<>>) = 0
        OBVIOUS
    <2> HIDE DEF c
    <2>3. Cut(rows, 0, <<>>, c)
        BY <2>1, <2>2 DEF Cut
    <2> QED
        BY <1>1, <1>2, <2>3 DEF SegmentsUpTo
<1>4. \A k \in 0..(N - 1) : k \in Done => k + 1 \in Done
    <2> SUFFICES ASSUME NEW k \in 0..(N - 1), k \in Done PROVE k + 1 \in Done
        OBVIOUS
    <2>1. k + 1 \in 1..N /\ (k + 1) - 1 = k /\ k + 1 \in 0..N
        BY <1>1
    <2>2. PICK c : Cut(rows, k, t[k], c)
        OBVIOUS
    <2> DEFINE m == k + 1
    <2>3. m \in 1..N /\ m - 1 = k /\ Cut(rows, m - 1, t[k], c) /\ m \in 0..N
        BY <2>1, <2>2
    <2>4. t[m] = WithRow(t[k], rows, m)
        BY <1>2, <2>3 DEF SegmentsUpTo
    <2> HIDE DEF m
    <2>5. \E d : Cut(rows, m, WithRow(t[k], rows, m), d)
        BY <2>3, CutExtends
    <2>6. m \in Done
        BY <2>3, <2>4, <2>5
    <2> QED
        BY <2>6 DEF m
<1>5. \A k \in 0..N : k \in Done
    <2> HIDE DEF Done
    <2> QED
        BY <1>1, <1>3, <1>4, UpToByInduction
<1> QED
    BY <1>1, <1>2, <1>5

\* The pieces of cut rows, joined, are the rows.
LEMMA CutFlattens ==
    ASSUME NEW rows \in Seq(RowSet), NEW segs, NEW c, Cut(rows, Len(rows), segs, c)
    PROVE  FlattenSeq(segs) = rows
<1> DEFINE N == Len(rows)
           L == Len(segs)
           Is(u) == u = [j \in 1..L |-> IF j = 1 THEN segs[j] ELSE u[j - 1] \o segs[j]]
           w == [j \in 1..L |-> SubSeq(rows, 1, c[j])]
           t == CHOOSE u : Is(u)
<1>1. N \in Nat /\ L \in Nat
    BY LenProperties DEF Cut
<1>2. /\ segs \in Seq(Seq(RowSet)) /\ c \in [0..L -> 0..N] /\ c[0] = 0 /\ c[L] = N
      /\ \A j \in 1..L : c[j - 1] < c[j] /\ segs[j] = SubSeq(rows, c[j - 1] + 1, c[j])
    BY DEF Cut
<1>3. CASE L = 0
    <2>1. segs = <<>> /\ N = 0
        BY <1>1, <1>2, <1>3, EmptySeq
    <2>2. rows = <<>>
        BY <2>1, EmptySeq
    <2> QED
        BY <1>3, <2>1, <2>2 DEF FlattenSeq
<1>4. CASE L # 0
    <2>1. \A j \in 2..L : w[j - 1] \o segs[j] = w[j]
        <3> TAKE j \in 2..L
        <3>1. j - 1 \in 1..L /\ j \in 1..L /\ j - 1 \in 0..L /\ j \in 0..L
            BY <1>1
        <3>2. /\ c[j - 1] \in 0..N /\ c[j] \in 0..N /\ c[j - 1] < c[j]
              /\ segs[j] = SubSeq(rows, c[j - 1] + 1, c[j])
            BY <1>2, <3>1
        <3>3. /\ 1 \in 1..(N + 1) /\ c[j - 1] \in (1 - 1)..N /\ c[j] \in c[j - 1]..N
            BY <1>1, <3>2
        <3>4. SubSeq(rows, 1, c[j - 1]) \o SubSeq(rows, c[j - 1] + 1, c[j]) = SubSeq(rows, 1, c[j])
            BY <3>3, ConcatAdjacentSubSeq
        <3> QED
            BY <3>1, <3>2, <3>4
    <2>2. 1 \in 1..L /\ w[1] = segs[1]
        <3>1. 1 \in 1..L /\ 1 - 1 = 0
            BY <1>1, <1>4
        <3>2. segs[1] = SubSeq(rows, c[1 - 1] + 1, c[1])
            BY <1>2, <3>1
        <3>3. segs[1] = SubSeq(rows, c[0] + 1, c[1]) /\ c[0] + 1 = 1
            BY <1>2, <3>1, <3>2, SMTT(30)
        <3> QED
            BY <3>1, <3>3
    <2>3. w = [j \in 1..L |-> w[j]]
        OBVIOUS
    <2> HIDE DEF w
    <2>4. \A j \in 1..L : w[j] = IF j = 1 THEN segs[j] ELSE w[j - 1] \o segs[j]
        <3> TAKE j \in 1..L
        <3>1. j = 1 \/ j \in 2..L
            BY <1>1
        <3> QED
            BY <2>1, <2>2, <3>1
    <2>5. Is(w)
        BY <2>3, <2>4
    <2>6. Is(t)
        BY <2>5
    <2>7. FlattenSeq(segs) = t[L]
        BY <1>4 DEF FlattenSeq
    <2> HIDE DEF t
    <2>8. \A j \in 1..L : t[j] = IF j = 1 THEN segs[j] ELSE t[j - 1] \o segs[j]
        BY <2>6
    <2> HIDE DEF Is
    <2> DEFINE Same == {k \in 0..L : k = 0 \/ t[k] = w[k]}
    <2>9. 0 \in Same
        BY <1>1
    <2>10. \A k \in 0..(L - 1) : k \in Same => k + 1 \in Same
        <3> SUFFICES ASSUME NEW k \in 0..(L - 1), k \in Same PROVE k + 1 \in Same
            OBVIOUS
        <3>1. k + 1 \in 1..L /\ k + 1 \in 0..L /\ (k + 1) - 1 = k
            BY <1>1
        <3>2. CASE k = 0
            BY <2>4, <2>8, <3>1, <3>2
        <3>3. CASE k # 0
            <4>1. t[k] = w[k] /\ k + 1 # 1
                BY <3>3
            <4>2. t[k + 1] = t[k] \o segs[k + 1] /\ w[k + 1] = w[k] \o segs[k + 1]
                BY <2>4, <2>8, <3>1, <4>1
            <4> QED
                BY <3>1, <4>1, <4>2
        <3> QED
            BY <3>2, <3>3
    <2>11. \A k \in 0..L : k \in Same
        <3> HIDE DEF Same
        <3> QED
            BY <1>1, <2>9, <2>10, UpToByInduction
    <2>12. L \in 1..L /\ L \in 0..L
        BY <1>1, <1>4
    <2>13. t[L] = w[L]
        BY <1>4, <2>11, <2>12
    <2>14. w[L] = SubSeq(rows, 1, N)
        BY <1>2, <2>12 DEF w
    <2> QED
        BY <2>7, <2>13, <2>14, SubSeqFull
<1> QED
    BY <1>3, <1>4

\* The last piece is what begins at the last row that follows none.
LEMMA LastPiece ==
    ASSUME NEW rows \in Seq(RowSet), NEW segs, NEW c, Cut(rows, Len(rows), segs, c), rows # <<>>
    PROVE  ContinuousSuffix(rows) = Last(segs)
<1> DEFINE N == Len(rows)
           L == Len(segs)
           B == {i \in DOMAIN rows : ~Follows(rows, i)}
           b == c[L - 1] + 1
<1>1. N \in Nat /\ N # 0 /\ DOMAIN rows = 1..N
    BY LenProperties, EmptySeq
<1>2. /\ L \in Nat /\ c \in [0..L -> 0..N] /\ c[0] = 0 /\ c[L] = N
      /\ \A j \in 1..L : /\ c[j - 1] < c[j] /\ segs[j] = SubSeq(rows, c[j - 1] + 1, c[j])
                         /\ ~Follows(rows, c[j - 1] + 1)
                         /\ \A i \in (c[j - 1] + 2)..c[j] : Follows(rows, i)
    BY DEF Cut
<1>3. L # 0 /\ L \in 1..L /\ L - 1 \in 0..L
    BY <1>1, <1>2
<1>4. c[L - 1] \in 0..N
    BY <1>2, <1>3
<1>5. /\ c[L - 1] < N /\ segs[L] = SubSeq(rows, b, N) /\ ~Follows(rows, b)
      /\ \A i \in (c[L - 1] + 2)..N : Follows(rows, i)
    BY <1>2, <1>3
<1>6. b \in B
    BY <1>1, <1>4, <1>5
<1>7. \A i \in B : i \in Nat /\ b >= i
    <2> TAKE i \in B
    <2>1. i \in 1..N /\ ~Follows(rows, i)
        BY <1>1
    <2>2. i \notin (c[L - 1] + 2)..N
        BY <1>5, <2>1
    <2> QED
        BY <1>1, <1>4, <2>1, <2>2
<1>8. b \in Nat
    BY <1>4
<1> HIDE DEF b, B
<1>9. Max(B) \in B /\ \A i \in B : Max(B) >= i
    BY <1>6, <1>7 DEF Max
<1>10. Max(B) = b
    <2> DEFINE m == Max(B)
    <2>1. m \in B /\ m >= b
        BY <1>6, <1>9
    <2> HIDE DEF m
    <2>2. m \in Nat /\ b >= m
        BY <1>7, <2>1
    <2>3. m = b
        BY <1>8, <2>1, <2>2
    <2> QED
        BY <2>3 DEF m
<1>11. ContinuousSuffix(rows) = SubSeq(rows, b, N)
    BY <1>10 DEF ContinuousSuffix, B
<1> QED
    BY <1>5, <1>11 DEF Last

\* The recent windows, the segments and the gaps agree.
LEMMA WindowsFit ==
    ASSUME NEW h \in Histories
    PROVE  LET rows == Rows(h)
           IN /\ ContinuousSuffix(rows) = LatestSegment(rows)
              /\ FlattenSeq(Segments(rows)) = rows
              /\ rows # <<>> => MissingCount(rows) = MissingInRange(h)
<1> DEFINE rows == Rows(h)
<1>1. rows \in Seq(RowSet)
    BY RowsAre
<1>2. rows # <<>> => MissingCount(rows) = MissingInRange(h)
    BY GapsAddUp
<1> HIDE DEF rows
<1>3. PICK c : Cut(rows, Len(rows), Segments(rows), c)
    BY <1>1, SegmentsCut
<1>4. FlattenSeq(Segments(rows)) = rows
    BY <1>1, <1>3, CutFlattens
<1>5. ContinuousSuffix(rows) = LatestSegment(rows)
    <2>1. CASE rows = <<>>
        BY <2>1 DEF ContinuousSuffix, LatestSegment
    <2>2. CASE rows # <<>>
        BY <1>1, <1>3, <2>2, LastPiece DEF LatestSegment
    <2> QED
        BY <2>1, <2>2
<1> QED
    BY <1>2, <1>4, <1>5 DEF rows

-----------------------------------------------------------------------------
(* What is computed from the rows of a signature                           *)

\* The rows r are the rows of s with numbers up to e.
Begins(r, s, e) ==
    /\ r \in Seq(RowSet) /\ s \in Seq(RowSet) /\ Len(r) \in Nat /\ Len(s) \in Nat
    /\ Len(r) <= Len(s)
    /\ \A i \in 1..Len(r) : r[i] = s[i] /\ r[i] \in RowSet /\ s[i].number <= e
    /\ \A i \in 1..Len(s) : i > Len(r) => s[i].number > e

\* A signature is a history: the contests up to the end, unchanged.
LEMMA SignatureIsHistory ==
    ASSUME NEW h \in Histories, NEW e \in Nat
    PROVE  /\ Signature(h, e) \in Histories
           /\ DOMAIN Signature(h, e) = UpTo(DOMAIN h, e)
           /\ \A n \in UpTo(DOMAIN h, e) : Signature(h, e)[n] = h[n]
<1>1. /\ DOMAIN h \in SUBSET (1..LastContest)
      /\ \A n \in DOMAIN h : h[n] \in 0..1
    BY HistoryIsFinite
<1>2. Signature(h, e) = [n \in UpTo(DOMAIN h, e) |-> h[n]]
    BY DEF Signature, UpTo
<1>3. UpTo(DOMAIN h, e) \in SUBSET (1..LastContest) /\ UpTo(DOMAIN h, e) \subseteq DOMAIN h
    BY <1>1 DEF UpTo
<1>4. Signature(h, e) \in [UpTo(DOMAIN h, e) -> 0..1]
    BY <1>1, <1>2, <1>3
<1> QED
    BY <1>2, <1>3, <1>4 DEF Histories

\* What lies beyond n does not move the ranks up to n.
LEMMA RankBelow ==
    ASSUME NEW S \in SUBSET Nat, NEW e \in Nat, NEW n \in Nat, n <= e
    PROVE  Rank(UpTo(S, e), n) = Rank(S, n)
<1>1. \A m \in S : m \in Nat /\ (m <= n => m <= e)
    OBVIOUS
<1>2. UpTo(UpTo(S, e), n) = UpTo(S, n)
    BY <1>1 DEF UpTo
<1> QED
    BY <1>2 DEF Rank

\* The rows of a signature are those of the history up to its end.
LEMMA SignatureRows ==
    ASSUME NEW h \in Histories, NEW e \in Nat
    PROVE  Begins(Rows(Signature(h, e)), Rows(h), e)
<1> DEFINE g == Signature(h, e)
           S == DOMAIN h
           r == Rows(g)
           s == Rows(h)
           p == Cardinality(DOMAIN g)
           N == Cardinality(S)
<1>1. /\ g \in Histories /\ DOMAIN g = UpTo(S, e)
      /\ \A n \in UpTo(S, e) : g[n] = h[n]
    BY SignatureIsHistory
<1>2. S \in SUBSET Nat /\ IsFiniteSet(S)
    BY HistoryIsFinite
<1>3. LastContest \in Nat
    BY HistoryAssumption DEF HistoryAssumption
<1>4. /\ N \in Nat /\ s \in Seq(RowSet) /\ Len(s) = N
      /\ \A i \in 1..N : /\ s[i].number \in S /\ s[i].number \in Nat
                         /\ Rank(S, s[i].number) = i
                         /\ s[i].version = h[s[i].number] /\ s[i] \in RowSet
    BY <1>3, RowsAre
<1> HIDE DEF g
<1>5. /\ p \in Nat /\ r \in Seq(RowSet) /\ Len(r) = p
      /\ \A i \in 1..p : /\ r[i].number \in DOMAIN g /\ r[i].number \in Nat
                         /\ Rank(DOMAIN g, r[i].number) = i
                         /\ r[i].version = g[r[i].number] /\ r[i] \in RowSet
    BY <1>1, <1>3, RowsAre
<1>6. p <= N
    <2>1. UpTo(S, e) \subseteq S
        BY DEF UpTo
    <2> QED
        BY <1>1, <1>2, <2>1, FS_Subset
<1> HIDE DEF r, s, p, N, S
<1>7. ASSUME NEW i \in 1..p
      PROVE  r[i] = s[i] /\ r[i] \in RowSet /\ s[i].number <= e
    <2> DEFINE n == r[i].number
               m == s[i].number
    <2>1. n \in S /\ n \in Nat /\ n <= e
        BY <1>1, <1>5 DEF UpTo
    <2>2. Rank(S, n) = i
        BY <1>1, <1>2, <1>5, <2>1, RankBelow
    <2>3. i \in 1..N
        BY <1>4, <1>5, <1>6
    <2>4. m \in S /\ Rank(S, m) = i
        BY <1>4, <2>3
    <2>5. r[i].version = h[n] /\ s[i].version = h[m] /\ r[i] \in RowSet /\ s[i] \in RowSet
        <3>1. n \in UpTo(S, e)
            BY <2>1 DEF UpTo
        <3> QED
            BY <1>1, <1>4, <1>5, <2>3, <3>1
    <2>6. r[i] = [number |-> n, version |-> r[i].version, draw |-> 1]
          /\ s[i] = [number |-> m, version |-> s[i].version, draw |-> 1]
        BY <2>5 DEF RowSet
    <2> HIDE DEF n, m
    <2>7. n = m
        BY <1>2, <2>1, <2>2, <2>4, RankIsOneToOne
    <2>8. m <= e
        BY <2>1, <2>7
    <2> QED
        BY <2>5, <2>6, <2>7, <2>8 DEF m
<1>8. ASSUME NEW i \in 1..N, i > p
      PROVE  s[i].number > e
    <2> DEFINE m == s[i].number
    <2>1. m \in S /\ m \in Nat /\ Rank(S, m) = i
        BY <1>4
    <2> HIDE DEF m
    <2>2. ASSUME m <= e
          PROVE  FALSE
        <3>1. m \in UpTo(S, e) /\ Rank(UpTo(S, e), m) = i
            BY <1>2, <2>1, <2>2, RankBelow DEF UpTo
        <3>2. UpTo(S, e) \in SUBSET Nat /\ IsFiniteSet(UpTo(S, e))
            BY <1>2, RankType DEF UpTo
        <3>3. i \in 1..Cardinality(UpTo(S, e))
            BY <3>1, <3>2, RankType
        <3> QED
            BY <1>1, <1>5, <1>8, <3>3 DEF p
    <2>3. m > e
        BY <2>1, <2>2
    <2> QED
        BY <2>3 DEF m
<1>9. Begins(r, s, e)
    BY <1>4, <1>5, <1>6, <1>7, <1>8 DEF Begins
<1> QED
    BY <1>9 DEF r, s, g

\* Sequences that agree up to n have the same pieces up to n.
LEMMA SameSubSeq ==
    ASSUME NEW S, NEW r, NEW s, NEW a \in Int, NEW b \in Int,
           \A i \in a..b : r[i] = s[i] /\ r[i] \in S
    PROVE  SubSeq(r, a, b) = SubSeq(s, a, b)
<1> DEFINE x == SubSeq(r, a, b)
           y == SubSeq(s, a, b)
<1>1. /\ x \in Seq(S) /\ Len(x) = IF a <= b THEN b - a + 1 ELSE 0
      /\ \A i \in 1..(b - a + 1) : x[i] = r[a + i - 1]
    BY SubSeqProperties
<1>2. /\ y \in Seq(S) /\ Len(y) = IF a <= b THEN b - a + 1 ELSE 0
      /\ \A i \in 1..(b - a + 1) : y[i] = s[a + i - 1]
    BY SubSeqProperties
<1>3. Len(x) = Len(y)
    BY <1>1, <1>2
<1> HIDE DEF x, y
<1>4. \A i \in 1..Len(x) : x[i] = y[i]
    <2> TAKE i \in 1..Len(x)
    <2>1. i \in 1..(b - a + 1) /\ a + i - 1 \in a..b
        BY <1>1
    <2> QED
        BY <1>1, <1>2, <2>1
<1>5. x = y
    BY <1>1, <1>2, <1>3, <1>4, SeqEqual
<1> QED
    BY <1>5 DEF x, y

\* The larger and the smaller of two numbers, as the community modules choose them.
LEMMA MaxOfTwo ==
    ASSUME NEW a \in Int, NEW b \in Int
    PROVE  /\ Max({a, b}) = (IF a >= b THEN a ELSE b)
           /\ Min({a, b}) = (IF a <= b THEN a ELSE b)
<1>1. PICK m \in {a, b} : \A x \in {a, b} : m >= x
    OBVIOUS
<1>2. PICK n \in {a, b} : \A x \in {a, b} : n <= x
    OBVIOUS
<1>3. Max({a, b}) \in {a, b} /\ \A x \in {a, b} : Max({a, b}) >= x
    BY <1>1 DEF Max
<1>4. Min({a, b}) \in {a, b} /\ \A x \in {a, b} : Min({a, b}) <= x
    BY <1>2 DEF Min
<1> DEFINE M == Max({a, b})
           N == Min({a, b})
<1> HIDE DEF M, N
<1>5. M = IF a >= b THEN a ELSE b
    BY <1>3 DEF M
<1>6. N = IF a <= b THEN a ELSE b
    BY <1>4 DEF N
<1> QED
    BY <1>5, <1>6 DEF M, N

\* The eligible targets are places of rows that follow another.
LEMMA EligibleAre ==
    ASSUME NEW rows \in Seq(RowSet), NEW warmup \in Nat, NEW start \in Nat, NEW end \in Nat,
           NEW most \in Int
    PROVE  LET T == EligibleTargets(rows, warmup, start, end, most) IN
           /\ T \in SUBSET (1..Len(rows)) /\ T \in SUBSET Nat /\ IsFiniteSet(T)
           /\ \A i \in T : InPeriod(rows[i], start, end) /\ Follows(rows, i)
<1> DEFINE T == EligibleTargets(rows, warmup, start, end, most)
           w == Max({1, warmup})
<1>1. Len(rows) \in Nat
    BY LenProperties
<1>2. w \in Nat
    BY MaxOfTwo
<1> HIDE DEF w
<1>3. \A i \in T : i \in (w + 1)..Len(rows) /\ InPeriod(rows[i], start, end) /\ Follows(rows, i)
    BY DEF EligibleTargets, w
<1> HIDE DEF T
<1>4. T \in SUBSET (1..Len(rows)) /\ T \in SUBSET Nat
    BY <1>1, <1>2, <1>3
<1>5. IsFiniteSet(T)
    <2>1. IsFiniteSet(1..Len(rows))
        BY <1>1, FS_Interval
    <2> QED
        BY <1>4, <2>1, FS_Subset
<1> QED
    BY <1>3, <1>4, <1>5 DEF T

\* Rows that go beyond the end of a period add no target.
LEMMA SameTargets ==
    ASSUME NEW r, NEW s, NEW e \in Nat, Begins(r, s, e), e # NoContest,
           NEW warmup \in Nat, NEW start \in Nat, NEW most \in Int
    PROVE  EligibleTargets(r, warmup, start, e, most) = EligibleTargets(s, warmup, start, e, most)
<1> DEFINE w == Max({1, warmup})
           good(x, i) == InPeriod(x[i], start, e) /\ Follows(x, i)
           A == {i \in (w + 1)..Len(r) : good(r, i)}
           B == {i \in (w + 1)..Len(s) : good(s, i)}
<1>1. /\ Len(r) \in Nat /\ Len(s) \in Nat /\ Len(r) <= Len(s)
      /\ r \in Seq(RowSet) /\ s \in Seq(RowSet)
      /\ \A i \in 1..Len(r) : r[i] = s[i] /\ s[i].number <= e
      /\ \A i \in 1..Len(s) : i > Len(r) => s[i].number > e
    BY DEF Begins
<1>2. w \in Nat
    BY MaxOfTwo
<1>3. \A i \in 1..Len(r) : good(r, i) <=> good(s, i)
    <2> TAKE i \in 1..Len(r)
    <2>1. r[i] = s[i] /\ (i > 1 => r[i - 1] = s[i - 1])
        <3>1. i > 1 => i - 1 \in 1..Len(r)
            BY <1>1
        <3> QED
            BY <1>1, <3>1
    <2> QED
        BY <2>1 DEF Follows
<1>4. \A i \in 1..Len(s) : good(s, i) => i \in 1..Len(r)
    <2> SUFFICES ASSUME NEW i \in 1..Len(s), good(s, i), i > Len(r)
                 PROVE  FALSE
        BY <1>1
    <2>1. s[i].number > e /\ s[i].number <= e
        BY <1>1 DEF InPeriod
    <2>2. s[i] \in RowSet
        BY <1>1, ElementOfSeq
    <2>3. s[i].number \in Nat
        BY <2>2, NumbersOfRows
    <2> QED
        BY <2>1, <2>3
<1> HIDE DEF w, good
<1>5. A = B
    BY <1>1, <1>2, <1>3, <1>4
<1>6. \A x : EligibleTargets(x, warmup, start, e, most) =
         LET all == {i \in (w + 1)..Len(x) : good(x, i)}
         IN IF most <= 0 THEN all ELSE {i \in all : Cardinality({j \in all : j >= i}) <= most}
    BY DEF EligibleTargets, w, good
<1> QED
    BY <1>5, <1>6

\* The rounds of a set of targets.
RoundsOf(rows, T, rounds) ==
    /\ Cardinality(T) \in Nat /\ DOMAIN rounds = 1..Cardinality(T)
    /\ \A k \in 1..Cardinality(T) :
          /\ Ascending(T)[k] \in T /\ Ascending(T)[k] \in 1..Len(rows)
          /\ rounds[k] = Round(rows, Ascending(T)[k])

\* The rounds are the targets in their order, each with what came before it.
LEMMA RoundsAre ==
    ASSUME NEW rows \in Seq(RowSet), NEW warmup \in Nat, NEW start \in Nat, NEW end \in Nat,
           NEW most \in Int
    PROVE  RoundsOf(rows, EligibleTargets(rows, warmup, start, end, most),
                    Rounds(rows, warmup, start, end, most))
<1> DEFINE T == EligibleTargets(rows, warmup, start, end, most)
           a == Ascending(T)
<1>1. T \in SUBSET (1..Len(rows)) /\ T \in SUBSET Nat /\ IsFiniteSet(T)
    BY EligibleAre
<1>2. Rounds(rows, warmup, start, end, most) = [k \in DOMAIN a |-> Round(rows, a[k])]
    BY DEF Rounds
<1> HIDE DEF T
<1>3. Cardinality(T) \in Nat /\ DOMAIN a = 1..Cardinality(T) /\ \A k \in 1..Cardinality(T) : a[k] \in T
    BY <1>1, AscendingOrder
<1> HIDE DEF a
<1> QED
    BY <1>1, <1>2, <1>3 DEF T, a, RoundsOf

\* The same targets and the same beginnings give the same rounds.
LEMMA SameRounds ==
    ASSUME NEW r, NEW s, NEW e \in Nat, Begins(r, s, e), e # NoContest,
           NEW warmup \in Nat, NEW start \in Nat, NEW most \in Int
    PROVE  Rounds(r, warmup, start, e, most) = Rounds(s, warmup, start, e, most)
<1> DEFINE T == EligibleTargets(r, warmup, start, e, most)
           a == Ascending(T)
<1>1. T = EligibleTargets(s, warmup, start, e, most)
    BY SameTargets
<1>2. /\ r \in Seq(RowSet) /\ s \in Seq(RowSet) /\ Len(r) \in Nat
      /\ \A i \in 1..Len(r) : r[i] = s[i] /\ r[i] \in RowSet
    BY DEF Begins
<1>3. T \in SUBSET (1..Len(r)) /\ T \in SUBSET Nat /\ IsFiniteSet(T)
    BY <1>2, EligibleAre
<1>4. /\ Rounds(r, warmup, start, e, most) = [k \in DOMAIN a |-> Round(r, a[k])]
      /\ Rounds(s, warmup, start, e, most) = [k \in DOMAIN a |-> Round(s, a[k])]
    BY <1>1 DEF Rounds
<1> HIDE DEF T
<1>5. DOMAIN a = 1..Cardinality(T) /\ \A k \in 1..Cardinality(T) : a[k] \in T
    BY <1>3, AscendingOrder
<1> HIDE DEF a
<1>6. ASSUME NEW i \in T
      PROVE  Round(r, i) = Round(s, i)
    <2>1. i \in 1..Len(r) /\ i - 1 \in Int
        BY <1>3
    <2>2. \A j \in 1..(i - 1) : r[j] = s[j] /\ r[j] \in RowSet
        BY <1>2, <2>1
    <2>3. SubSeq(r, 1, i - 1) = SubSeq(s, 1, i - 1)
        BY <2>1, <2>2, SameSubSeq
    <2> QED
        BY <1>2, <2>1, <2>3 DEF Round, HistoryOf
<1> QED
    BY <1>4, <1>5, <1>6

\* What FirstAtLeast() finds.
LEMMA FirstAtLeastIs ==
    ASSUME NEW rows \in Seq(RowSet), NEW n \in Nat
    PROVE  LET f == FirstAtLeast(rows, n) IN
           /\ f \in 1..(Len(rows) + 1)
           /\ f <= Len(rows) => rows[f].number >= n
           /\ \A i \in 1..Len(rows) : i < f => rows[i].number < n
<1> DEFINE L == Len(rows)
           C == {i \in DOMAIN rows : rows[i].number >= n} \cup {L + 1}
           f == Min(C)
<1>1. L \in Nat /\ DOMAIN rows = 1..L
    BY LenProperties
<1>2. \A i \in 1..L : rows[i].number \in Nat
    <2> TAKE i \in 1..L
    <2>1. rows[i] \in RowSet
        BY ElementOfSeq
    <2> QED
        BY <2>1, NumbersOfRows
<1>3. C \in SUBSET (1..(L + 1)) /\ C \in SUBSET Nat /\ L + 1 \in C
    BY <1>1
<1>4. IsFiniteSet(C)
    <2>1. IsFiniteSet(1..(L + 1))
        BY <1>1, FS_Interval
    <2> QED
        BY <1>3, <2>1, FS_Subset
<1>5. \A i \in 1..L : rows[i].number >= n => i \in C
    BY <1>1
<1>6. \A i \in C : i <= L => rows[i].number >= n
    BY <1>1
<1> HIDE DEF C
<1>7. PICK m \in C : \A x \in C : m <= x
    BY <1>3, <1>4, LeastElement
<1>8. f \in C /\ \A x \in C : f <= x
    BY <1>7 DEF Min
<1> HIDE DEF f
<1>9. f \in 1..(L + 1) /\ (f <= L => rows[f].number >= n)
    BY <1>3, <1>6, <1>8
<1>10. ASSUME NEW i \in 1..L, i < f PROVE rows[i].number < n
    <2>1. i \notin C
        BY <1>3, <1>8, <1>10
    <2> QED
        BY <1>2, <1>5, <2>1
<1>11. FirstAtLeast(rows, n) = f
    BY DEF FirstAtLeast, f, C
<1> QED
    BY <1>9, <1>10, <1>11

\* The first row from a number on is found alike, or beyond what both have.
LEMMA SameFirst ==
    ASSUME NEW r, NEW s, NEW e \in Nat, Begins(r, s, e), NEW n \in Nat
    PROVE  \/ FirstAtLeast(r, n) = FirstAtLeast(s, n)
           \/ FirstAtLeast(r, n) > Len(r) /\ FirstAtLeast(s, n) > Len(r)
<1> DEFINE p == Len(r)
           f == FirstAtLeast(r, n)
           g == FirstAtLeast(s, n)
<1>1. /\ p \in Nat /\ Len(s) \in Nat /\ p <= Len(s)
      /\ r \in Seq(RowSet) /\ s \in Seq(RowSet)
      /\ \A i \in 1..p : r[i] = s[i] /\ r[i] \in RowSet
    BY DEF Begins
<1>2. f \in 1..(p + 1) /\ (f <= p => r[f].number >= n) /\ \A i \in 1..p : i < f => r[i].number < n
    BY <1>1, FirstAtLeastIs
<1>3. g \in 1..(Len(s) + 1) /\ (g <= Len(s) => s[g].number >= n)
      /\ \A i \in 1..Len(s) : i < g => s[i].number < n
    BY <1>1, FirstAtLeastIs
<1> HIDE DEF f, g, p
<1>4. \A i \in 1..p : r[i].number \in Nat /\ s[i].number = r[i].number
    <2>1. ASSUME NEW i \in 1..p
          PROVE  r[i].number \in Nat /\ s[i].number = r[i].number
        BY <1>1, NumbersOfRows
    <2> QED
        BY <2>1
<1>5. CASE f <= p
    <2>1. ~(g < f)
        <3> SUFFICES ASSUME g < f PROVE FALSE
            OBVIOUS
        <3>1. g \in 1..p /\ g <= Len(s)
            BY <1>1, <1>2, <1>3, <1>5
        <3> QED
            BY <1>2, <1>3, <1>4, <3>1
    <2>2. ~(f < g)
        <3> SUFFICES ASSUME f < g PROVE FALSE
            OBVIOUS
        <3>1. f \in 1..p /\ f \in 1..Len(s)
            BY <1>1, <1>2, <1>5
        <3> QED
            BY <1>2, <1>3, <1>4, <1>5, <3>1
    <2>3. f = g
        BY <1>2, <1>3, <2>1, <2>2
    <2> QED
        BY <2>3 DEF f, g
<1>6. CASE ~(f <= p)
    <2>1. f > p
        BY <1>1, <1>2, <1>6
    <2>2. ~(g <= p)
        <3> SUFFICES ASSUME g <= p PROVE FALSE
            OBVIOUS
        <3>1. g \in 1..p /\ g <= Len(s) /\ g < f
            BY <1>1, <1>2, <1>3, <2>1
        <3> QED
            BY <1>2, <1>3, <1>4, <3>1
    <2>3. g > p
        BY <1>1, <1>3, <2>2
    <2> QED
        BY <2>1, <2>3 DEF f, g, p
<1> QED
    BY <1>5, <1>6

\* The first row after the end is where the two part.
LEMMA FirstBeyond ==
    ASSUME NEW r, NEW s, NEW e \in Nat, Begins(r, s, e)
    PROVE  FirstAtLeast(r, e + 1) = Len(r) + 1 /\ FirstAtLeast(s, e + 1) = Len(r) + 1
<1> DEFINE p == Len(r)
           f == FirstAtLeast(r, e + 1)
           g == FirstAtLeast(s, e + 1)
<1>1. /\ p \in Nat /\ Len(s) \in Nat /\ p <= Len(s)
      /\ r \in Seq(RowSet) /\ s \in Seq(RowSet)
      /\ \A i \in 1..p : r[i] = s[i] /\ r[i] \in RowSet /\ s[i].number <= e
      /\ \A i \in 1..Len(s) : i > p => s[i].number > e
    BY DEF Begins
<1>2. f \in 1..(p + 1) /\ (f <= p => r[f].number >= e + 1)
    <2> DEFINE n == e + 1
    <2>1. n \in Nat
        OBVIOUS
    <2> HIDE DEF n
    <2>2. FirstAtLeast(r, n) \in 1..(p + 1) /\ (FirstAtLeast(r, n) <= p => r[FirstAtLeast(r, n)].number >= n)
        BY <1>1, <2>1, FirstAtLeastIs
    <2> QED
        BY <2>2 DEF n
<1>3. g \in 1..(Len(s) + 1) /\ (g <= Len(s) => s[g].number >= e + 1)
      /\ \A i \in 1..Len(s) : i < g => s[i].number < e + 1
    <2> DEFINE n == e + 1
               m == FirstAtLeast(s, n)
    <2>1. n \in Nat
        OBVIOUS
    <2> HIDE DEF n
    <2>2. /\ m \in 1..(Len(s) + 1) /\ (m <= Len(s) => s[m].number >= n)
          /\ \A i \in 1..Len(s) : i < m => s[i].number < n
        BY <1>1, <2>1, FirstAtLeastIs
    <2> QED
        BY <2>2 DEF n
<1>4. \A i \in 1..Len(s) : s[i].number \in Nat
    <2> TAKE i \in 1..Len(s)
    <2>1. s[i] \in RowSet
        BY <1>1, ElementOfSeq
    <2> QED
        BY <2>1, NumbersOfRows
<1> HIDE DEF f, g, p
<1>5. ~(f <= p) /\ ~(g <= p)
    <2>1. ASSUME f <= p PROVE FALSE
        <3>1. f \in 1..p /\ f \in 1..Len(s)
            BY <1>1, <1>2, <2>1
        <3> QED
            BY <1>1, <1>2, <1>4, <2>1, <3>1, SMTT(30)
    <2>2. ASSUME g <= p PROVE FALSE
        <3>1. g \in 1..p /\ g \in 1..Len(s)
            BY <1>1, <1>3, <2>2
        <3> QED
            BY <1>1, <1>3, <1>4, <2>2, <3>1
    <2> QED
        BY <2>1, <2>2
<1>6. f = p + 1
    BY <1>1, <1>2, <1>5
<1>7. ~(g > p + 1)
    <2> SUFFICES ASSUME g > p + 1 PROVE FALSE
        OBVIOUS
    <2>1. p + 1 \in 1..Len(s) /\ p + 1 > p
        BY <1>1, <1>3
    <2>2. s[p + 1].number > e /\ s[p + 1].number < e + 1
        BY <1>1, <1>3, <2>1
    <2> QED
        BY <1>4, <2>1, <2>2
<1>8. g = p + 1
    BY <1>1, <1>3, <1>5, <1>7
<1> QED
    BY <1>6, <1>8 DEF f, g, p

\* Where the training of the first fold ends, and where the period begins.
Trained(rows, warmup, window) ==
    (IF Len(rows) <= warmup + window THEN Len(rows) ELSE warmup + window) + 1
Entered(rows, start) == IF start = NoContest THEN 1 ELSE FirstAtLeast(rows, start)

\* The first tested row, without a choice.
LEMMA FirstTestedIs ==
    ASSUME NEW rows \in Seq(RowSet), NEW warmup \in Nat, NEW window \in Nat \ {0}, NEW start \in Nat
    PROVE  /\ Entered(rows, start) \in Nat \ {0} /\ Trained(rows, warmup, window) \in Nat \ {0}
           /\ FirstTested(rows, warmup, window, start) =
                 IF Trained(rows, warmup, window) >= Entered(rows, start)
                 THEN Trained(rows, warmup, window) ELSE Entered(rows, start)
<1> DEFINE L == Len(rows)
           y == warmup + window
           a == Min({L, y}) + 1
           b == Entered(rows, start)
<1>1. L \in Nat /\ y \in Nat
    BY LenProperties
<1>2. b \in Nat \ {0}
    BY <1>1, FirstAtLeastIs DEF Entered
<1>3. FirstTested(rows, warmup, window, start) = Max({a, b})
    BY DEF FirstTested, Entered
<1>4. a = Trained(rows, warmup, window) /\ a \in Nat \ {0}
    <2> HIDE DEF y, L, a
    <2>0. L \in Int /\ y \in Int
        BY <1>1
    <2>1. Min({L, y}) = IF L <= y THEN L ELSE y
        BY <2>0, MaxOfTwo
    <2> QED
        BY <1>1, <2>1 DEF Trained, y, L, a
<1> HIDE DEF a, b
<1>5. Max({a, b}) = IF a >= b THEN a ELSE b
    BY <1>2, <1>4, MaxOfTwo
<1> QED
    BY <1>2, <1>3, <1>4, <1>5 DEF b

\* The folds of a period are the same where the rows are.
LEMMA SameFolds ==
    ASSUME NEW r, NEW s, NEW e \in Nat, Begins(r, s, e), e # NoContest,
           NEW warmup \in Nat, NEW start \in Nat, NEW window \in Nat \ {0}, NEW block \in Nat \ {0}
    PROVE  Folds(r, warmup, window, block, start, e) = Folds(s, warmup, window, block, start, e)
<1> DEFINE p == Len(r)
           f == FirstTested(r, warmup, window, start)
           g == FirstTested(s, warmup, window, start)
<1>1. /\ p \in Nat /\ Len(s) \in Nat /\ p <= Len(s)
      /\ r \in Seq(RowSet) /\ s \in Seq(RowSet)
      /\ \A i \in 1..p : r[i] = s[i] /\ r[i] \in RowSet
    BY DEF Begins
<1>2. Beyond(r, e) = p + 1 /\ Beyond(s, e) = p + 1
    BY FirstBeyond DEF Beyond
<1>3. f \in Nat \ {0} /\ g \in Nat \ {0} /\ (f = g \/ (f > p /\ g > p))
    <2> DEFINE a(x) == Trained(x, warmup, window)
               b(x) == Entered(x, start)
    <2>1. f = (IF a(r) >= b(r) THEN a(r) ELSE b(r)) /\ b(r) \in Nat \ {0} /\ a(r) \in Nat \ {0}
        BY <1>1, FirstTestedIs
    <2>2. g = (IF a(s) >= b(s) THEN a(s) ELSE b(s)) /\ b(s) \in Nat \ {0} /\ a(s) \in Nat \ {0}
        BY <1>1, FirstTestedIs
    <2>3. b(r) = b(s) \/ (b(r) > p /\ b(s) > p)
        BY SameFirst DEF Entered
    <2>4. a(r) = a(s) \/ (a(r) > p /\ a(s) > p)
        BY <1>1 DEF Trained
    <2> HIDE DEF a, b, f, g, p
    <2> QED
        BY <1>1, <2>1, <2>2, <2>3, <2>4
<1>4. ASSUME NEW i \in Nat \ {0}, i <= p
      PROVE  Fold(r, warmup, window, block, p + 1, i) = Fold(s, warmup, window, block, p + 1, i)
    <2> DEFINE last == Min({p + 1, i + block}) - 1
    <2>1. last = (IF p + 1 <= i + block THEN p + 1 ELSE i + block) - 1
        <3>1. p + 1 \in Int /\ i + block \in Int
            BY <1>1
        <3> DEFINE x == p + 1
                   y == i + block
        <3> HIDE DEF x, y
        <3>2. Min({x, y}) = IF x <= y THEN x ELSE y
            BY <3>1, MaxOfTwo DEF x, y
        <3> QED
            BY <3>2 DEF x, y
    <2>2. last \in 1..p
        BY <1>1, <1>4, <2>1
    <2> HIDE DEF last
    <2>3. SubSeq(r, 1, last) = SubSeq(s, 1, last)
        <3>1. \A j \in 1..last : r[j] = s[j] /\ r[j] \in RowSet
            BY <1>1, <2>2
        <3> QED
            BY <2>2, <3>1, SameSubSeq
    <2>4. SubSeq(r, 1, i - 1) = SubSeq(s, 1, i - 1)
        <3>1. \A j \in 1..(i - 1) : r[j] = s[j] /\ r[j] \in RowSet
            BY <1>1, <1>4
        <3>2. i - 1 \in Int
            OBVIOUS
        <3> QED
            BY <3>1, <3>2, SameSubSeq
    <2>5. r[i] = s[i] /\ r[last] = s[last]
        BY <1>1, <1>4, <2>2
    <2> QED
        BY <2>3, <2>4, <2>5 DEF Fold, last
<1> DEFINE fr(i) == Fold(r, warmup, window, block, p + 1, i)
           fs(i) == Fold(s, warmup, window, block, p + 1, i)
           R == {j \in f..(p + 1 - 1) : (j - f) % block = 0}
           S == {j \in g..(p + 1 - 1) : (j - g) % block = 0}
<1>5. Folds(r, warmup, window, block, start, e) = {fr(i) : i \in {j \in R : fr(j).test # <<>>}}
    BY <1>2 DEF Folds
<1>6. Folds(s, warmup, window, block, start, e) = {fs(i) : i \in {j \in S : fs(j).test # <<>>}}
    BY <1>2 DEF Folds
<1> HIDE DEF f, g, p
<1>7. R = S
    <2>1. CASE f = g
        BY <2>1
    <2>2. CASE f > p /\ g > p
        <3>1. R = {} /\ S = {}
            BY <1>1, <1>3, <2>2
        <3> QED
            BY <3>1
    <2> QED
        BY <1>3, <2>1, <2>2
<1>8. \A i \in R : i \in Nat \ {0} /\ i <= p
    BY <1>1, <1>3
<1> HIDE DEF R, S
<1>9. \A i \in R : fr(i) = fs(i)
    BY <1>4, <1>8
<1> HIDE DEF fr, fs
<1> QED
    BY <1>5, <1>6, <1>7, <1>9

\* The last contest and the first of a request.
LEMMA PeriodType ==
    ASSUME NEW q \in RunAsks, NEW h \in Histories, DOMAIN h # {}
    PROVE  /\ EndOf(q, h) \in Nat /\ StartOf(q, EndOf(q, h)) \in Nat
           /\ q.warmup \in Nat /\ q.bucket \in Nat \ {0} /\ q.end \in Nat
           /\ q.end = NoContest => \A n \in DOMAIN h : n <= EndOf(q, h)
<1>1. /\ q.warmup \in Nat /\ q.bucket \in Nat \ {0} /\ q.end \in Nat /\ q.start \in Nat
      /\ q.lookback \in Nat
    BY HistoryAssumption DEF HistoryAssumption
<1> DEFINE S == DOMAIN h
           D == {LastContest - n : n \in S}
<1>2. S \in SUBSET (1..LastContest) /\ S \in SUBSET Nat /\ IsFiniteSet(S)
    BY HistoryIsFinite
<1> HIDE DEF S
<1>3. \E n \in S : \A m \in S : n >= m
    <2>1. Cardinality(S) \in Nat /\ Cardinality(S) # 0
        BY <1>2, FS_CardinalityType, FS_EmptySet DEF S
    <2>2. PICK n \in S : Rank(S, n) = Cardinality(S)
        BY <1>2, <2>1, RankIsOnto
    <2>3. ASSUME NEW m \in S, n < m
          PROVE  FALSE
        <3>1. m \in Nat /\ n \in Nat
            BY <1>2
        <3>2. Rank(S, n) < Rank(S, m) /\ Rank(S, m) \in 0..Cardinality(S)
            BY <1>2, <2>3, <3>1, RankGrows, RankType
        <3> QED
            BY <2>1, <2>2, <3>2
    <2>4. \A m \in S : m \in Nat /\ n \in Nat
        BY <1>2
    <2> QED
        BY <2>3, <2>4
<1>4. Max(S) \in S /\ \A m \in S : Max(S) >= m
    BY <1>3 DEF Max
<1>5. Newest(h) \in Nat /\ \A m \in S : m <= Newest(h)
    <2>1. Newest(h) = Max(S)
        BY DEF Newest, S
    <2>2. \A m \in S : m \in Nat
        BY <1>2
    <2> QED
        BY <1>4, <2>1, <2>2
<1>6. EndOf(q, h) \in Nat /\ (q.end = NoContest => EndOf(q, h) = Newest(h))
    BY <1>1, <1>5 DEF EndOf
<1> DEFINE e == EndOf(q, h)
<1> HIDE DEF e
<1>7. StartOf(q, e) \in Nat
    <2> DEFINE x == e - q.lookback + 1
    <2>1. x \in Int /\ 1 \in Int
        BY <1>1, <1>6 DEF e
    <2> HIDE DEF x
    <2>2. Max({1, x}) \in Nat
        BY <2>1, MaxOfTwo
    <2> QED
        BY <1>1, <2>2 DEF StartOf, x
<1> QED
    BY <1>1, <1>5, <1>6, <1>7 DEF e, S

\* A result is what its signature says: the same computed from the signed rows.
LEMMA ResultIsSigned ==
    ASSUME NEW q \in RunAsks, NEW h \in Histories, DOMAIN h # {}
    PROVE  LET e == EndOf(q, h)
               g == Signature(h, e)
           IN Result(q, h) = Outcome(q, Rows(g), e, g)
<1> DEFINE e == EndOf(q, h)
           g == Signature(h, e)
           r == Rows(g)
           s == Rows(h)
           start == StartOf(q, e)
<1>1. /\ e \in Nat /\ start \in Nat /\ q.warmup \in Nat /\ q.bucket \in Nat \ {0}
      /\ q.end = NoContest => \A n \in DOMAIN h : n <= e
    BY PeriodType
<1>2. Result(q, h) = Outcome(q, s, e, g)
    BY DEF Result
<1>3. CASE q.end = NoContest
    <2>1. DOMAIN h \in SUBSET Nat
        BY HistoryIsFinite
    <2>2. UpTo(DOMAIN h, e) = DOMAIN h
        BY <1>1, <1>3 DEF UpTo
    <2>3. g = [n \in DOMAIN h |-> h[n]]
        BY <2>2 DEF Signature, UpTo
    <2>4. h = [n \in DOMAIN h |-> h[n]]
        BY DEF Histories
    <2>5. r = s
        BY <2>3, <2>4
    <2> QED
        BY <1>2, <2>5
<1>4. CASE q.end # NoContest
    <2>1. e = q.end /\ e # NoContest
        BY <1>4 DEF EndOf
    <2>2. Begins(r, s, e)
        BY <1>1, SignatureRows
    <2> HIDE DEF r, s, g, e, start
    <2>3. \A most \in Int : Rounds(r, q.warmup, start, e, most) = Rounds(s, q.warmup, start, e, most)
        BY <1>1, <2>1, <2>2, SameRounds
    <2>4. (IF IsLab(q) THEN e ELSE q.end) = e
        BY <2>1
    <2>5. ControlRounds(r, q.warmup, start, e) = ControlRounds(s, q.warmup, start, e)
        <3>1. Rounds(r, q.warmup, start, e, 0) = Rounds(s, q.warmup, start, e, 0)
            BY <2>3
        <3> QED
            BY <3>1 DEF ControlRounds
    <2>6. QualityRounds(r, q.warmup, start, e) = QualityRounds(s, q.warmup, start, e)
        <3>1. QualityCap \in Int
            BY HistoryAssumption DEF HistoryAssumption
        <3> QED
            BY <2>3, <3>1 DEF QualityRounds
    <2>7. Folds(r, q.warmup, 1, q.bucket, start, e) = Folds(s, q.warmup, 1, q.bucket, start, e)
        <3>1. 1 \in Nat \ {0}
            OBVIOUS
        <3> QED
            BY <1>1, <2>1, <2>2, <3>1, SameFolds
    <2>8. LabParts(q, r, e) = LabParts(q, s, e)
        BY <2>5, <2>6, <2>7 DEF LabParts, start
    <2>9. Rounds(r, q.warmup, start, e, 0) = Rounds(s, q.warmup, start, e, 0)
        BY <2>3
    <2>10. Outcome(q, r, e, g) = Outcome(q, s, e, g)
        BY <2>4, <2>8, <2>9 DEF Outcome, start
    <2> QED
        BY <1>2, <2>10 DEF r, s, g, e
<1> QED
    BY <1>3, <1>4

-----------------------------------------------------------------------------
(* Buckets                                                                 *)

\* What is counted of a round.
Counted(f, target) ==
    CASE f = "tested" -> TRUE
      [] f = "priced" -> target.number >= PricedFrom
      [] f = "financial" -> target.number >= PricedFrom /\ target.version = 1

Figures == {"tested", "priced", "financial"}
CountedIn(f, rounds) == {k \in 1..Len(rounds) : Counted(f, rounds[k].target)}

\* Every figure of a summary is the size of a set of rounds.
LEMMA SummaryCounts ==
    ASSUME NEW X, NEW rounds \in Seq(X), NEW f \in Figures
    PROVE  /\ Summarize(rounds)[f] = Cardinality(CountedIn(f, rounds))
           /\ CountedIn(f, rounds) \in SUBSET Nat /\ IsFiniteSet(CountedIn(f, rounds))
<1>1. Len(rounds) \in Nat /\ DOMAIN rounds = 1..Len(rounds)
    BY LenProperties
<1>2. CountedIn(f, rounds) \in SUBSET (1..Len(rounds))
    BY DEF CountedIn
<1>3. IsFiniteSet(1..Len(rounds)) /\ Cardinality(1..Len(rounds)) = Len(rounds)
    BY <1>1, FirstNumbers
<1>4. CountedIn(f, rounds) \in SUBSET Nat /\ IsFiniteSet(CountedIn(f, rounds))
    BY <1>1, <1>2, <1>3, FS_Subset
<1>5. CASE f = "tested"
    <2>1. CountedIn(f, rounds) = 1..Len(rounds)
        BY <1>5 DEF CountedIn, Counted
    <2>2. Summarize(rounds)[f] = Len(rounds)
        BY <1>5 DEF Summarize
    <2> QED
        BY <1>3, <1>4, <2>1, <2>2
<1>6. CASE f = "priced"
    <2>1. CountedIn(f, rounds) = {k \in DOMAIN rounds : rounds[k].target.number >= PricedFrom}
        BY <1>1, <1>6 DEF CountedIn, Counted
    <2>2. Summarize(rounds)[f] = Cardinality({k \in DOMAIN rounds : rounds[k].target.number >= PricedFrom})
        BY <1>6 DEF Summarize
    <2> QED
        BY <1>4, <2>1, <2>2
<1>7. CASE f = "financial"
    <2>1. CountedIn(f, rounds) = {k \in DOMAIN rounds :
              rounds[k].target.number >= PricedFrom /\ rounds[k].target.version = 1}
        BY <1>1, <1>7 DEF CountedIn, Counted
    <2>2. Summarize(rounds)[f] = Cardinality({k \in DOMAIN rounds :
              rounds[k].target.number >= PricedFrom /\ rounds[k].target.version = 1})
        BY <1>7 DEF Summarize
    <2> QED
        BY <1>4, <2>1, <2>2
<1> QED
    BY <1>5, <1>6, <1>7 DEF Figures

\* The members of a set between two numbers are counted by two ranks.
LEMMA ShiftCount ==
    ASSUME NEW G \in SUBSET Nat, IsFiniteSet(G), NEW a \in Nat, NEW b \in Nat, a <= b
    PROVE  Cardinality({k \in 1..(b - a) : a + k \in G}) = Rank(G, b) - Rank(G, a)
<1> DEFINE X == {k \in 1..(b - a) : a + k \in G}
           Y == {j \in G : a < j /\ j <= b}
           g == [k \in X |-> a + k]
<1>1. IsFiniteSet(X)
    <2>1. IsFiniteSet(1..(b - a))
        BY FS_Interval
    <2> QED
        BY <2>1, FS_Subset
<1>2. g \in Bijection(X, Y)
    <2>1. \A k \in X : a + k \in Y
        OBVIOUS
    <2>2. \A k, m \in X : a + k = a + m => k = m
        OBVIOUS
    <2>3. \A j \in Y : j - a \in X /\ a + (j - a) = j
        OBVIOUS
    <2>4. \A k \in X : g[k] = a + k
        OBVIOUS
    <2>5. g \in [X -> Y]
        BY <2>1
    <2> HIDE DEF X, Y, g
    <2>6. g \in Injection(X, Y)
        BY <2>2, <2>4, <2>5 DEF Injection, IsInjective
    <2>7. g \in Surjection(X, Y)
        BY <2>3, <2>4, <2>5 DEF Surjection
    <2> QED
        BY <2>6, <2>7 DEF Bijection
<1>3. Cardinality(Y) = Cardinality(X) /\ IsFiniteSet(Y)
    <2> HIDE DEF X, Y, g
    <2> QED
        BY <1>1, <1>2, FS_Bijection DEF ExistsBijection
<1>4. \A j \in G : j \in Nat
    OBVIOUS
<1>5. UpTo(G, b) = UpTo(G, a) \cup Y /\ UpTo(G, a) \cap Y = {}
    <2> HIDE DEF X, g
    <2>1. \A j \in G : /\ j \in UpTo(G, b) <=> j <= b
                       /\ j \in UpTo(G, a) <=> j <= a
                       /\ j \in Y <=> a < j /\ j <= b
        BY DEF UpTo
    <2>2. UpTo(G, a) \subseteq G /\ UpTo(G, b) \subseteq G /\ Y \subseteq G
        BY DEF UpTo
    <2> HIDE DEF Y
    <2>3. \A j \in G : (j <= b <=> j <= a \/ (a < j /\ j <= b)) /\ ~(j <= a /\ a < j)
        BY <1>4
    <2> QED
        BY <2>1, <2>2, <2>3
<1> HIDE DEF X, Y, g
<1>6. /\ IsFiniteSet(UpTo(G, a)) /\ Rank(G, a) \in Nat
    <2>1. /\ IsFiniteSet(UpTo(G, a)) /\ Rank(G, a) \in 0..Cardinality(G)
          /\ Cardinality(G) \in Nat
        BY RankType
    <2> QED
        BY <2>1
<1>7. Rank(G, b) = Rank(G, a) + Cardinality(Y) - Cardinality({})
    BY <1>3, <1>5, <1>6, FS_Union DEF Rank
<1>8. Cardinality({}) = 0 /\ Cardinality(Y) \in Nat
    BY <1>3, FS_EmptySet, FS_CardinalityType
<1>9. Cardinality(X) = Rank(G, b) - Rank(G, a)
    BY <1>3, <1>6, <1>7, <1>8
<1> QED
    BY <1>9 DEF X

\* Where a bucket ends.
EndOfBucket(b, size, n) == IF b * size <= n THEN b * size ELSE n

\* The buckets tile the rounds: each begins where the one before ends, the last at the end.
LEMMA BucketsAre ==
    ASSUME NEW n \in Nat, NEW size \in Nat \ {0}
    PROVE  LET B == (n + size - 1) \div size IN
           /\ B \in Nat
           /\ EndOfBucket(0, size, n) = 0 /\ EndOfBucket(B, size, n) = n
           /\ \A b \in 1..B : /\ EndOfBucket(b - 1, size, n) = (b - 1) * size
                              /\ (b - 1) * size \in Nat /\ b * size \in Nat
                              /\ (b - 1) * size < n /\ (b - 1) * size < b * size
                              /\ EndOfBucket(b, size, n) \in Nat
                              /\ EndOfBucket(b - 1, size, n) < EndOfBucket(b, size, n)
                              /\ EndOfBucket(b, size, n) <= n
<1> DEFINE B == (n + size - 1) \div size
           r == (n + size - 1) % size
<1>1. B \in Nat /\ r \in 0..(size - 1) /\ n + size - 1 = B * size + r
    OBVIOUS
<1> HIDE DEF B, r
<1>2. B * size >= n /\ B * size < n + size
    BY <1>1
<1>3. EndOfBucket(0, size, n) = 0 /\ EndOfBucket(B, size, n) = n
    BY <1>1, <1>2 DEF EndOfBucket
<1>4. ASSUME NEW b \in 1..B
      PROVE  /\ (b - 1) * size \in Nat /\ b * size \in Nat
             /\ (b - 1) * size < n /\ (b - 1) * size < b * size
    <2>1. b - 1 \in Nat /\ B - 1 \in Nat /\ b - 1 <= B - 1 /\ b \in Nat
        BY <1>1
    <2>2. (b - 1) * size <= (B - 1) * size
        BY <2>1
    <2>3. (B - 1) * size = B * size - size /\ (b - 1) * size = b * size - size
        BY <1>1, <2>1
    <2>4. (b - 1) * size \in Nat /\ b * size \in Nat /\ B * size \in Nat
        BY <1>1, <2>1
    <2> QED
        BY <1>2, <2>2, <2>3, <2>4
<1>5. ASSUME NEW b \in 1..B
      PROVE  /\ EndOfBucket(b - 1, size, n) = (b - 1) * size
             /\ EndOfBucket(b, size, n) \in Nat
             /\ EndOfBucket(b - 1, size, n) < EndOfBucket(b, size, n)
             /\ EndOfBucket(b, size, n) <= n
    BY <1>4 DEF EndOfBucket
<1> QED
    BY <1>1, <1>3, <1>4, <1>5 DEF B

\* The figure of a bucket is a difference of two ranks.
LEMMA BucketCounts ==
    ASSUME NEW X, NEW rounds \in Seq(X), NEW size \in Nat \ {0}, NEW f \in Figures
    PROVE  LET n == Len(rounds)
               B == (n + size - 1) \div size
               series == Buckets(rounds, size)
               G == CountedIn(f, rounds)
           IN /\ DOMAIN series = 1..B /\ Len(series) = B
              /\ \A b \in 1..B : series[b][f] = Rank(G, EndOfBucket(b, size, n))
                                                - Rank(G, EndOfBucket(b - 1, size, n))
<1> DEFINE n == Len(rounds)
           B == (n + size - 1) \div size
           series == Buckets(rounds, size)
           G == CountedIn(f, rounds)
           piece(b) == SubSeq(rounds, (b - 1) * size + 1, Min({b * size, n}))
<1>1. n \in Nat
    BY LenProperties
<1>2. /\ B \in Nat
      /\ \A b \in 1..B : /\ EndOfBucket(b - 1, size, n) = (b - 1) * size
                         /\ (b - 1) * size \in Nat /\ b * size \in Nat
                         /\ EndOfBucket(b, size, n) \in Nat
                         /\ EndOfBucket(b - 1, size, n) < EndOfBucket(b, size, n)
                         /\ EndOfBucket(b, size, n) <= n
    <2> HIDE DEF n
    <2> QED
        BY <1>1, BucketsAre
<1>3. series = [b \in 1..B |-> Summarize(piece(b))]
    BY DEF Buckets
<1>4. G \in SUBSET Nat /\ IsFiniteSet(G) /\ G = {k \in 1..n : Counted(f, rounds[k].target)}
    BY SummaryCounts DEF CountedIn
<1>5. ASSUME NEW b \in 1..B
      PROVE  Summarize(piece(b))[f] = Rank(G, EndOfBucket(b, size, n))
                                      - Rank(G, EndOfBucket(b - 1, size, n))
    <2> DEFINE lo == (b - 1) * size
               hi == EndOfBucket(b, size, n)
    <2>1. /\ EndOfBucket(b - 1, size, n) = lo /\ lo \in Nat /\ b * size \in Nat
          /\ hi \in Nat /\ lo < hi /\ hi <= n
        <3> HIDE DEF B, n
        <3> QED
            BY <1>2
    <2>2. Min({b * size, n}) = hi
        <3> DEFINE x == b * size
        <3>1. x \in Int /\ n \in Int
            BY <1>1, <2>1
        <3> HIDE DEF x, n
        <3>2. Min({x, n}) = IF x <= n THEN x ELSE n
            BY <3>1, MaxOfTwo
        <3> QED
            BY <3>2 DEF x, EndOfBucket
    <2>3. piece(b) = SubSeq(rounds, lo + 1, hi)
        BY <2>2
    <2> HIDE DEF lo, hi, piece, n
    <2> DEFINE p == SubSeq(rounds, lo + 1, hi)
    <2>4. \A i \in (lo + 1)..hi : rounds[i] \in X
        <3>1. \A i \in (lo + 1)..hi : i \in 1..Len(rounds)
            BY <1>1, <2>1 DEF n
        <3> QED
            BY <3>1, ElementOfSeq
    <2>5. /\ p \in Seq(X) /\ Len(p) = hi - lo
          /\ \A k \in 1..(hi - lo) : p[k] = rounds[lo + k]
        <3>1. lo + 1 \in Int /\ hi \in Int
            BY <2>1
        <3>2. /\ p \in Seq(X) /\ Len(p) = IF lo + 1 <= hi THEN hi - (lo + 1) + 1 ELSE 0
              /\ \A k \in 1..(hi - (lo + 1) + 1) : p[k] = rounds[(lo + 1) + k - 1]
            BY <2>4, <3>1, SubSeqProperties, SMTT(30)
        <3>3. hi - (lo + 1) + 1 = hi - lo /\ lo + 1 <= hi
            BY <2>1
        <3>4. \A k \in 1..(hi - lo) : (lo + 1) + k - 1 = lo + k
            BY <2>1
        <3> QED
            BY <3>2, <3>3, <3>4
    <2> HIDE DEF p
    <2>6. Summarize(p)[f] = Cardinality({k \in 1..(hi - lo) : Counted(f, p[k].target)})
        BY <2>5, SummaryCounts DEF CountedIn
    <2>7. \A k \in 1..(hi - lo) : Counted(f, p[k].target) <=> lo + k \in G
        <3>1. \A k \in 1..(hi - lo) : lo + k \in 1..n
            BY <1>1, <2>1
        <3> QED
            BY <1>4, <2>5, <3>1
    <2> HIDE DEF G
    <2>8. {k \in 1..(hi - lo) : Counted(f, p[k].target)} = {k \in 1..(hi - lo) : lo + k \in G}
        BY <2>7
    <2>9. Cardinality({k \in 1..(hi - lo) : lo + k \in G}) = Rank(G, hi) - Rank(G, lo)
        <3>1. G \in SUBSET Nat /\ IsFiniteSet(G)
            BY <1>4
        <3>2. lo \in Nat /\ hi \in Nat /\ lo <= hi
            BY <2>1
        <3> QED
            BY <3>1, <3>2, ShiftCount
    <2> QED
        BY <2>1, <2>3, <2>6, <2>8, <2>9 DEF hi, p
<1>6. Len(series) = B
    <2> DEFINE S == {Summarize(piece(b)) : b \in 1..B}
    <2> HIDE DEF piece, series, B
    <2>1. series \in [1..B -> S]
        BY <1>3
    <2> HIDE DEF S
    <2> QED
        BY <1>2, <2>1
<1> HIDE DEF piece, series
<1> QED
    BY <1>3, <1>5, <1>6 DEF series

\* The buckets add up.
LEMMA SeriesTotal ==
    ASSUME NEW X, NEW rounds \in Seq(X), NEW size \in Nat \ {0}, NEW f \in Figures
    PROVE  LET series == Buckets(rounds, size)
           IN SumTo([b \in DOMAIN series |-> series[b][f]], Len(series)) = Summarize(rounds)[f]
<1> DEFINE n == Len(rounds)
           B == (n + size - 1) \div size
           series == Buckets(rounds, size)
           G == CountedIn(f, rounds)
           at(b) == Rank(G, EndOfBucket(b, size, n))
           value == [b \in DOMAIN series |-> series[b][f]]
<1>1. n \in Nat
    BY LenProperties
<1>2. /\ B \in Nat /\ EndOfBucket(0, size, n) = 0 /\ EndOfBucket(B, size, n) = n
      /\ \A b \in 1..B : EndOfBucket(b, size, n) \in Nat
    BY <1>1, BucketsAre
<1>3. /\ DOMAIN series = 1..B /\ Len(series) = B
      /\ \A b \in 1..B : series[b][f] = at(b) - at(b - 1)
    BY BucketCounts
<1>4. G \in SUBSET Nat /\ IsFiniteSet(G) /\ Summarize(rounds)[f] = Cardinality(G)
      /\ G = {k \in 1..n : Counted(f, rounds[k].target)}
    BY SummaryCounts DEF CountedIn
<1> HIDE DEF B, series, G, n
<1>5. at(0) = 0
    <2>1. UpTo(G, 0) = {}
        BY <1>1, <1>4 DEF UpTo
    <2> QED
        BY <1>2, <2>1, FS_EmptySet DEF Rank
<1>6. at(B) = Cardinality(G)
    <2>1. UpTo(G, n) = G
        BY <1>1, <1>4 DEF UpTo
    <2> QED
        BY <1>2, <2>1 DEF Rank
<1>7. \A b \in 0..B : at(b) \in Int
    <2> TAKE b \in 0..B
    <2>1. EndOfBucket(b, size, n) \in Nat
        <3>1. b = 0 \/ b \in 1..B
            BY <1>2
        <3> QED
            BY <1>2, <3>1
    <2> QED
        BY <1>4, <2>1, RankType
<1> HIDE DEF at
<1>8. value = [b \in 1..B |-> series[b][f]] /\ \A b \in 1..B : value[b] = at(b) - at(b - 1)
    BY <1>3
<1>9. value \in [1..B -> Int]
    <2>1. \A b \in 1..B : b \in 0..B /\ b - 1 \in 0..B
        BY <1>2
    <2>2. \A b \in 1..B : value[b] \in Int
        BY <1>7, <1>8, <2>1
    <2> HIDE DEF value
    <2>3. value = [b \in 1..B |-> value[b]]
        BY <1>8
    <2> QED
        BY <2>2, <2>3
<1> HIDE DEF value
<1>10. PICK u \in [0..B -> Int] :
         u[0] = 0 /\ (\A k \in 1..B : u[k] = u[k - 1] + value[k]) /\ SumTo(value, B) = u[B]
    BY <1>2, <1>9, TotalIsSum
<1> DEFINE Told == {k \in 0..B : u[k] = at(k)}
<1>11. 0 \in Told
    BY <1>2, <1>5, <1>10
<1>12. \A k \in 0..(B - 1) : k \in Told => k + 1 \in Told
    <2> SUFFICES ASSUME NEW k \in 0..(B - 1), k \in Told PROVE k + 1 \in Told
        OBVIOUS
    <2> DEFINE m == k + 1
    <2>1. m \in 1..B /\ m - 1 = k /\ k \in 0..B /\ m \in 0..B
        BY <1>2
    <2> HIDE DEF m
    <2>2. u[m] = u[m - 1] + value[m] /\ value[m] = at(m) - at(m - 1)
        BY <1>8, <1>10, <2>1
    <2>3. u[k] = at(k) /\ at(k) \in Int /\ at(m) \in Int
        BY <1>7, <2>1
    <2>4. u[m] = at(m)
        BY <2>1, <2>2, <2>3
    <2> QED
        BY <2>1, <2>4 DEF m
<1>13. u[B] = at(B)
    <2> HIDE DEF Told
    <2>1. \A k \in 0..B : k \in Told
        BY <1>2, <1>11, <1>12, UpToByInduction
    <2>2. B \in Told
        BY <1>2, <2>1
    <2> QED
        BY <2>2 DEF Told
<1> QED
    BY <1>3, <1>4, <1>6, <1>10, <1>13 DEF value, series

-----------------------------------------------------------------------------
(* The sample of the ranking quality                                       *)

\* A sequence that agrees with the end of another is a suffix of it.
LEMMA SuffixBy ==
    ASSUME NEW X, NEW s \in Seq(X), NEW t \in Seq(X), Len(s) <= Len(t),
           \A k \in 1..Len(s) : s[k] = t[k + (Len(t) - Len(s))]
    PROVE  IsSuffix(s, t)
<1> DEFINE m == Len(s)
           n == Len(t)
           x == Reverse(s)
           y == Reverse(t)
<1>1. m \in Nat /\ n \in Nat /\ m <= n
    BY LenProperties
<1>2. /\ x = [i \in 1..m |-> s[(m - i) + 1]]
      /\ y = [i \in 1..n |-> t[(n - i) + 1]]
    BY DEF Reverse
<1>3. \A i \in 1..m : (m - i) + 1 \in 1..m /\ s[(m - i) + 1] \in X
    <2>1. \A i \in 1..m : (m - i) + 1 \in 1..m
        BY <1>1
    <2> QED
        BY <2>1, ElementOfSeq
<1>4. \A i \in 1..n : (n - i) + 1 \in 1..n /\ t[(n - i) + 1] \in X
    <2>1. \A i \in 1..n : (n - i) + 1 \in 1..n
        BY <1>1
    <2> QED
        BY <2>1, ElementOfSeq
<1> HIDE DEF x, y, m, n
<1>5. x \in Seq(X) /\ Len(x) = m /\ y \in Seq(X) /\ Len(y) = n
    BY <1>1, <1>2, <1>3, <1>4
<1>6. \A i \in 1..m : x[i] = y[i] /\ x[i] \in X
    <2> TAKE i \in 1..m
    <2> DEFINE k == (m - i) + 1
    <2>1. k \in 1..m /\ k + (n - m) = (n - i) + 1 /\ i \in 1..n
        BY <1>1
    <2>2. x[i] = s[k] /\ y[i] = t[k + (n - m)]
        BY <1>2, <2>1
    <2> HIDE DEF k
    <2>3. s[k] = t[k + (n - m)]
        BY <2>1 DEF m, n
    <2> QED
        BY <1>2, <1>3, <2>2, <2>3
<1>7. SubSeq(x, 1, m) = SubSeq(y, 1, m)
    BY <1>1, <1>6, SameSubSeq
<1> QED
    BY <1>1, <1>5, <1>7 DEF IsSuffix, IsPrefix, x, y

\* The upper part of a set is the end of its ascending order.
LEMMA UpperAscending ==
    ASSUME NEW T \in SUBSET Nat, IsFiniteSet(T), NEW U \in SUBSET T,
           \A i \in U, j \in T : j >= i => j \in U
    PROVE  LET d == Cardinality(T) - Cardinality(U) IN
           /\ Cardinality(U) \in Nat /\ Cardinality(T) \in Nat /\ Cardinality(U) <= Cardinality(T)
           /\ \A k \in 1..Cardinality(U) : Ascending(U)[k] = Ascending(T)[k + d]
<1> DEFINE c == Cardinality(U)
           n == Cardinality(T)
           W == T \ U
<1>1. IsFiniteSet(U) /\ IsFiniteSet(W) /\ U \in SUBSET Nat /\ c <= n
    BY FS_Subset
<1>2. c \in Nat /\ n \in Nat /\ Cardinality(W) \in Nat
    BY <1>1, FS_CardinalityType
<1>3. Cardinality(W) = n - c
    <2>1. T = U \cup W /\ U \cap W = {}
        OBVIOUS
    <2>2. Cardinality(U \cup W) = Cardinality(U) + Cardinality(W) - Cardinality({})
        BY <1>1, <2>1, FS_Union
    <2>3. Cardinality({}) = 0
        BY FS_EmptySet
    <2> QED
        BY <1>2, <2>1, <2>2, <2>3
<1>4. ASSUME NEW k \in 1..c
      PROVE  Ascending(U)[k] = Ascending(T)[k + (n - c)]
    <2> DEFINE a == Ascending(U)[k]
    <2>1. a \in U /\ Rank(U, a) = k
        BY <1>1, AscendingOrder
    <2> HIDE DEF a
    <2>2. a \in Nat /\ a \in T
        BY <1>1, <2>1
    <2>3. UpTo(T, a) = UpTo(U, a) \cup W /\ UpTo(U, a) \cap W = {}
        <3>1. \A m \in T : m \in Nat
            OBVIOUS
        <3>2. \A m \in W : m <= a
            BY <2>1, <2>2, <3>1
        <3> QED
            BY <3>2 DEF UpTo
    <2>4. IsFiniteSet(UpTo(U, a))
        BY <1>1, <2>2, RankType
    <2> HIDE DEF W
    <2>5. Cardinality(UpTo(U, a) \cup W) = Cardinality(UpTo(U, a)) + Cardinality(W) - Cardinality({})
        BY <1>1, <2>3, <2>4, FS_Union
    <2>6. Rank(T, a) = k + (n - c)
        <3>1. Cardinality({}) = 0 /\ k \in Nat
            BY <1>2, FS_EmptySet
        <3> HIDE DEF c, n
        <3> QED
            BY <1>2, <1>3, <2>1, <2>3, <2>5, <3>1 DEF Rank
    <2>7. Ascending(T)[Rank(T, a)] = a
        BY <2>2, AscendingOrder
    <2> QED
        BY <2>6, <2>7 DEF a
<1> QED
    BY <1>1, <1>2, <1>4

\* The latest targets are the upper part of all.
LEMMA LatestTargets ==
    ASSUME NEW rows \in Seq(RowSet), NEW warmup \in Nat, NEW start \in Nat, NEW end \in Nat,
           NEW most \in Nat
    PROVE  LET T == EligibleTargets(rows, warmup, start, end, 0)
               U == EligibleTargets(rows, warmup, start, end, most)
           IN U \in SUBSET T /\ \A i \in U, j \in T : j >= i => j \in U
<1> DEFINE T == EligibleTargets(rows, warmup, start, end, 0)
           U == EligibleTargets(rows, warmup, start, end, most)
<1>1. T \in SUBSET Nat /\ IsFiniteSet(T)
    BY EligibleAre
<1>2. U = IF most <= 0 THEN T ELSE {i \in T : Cardinality({j \in T : j >= i}) <= most}
    BY DEF EligibleTargets
<1> HIDE DEF T, U
<1>3. ASSUME NEW i \in U, NEW j \in T, j >= i, most > 0
      PROVE  j \in U
    <2> DEFINE I == {x \in T : x >= i}
               J == {x \in T : x >= j}
    <2>1. i \in T /\ i \in Nat /\ j \in Nat /\ Cardinality(I) <= most
        BY <1>1, <1>2, <1>3
    <2>2. \A x \in T : x \in Nat
        BY <1>1
    <2>3. J \in SUBSET I /\ I \in SUBSET T
        <3>1. \A x \in T : x >= j => x >= i
            BY <1>3, <2>1, <2>2
        <3> QED
            BY <3>1
    <2> HIDE DEF I, J
    <2>4. IsFiniteSet(I)
        BY <1>1, <2>3, FS_Subset
    <2>5. Cardinality(J) <= Cardinality(I) /\ IsFiniteSet(J)
        BY <2>3, <2>4, FS_Subset
    <2>6. Cardinality(J) \in Nat /\ Cardinality(I) \in Nat
        BY <2>4, <2>5, FS_CardinalityType
    <2>7. Cardinality(J) <= most
        BY <2>1, <2>5, <2>6
    <2> QED
        BY <1>2, <1>3, <2>7 DEF J
<1>4. U \in SUBSET T
    BY <1>2
<1>5. CASE most <= 0
    BY <1>2, <1>5
<1>6. CASE ~(most <= 0)
    <2>1. most > 0
        BY <1>6
    <2>2. \A i \in U, j \in T : j >= i => j \in U
        BY <1>3, <2>1
    <2> QED
        BY <1>4, <2>2 DEF T, U
<1> QED
    BY <1>4, <1>5, <1>6 DEF T, U

\* The rounds of the ranking quality are the last of the rounds.
LEMMA QualityIsSuffix ==
    ASSUME NEW rows \in Seq(RowSet), NEW warmup \in Nat, NEW start \in Nat, NEW end \in Nat,
           NEW most \in Nat
    PROVE  LET quality == Rounds(rows, warmup, start, end, most)
               rounds == Rounds(rows, warmup, start, end, 0)
           IN IsSuffix([k \in DOMAIN quality |-> quality[k].target],
                       [k \in DOMAIN rounds |-> rounds[k].target])
<1> DEFINE T == EligibleTargets(rows, warmup, start, end, 0)
           U == EligibleTargets(rows, warmup, start, end, most)
           c == Cardinality(U)
           n == Cardinality(T)
           quality == Rounds(rows, warmup, start, end, most)
           rounds == Rounds(rows, warmup, start, end, 0)
           s == [k \in DOMAIN quality |-> quality[k].target]
           t == [k \in DOMAIN rounds |-> rounds[k].target]
<1>1. T \in SUBSET Nat /\ IsFiniteSet(T)
    BY EligibleAre
<1>2. U \in SUBSET T /\ \A i \in U, j \in T : j >= i => j \in U
    BY LatestTargets
<1>ofU. RoundsOf(rows, U, quality)
    BY RoundsAre
<1>ofT. RoundsOf(rows, T, rounds)
    <2>1. 0 \in Int
        OBVIOUS
    <2> QED
        BY <2>1, RoundsAre
<1> HIDE DEF T, U, quality, rounds
<1>3. /\ DOMAIN quality = 1..c
      /\ \A k \in 1..c : quality[k] = Round(rows, Ascending(U)[k]) /\ Ascending(U)[k] \in 1..Len(rows)
    BY <1>ofU DEF RoundsOf
<1>4. /\ DOMAIN rounds = 1..n
      /\ \A k \in 1..n : rounds[k] = Round(rows, Ascending(T)[k]) /\ Ascending(T)[k] \in 1..Len(rows)
    BY <1>ofT DEF RoundsOf
<1>5. /\ c \in Nat /\ n \in Nat /\ c <= n
      /\ \A k \in 1..c : Ascending(U)[k] = Ascending(T)[k + (n - c)]
    BY <1>1, <1>2, UpperAscending
<1> HIDE DEF c, n
<1>6. \A i \in 1..Len(rows) : rows[i] \in RowSet
    BY ElementOfSeq
<1>7. s = [k \in 1..c |-> s[k]] /\ \A k \in 1..c : s[k] = rows[Ascending(U)[k]]
    BY <1>3 DEF Round
<1>8. t = [k \in 1..n |-> t[k]] /\ \A k \in 1..n : t[k] = rows[Ascending(T)[k]]
    BY <1>4 DEF Round
<1> HIDE DEF s, t
<1>9. s \in Seq(RowSet) /\ Len(s) = c
    <2>1. \A k \in 1..c : s[k] \in RowSet
        BY <1>3, <1>6, <1>7
    <2>2. s \in [1..c -> RowSet]
        BY <1>7, <2>1
    <2> QED
        BY <1>5, <2>2
<1>10. t \in Seq(RowSet) /\ Len(t) = n
    <2>1. \A k \in 1..n : t[k] \in RowSet
        BY <1>4, <1>6, <1>8
    <2>2. t \in [1..n -> RowSet]
        BY <1>8, <2>1
    <2> QED
        BY <1>5, <2>2
<1>11. \A k \in 1..Len(s) : s[k] = t[k + (Len(t) - Len(s))]
    <2> SUFFICES ASSUME NEW k \in 1..c PROVE s[k] = t[k + (n - c)]
        BY <1>9, <1>10
    <2> DEFINE m == k + (n - c)
    <2>1. m \in 1..n
        BY <1>5
    <2>2. Ascending(U)[k] = Ascending(T)[m]
        BY <1>5
    <2> HIDE DEF m
    <2>3. s[k] = t[m]
        BY <1>7, <1>8, <2>1, <2>2
    <2> QED
        BY <2>3 DEF m
<1>12. IsSuffix(s, t)
    BY <1>5, <1>9, <1>10, <1>11, SuffixBy
<1> QED
    BY <1>12 DEF s, t, quality, rounds

-----------------------------------------------------------------------------
(* Folds                                                                   *)

\* Every round tests one of the first n rows, a row of the period.
TakenFrom(rounds, rows, n, start, end) ==
    \A k \in DOMAIN rounds :
        \E i \in 1..n : rounds[k].target = rows[i] /\ InPeriod(rows[i], start, end)

\* Rounds of the first n rows.
LEMMA RoundsOfBeginning ==
    ASSUME NEW rows \in Seq(RowSet), NEW n \in 0..Len(rows), NEW warmup \in Nat,
           NEW start \in Nat, NEW end \in Nat, NEW most \in Int
    PROVE  TakenFrom(Rounds(SubSeq(rows, 1, n), warmup, start, end, most),
                     rows, n, start, end)
<1> DEFINE p == SubSeq(rows, 1, n)
           T == EligibleTargets(p, warmup, start, end, most)
           rounds == Rounds(p, warmup, start, end, most)
<1>1. Len(rows) \in Nat /\ n \in Int /\ 1 \in Int
    BY LenProperties
<1>2. \A i \in 1..n : rows[i] \in RowSet
    <2>1. \A i \in 1..n : i \in 1..Len(rows)
        BY <1>1
    <2> QED
        BY <2>1, ElementOfSeq
<1>3. /\ p \in Seq(RowSet) /\ Len(p) = n
      /\ \A i \in 1..n : p[i] = rows[i]
    <2>1. /\ p \in Seq(RowSet) /\ Len(p) = IF 1 <= n THEN n - 1 + 1 ELSE 0
          /\ \A i \in 1..(n - 1 + 1) : p[i] = rows[1 + i - 1]
        BY <1>1, <1>2, SubSeqProperties
    <2>2. n - 1 + 1 = n /\ \A i \in 1..n : 1 + i - 1 = i
        BY <1>1
    <2>3. Len(p) = n
        BY <1>1, <2>1, <2>2
    <2> QED
        BY <2>1, <2>2, <2>3
<1> HIDE DEF p
<1>ofT. RoundsOf(p, T, rounds)
    BY <1>3, RoundsAre
<1>5. \A i \in T : InPeriod(p[i], start, end)
    BY <1>3, EligibleAre
<1> HIDE DEF T, rounds
<1>4. /\ DOMAIN rounds = 1..Cardinality(T)
      /\ \A k \in 1..Cardinality(T) :
            Ascending(T)[k] \in T /\ Ascending(T)[k] \in 1..Len(p)
            /\ rounds[k] = Round(p, Ascending(T)[k])
    BY <1>ofT DEF RoundsOf
<1>6. ASSUME NEW k \in DOMAIN rounds
      PROVE  \E i \in 1..n : rounds[k].target = rows[i] /\ InPeriod(rows[i], start, end)
    <2> DEFINE i == Ascending(T)[k]
    <2>1. i \in T /\ i \in 1..n /\ rounds[k] = Round(p, i)
        BY <1>3, <1>4
    <2> HIDE DEF i
    <2>2. rounds[k].target = rows[i] /\ InPeriod(rows[i], start, end)
        BY <1>3, <1>5, <2>1 DEF Round
    <2> QED
        BY <2>1, <2>2
<1> QED
    BY <1>6 DEF rounds, p, TakenFrom

\* A fold trains on rows before its block and tests rows of its block.
LEMMA FoldsAreApart ==
    ASSUME NEW h \in Histories, NEW warmup \in Nat, NEW start \in Nat, NEW e \in Nat,
           NEW window \in Nat \ {0}, NEW block \in Nat \ {0},
           NEW x \in Folds(Rows(h), warmup, window, block, start, e),
           NEW a \in DOMAIN x.train, NEW b \in DOMAIN x.test
    PROVE  x.train[a].target.number < x.test[b].target.number
<1> DEFINE rows == Rows(h)
           N == Len(rows)
           first == FirstTested(rows, warmup, window, start)
           past == Beyond(rows, e)
<1>1. /\ rows \in Seq(RowSet) /\ N \in Nat /\ N = Len(rows)
      /\ \A i, j \in 1..N : i < j => rows[i].number < rows[j].number
    BY RowsAre
<1>2. \A i \in 1..N : rows[i].number \in Nat \ {0}
    <2> TAKE i \in 1..N
    <2>1. rows[i] \in RowSet
        BY <1>1, ElementOfSeq
    <2> QED
        BY <2>1, NumbersOfRows
<1> HIDE DEF rows
<1>3. first \in Nat \ {0}
    <2> DEFINE trained == Trained(rows, warmup, window)
               entered == Entered(rows, start)
    <2>1. /\ trained \in Nat \ {0} /\ entered \in Nat \ {0}
          /\ first = IF trained >= entered THEN trained ELSE entered
        BY <1>1, FirstTestedIs
    <2> HIDE DEF trained, entered
    <2> QED
        BY <2>1
<1>4. past \in 1..(N + 1)
    <2>1. CASE e = NoContest
        BY <1>1, <2>1 DEF Beyond
    <2>2. CASE e # NoContest
        <3> DEFINE m == e + 1
        <3>1. m \in Nat
            OBVIOUS
        <3> HIDE DEF m
        <3>2. FirstAtLeast(rows, m) \in 1..(N + 1)
            BY <1>1, <3>1, FirstAtLeastIs
        <3> QED
            BY <2>2, <3>2 DEF Beyond, m
    <2> QED
        BY <2>1, <2>2
<1> HIDE DEF first, past
<1>5. PICK i \in first..(past - 1) : x = Fold(rows, warmup, window, block, past, i)
    BY DEF Folds, first, past, rows
<1>6. i \in 1..N /\ i - 1 \in 0..N /\ i < past
    BY <1>1, <1>3, <1>4
<1> DEFINE last == Min({past, i + block}) - 1
<1>7. last \in 1..N
    <2> DEFINE y == i + block
    <2>1. past \in Int /\ y \in Int
        BY <1>1, <1>4
    <2> HIDE DEF y
    <2>2. Min({past, y}) = IF past <= y THEN past ELSE y
        BY <2>1, MaxOfTwo
    <2> QED
        BY <1>1, <1>4, <1>6, <2>2, SMTT(30) DEF y
<1> HIDE DEF last, N
<1>8. /\ x.train = Rounds(SubSeq(rows, 1, i - 1), warmup, NoContest, NoContest, window)
      /\ x.test = Rounds(SubSeq(rows, 1, last), warmup, rows[i].number, rows[last].number, 0)
    BY <1>5 DEF Fold, last
<1>9. PICK j \in 1..(i - 1) : x.train[a].target = rows[j]
    <2>1. NoContest \in Nat /\ window \in Int
        BY DEF NoContest
    <2> DEFINE m == i - 1
               z == NoContest
    <2>2. m \in 0..N /\ z \in Nat
        BY <1>6, <2>1
    <2>3. x.train = Rounds(SubSeq(rows, 1, m), warmup, z, z, window)
        BY <1>8
    <2> HIDE DEF m, z
    <2>4. TakenFrom(x.train, rows, m, z, z)
        BY <1>1, <2>1, <2>2, <2>3, RoundsOfBeginning
    <2> QED
        BY <2>4 DEF m, TakenFrom
<1>10. PICK j2 \in 1..last : x.test[b].target = rows[j2]
                             /\ InPeriod(rows[j2], rows[i].number, rows[last].number)
    <2> DEFINE u == rows[i].number
               v == rows[last].number
    <2>1. u \in Nat /\ v \in Nat /\ last \in 0..N /\ 0 \in Int
        <3>1. u \in Nat
            BY <1>1, <1>2, <1>6
        <3>2. v \in Nat
            BY <1>1, <1>2, <1>7
        <3> QED
            BY <1>1, <1>7, <3>1, <3>2
    <2> DEFINE z == 0
    <2>2. x.test = Rounds(SubSeq(rows, 1, last), warmup, u, v, z) /\ z \in Int
        BY <1>8
    <2> HIDE DEF u, v, z
    <2>3. \A k \in DOMAIN x.test :
             \E j2 \in 1..last : x.test[k].target = rows[j2] /\ InPeriod(rows[j2], u, v)
        <3> DEFINE rounds == Rounds(SubSeq(rows, 1, last), warmup, u, v, z)
        <3>1. TakenFrom(rounds, rows, last, u, v)
            <4>1. rows \in Seq(RowSet) /\ N = Len(rows)
                BY <1>1
            <4>2. last \in 0..Len(rows) /\ z \in Int
                BY <2>1, <2>2, <4>1
            <4>3. warmup \in Nat /\ u \in Nat /\ v \in Nat
                BY <2>1
            <4> QED
                BY <4>1, <4>2, <4>3, RoundsOfBeginning
        <3>2. x.test = rounds
            BY <2>2
        <3> HIDE DEF rounds
        <3> QED
            BY <3>1, <3>2 DEF TakenFrom
    <2> QED
        BY <2>3 DEF u, v
<1>11. rows[j].number < rows[i].number /\ j \in 1..N /\ j2 \in 1..N
    <2>1. j \in 1..N /\ j2 \in 1..N /\ j < i
        BY <1>1, <1>6, <1>7
    <2> QED
        BY <1>1, <1>6, <2>1
<1>12. rows[i].number <= rows[j2].number
    BY <1>2, <1>6, <1>10, <1>11 DEF InPeriod, NoContest
<1> QED
    BY <1>2, <1>6, <1>9, <1>10, <1>11, <1>12

-----------------------------------------------------------------------------
(* What a lab reports                                                      *)

LabOk(a) ==
    /\ \A f \in Figures :
          a.summary[f] = SumTo([b \in DOMAIN a.lab.series |-> a.lab.series[b][f]],
                               Len(a.lab.series))
    /\ IsSuffix([k \in DOMAIN a.lab.quality |-> a.lab.quality[k].target],
                [k \in DOMAIN a.rounds |-> a.rounds[k].target])
    /\ \A x \in a.lab.folds : \A i \in DOMAIN x.train, j \in DOMAIN x.test :
          x.train[i].target.number < x.test[j].target.number

\* The rounds of a period and those of its control are of the same targets.
SameFigure(f, rounds, control) ==
    /\ \E X : rounds \in Seq(X)
    /\ \E X : control \in Seq(X)
    /\ Summarize(rounds)[f] = Summarize(control)[f]

\* The random control plays the targets of the rounds, so its figures are theirs.
LEMMA ControlFollows ==
    ASSUME NEW rows \in Seq(RowSet), NEW warmup \in Nat, NEW start \in Nat, NEW end \in Nat,
           NEW f \in Figures
    PROVE  SameFigure(f, Rounds(rows, warmup, start, end, 0),
                      ControlRounds(rows, warmup, start, end))
<1> DEFINE T == EligibleTargets(rows, warmup, start, end, 0)
           rounds == Rounds(rows, warmup, start, end, 0)
           control == ControlRounds(rows, warmup, start, end)
           n == Cardinality(T)
<1>1. RoundsOf(rows, T, rounds)
    <2>1. 0 \in Int
        OBVIOUS
    <2> QED
        BY <2>1, RoundsAre
<1>2. control = [k \in DOMAIN rounds |-> [rounds[k] EXCEPT !.known = <<Last(@)>>]]
    BY DEF ControlRounds
<1> HIDE DEF T, rounds, control
<1>3. /\ n \in Nat /\ DOMAIN rounds = 1..n
      /\ \A k \in 1..n : rounds[k] = Round(rows, Ascending(T)[k])
    BY <1>1 DEF RoundsOf
<1> HIDE DEF n
<1>4. \A k \in 1..n : control[k].target = rounds[k].target
    <2> TAKE k \in 1..n
    <2>1. rounds[k] = [target |-> rows[Ascending(T)[k]], known |-> HistoryOf(rows, Ascending(T)[k])]
        BY <1>3 DEF Round
    <2>2. control[k] = [rounds[k] EXCEPT !.known = <<Last(@)>>]
        BY <1>2, <1>3
    <2> QED
        BY <2>1, <2>2
<1> DEFINE X == {rounds[k] : k \in 1..n}
           Y == {control[k] : k \in 1..n}
<1>5. rounds \in Seq(X) /\ Len(rounds) = n
    <2>1. rounds = [k \in 1..n |-> rounds[k]]
        BY <1>1, <1>3 DEF rounds, Rounds
    <2>2. rounds \in [1..n -> X]
        BY <2>1
    <2> HIDE DEF X
    <2> QED
        BY <1>3, <2>2
<1>6. control \in Seq(Y) /\ Len(control) = n
    <2>1. control = [k \in 1..n |-> control[k]]
        BY <1>2, <1>3
    <2>2. control \in [1..n -> Y]
        BY <2>1
    <2> HIDE DEF Y
    <2> QED
        BY <1>3, <2>2
<1> HIDE DEF X, Y
<1>7. CountedIn(f, rounds) = CountedIn(f, control)
    BY <1>4, <1>5, <1>6 DEF CountedIn
<1>8. /\ Summarize(rounds)[f] = Cardinality(CountedIn(f, rounds))
      /\ Summarize(control)[f] = Cardinality(CountedIn(f, control))
    BY <1>5, <1>6, SummaryCounts
<1>9. Summarize(rounds)[f] = Summarize(control)[f]
    BY <1>7, <1>8
<1> QED
    BY <1>5, <1>6, <1>9 DEF rounds, control, SameFigure

\* The result of any history adds up.
LEMMA ResultAddsUp ==
    ASSUME NEW q \in RunAsks, NEW h \in Histories, DOMAIN h # {}, IsLab(q)
    PROVE  LabOk(Result(q, h))
<1> DEFINE e == EndOf(q, h)
           rows == Rows(h)
           start == StartOf(q, e)
           a == Result(q, h)
           lab == LabParts(q, rows, e)
           rounds == Rounds(rows, q.warmup, start, e, 0)
           control == ControlRounds(rows, q.warmup, start, e)
           scores == q.experiment = "score-model"
           w == q.warmup
           size == q.bucket
<1>1. e \in Nat /\ start \in Nat /\ w \in Nat /\ size \in Nat \ {0}
    BY PeriodType
<1>2. rows \in Seq(RowSet)
    BY RowsAre
<1>3. a.rounds = rounds /\ a.summary = Summarize(rounds) /\ a.lab = lab
    BY DEF Result, Outcome
<1>4. /\ lab.series = Buckets(control, size)
      /\ lab.quality = IF scores THEN QualityRounds(rows, w, start, e) ELSE <<>>
      /\ lab.folds = IF scores THEN Folds(rows, w, 1, size, start, e) ELSE {}
    BY DEF LabParts
<1>5. ASSUME NEW f \in Figures
      PROVE  a.summary[f] = SumTo([b \in DOMAIN a.lab.series |-> a.lab.series[b][f]],
                                  Len(a.lab.series))
    <2> HIDE DEF rows, e, start, size, w
    <2>0. SameFigure(f, rounds, control)
        BY <1>1, <1>2, ControlFollows DEF w
    <2> HIDE DEF control, rounds
    <2>1. /\ \E X : control \in Seq(X)
          /\ Summarize(rounds)[f] = Summarize(control)[f]
        BY <2>0 DEF SameFigure
    <2>2. PICK X : control \in Seq(X)
        BY <2>1
    <2> DEFINE series == Buckets(control, size)
    <2>3. SumTo([b \in DOMAIN series |-> series[b][f]], Len(series)) = Summarize(control)[f]
        BY <1>1, <2>2, SeriesTotal
    <2> HIDE DEF series, a, lab
    <2> QED
        BY <1>3, <1>4, <2>1, <2>3 DEF series
<1>6. IsSuffix([k \in DOMAIN a.lab.quality |-> a.lab.quality[k].target],
               [k \in DOMAIN a.rounds |-> a.rounds[k].target])
    <2> DEFINE most == IF scores THEN QualityCap ELSE 0
    <2> HIDE DEF rows, e, start, w
    <2>1. QualityCap \in Nat /\ 0 \in Nat
        BY HistoryAssumption DEF HistoryAssumption
    <2>2. CASE scores
        <3> DEFINE quality == Rounds(rows, w, start, e, QualityCap)
        <3>1. IsSuffix([k \in DOMAIN quality |-> quality[k].target],
                       [k \in DOMAIN rounds |-> rounds[k].target])
            <4>1. rows \in Seq(RowSet) /\ w \in Nat /\ start \in Nat /\ e \in Nat /\ QualityCap \in Nat
                BY <1>1, <1>2, <2>1
            <4> HIDE DEF a, lab
            <4> QED
                BY <4>1, QualityIsSuffix DEF w
        <3>2. a.lab.quality = quality
            BY <1>3, <1>4, <2>2 DEF QualityRounds
        <3> HIDE DEF quality, rounds, a, lab
        <3> QED
            BY <1>3, <3>1, <3>2
    <2>3. CASE ~scores
        <3>1. a.lab.quality = <<>>
            BY <1>3, <1>4, <2>3
        <3> DEFINE t == [k \in DOMAIN rounds |-> rounds[k].target]
        <3>2. [k \in DOMAIN a.lab.quality |-> a.lab.quality[k].target] = <<>>
            BY <3>1
        <3>3. \E X : t \in Seq(X)
            <4>1. "tested" \in Figures
                BY DEF Figures
            <4>2. \E X : rounds \in Seq(X)
                <5> DEFINE f == "tested"
                <5>1. f \in Figures
                    BY <4>1
                <5> HIDE DEF f
                <5>2. SameFigure(f, rounds, control)
                    BY <1>1, <1>2, <5>1, ControlFollows DEF w
                <5> HIDE DEF rounds, control
                <5> QED
                    BY <5>2 DEF SameFigure
            <4> HIDE DEF rounds
            <4>3. PICK X : rounds \in Seq(X)
                BY <4>2
            <4>4. DOMAIN rounds = 1..Len(rounds) /\ Len(rounds) \in Nat
                BY <4>3, LenProperties
            <4> DEFINE Y == {t[k] : k \in 1..Len(rounds)}
            <4>5. t \in [1..Len(rounds) -> Y]
                BY <4>4
            <4> HIDE DEF Y, t
            <4>6. t \in Seq(Y)
                BY <4>4, <4>5
            <4> QED
                BY <4>6
        <3> HIDE DEF t
        <3>4. PICK X : t \in Seq(X)
            BY <3>3
        <3>5. <<>> \in Seq(X) /\ Len(<<>>) = 0 /\ Len(t) \in Nat
            BY <3>4, LenProperties
        <3>6. IsSuffix(<<>>, t)
            <4> DEFINE s == <<>>
            <4>1. s \in Seq(X) /\ Len(s) <= Len(t)
                BY <3>5
            <4>2. \A k \in 1..Len(s) : s[k] = t[k + (Len(t) - Len(s))]
                BY <3>5
            <4> HIDE DEF s
            <4>3. IsSuffix(s, t)
                BY <3>4, <4>1, <4>2, SuffixBy
            <4> QED
                BY <4>3 DEF s
        <3> HIDE DEF a, lab, rounds
        <3> QED
            BY <1>3, <3>2, <3>6 DEF t
    <2> QED
        BY <2>2, <2>3
<1>7. \A x \in a.lab.folds : \A i \in DOMAIN x.train, j \in DOMAIN x.test :
         x.train[i].target.number < x.test[j].target.number
    <2>1. 1 \in Nat \ {0}
        OBVIOUS
    <2> TAKE x \in a.lab.folds
    <2> TAKE i \in DOMAIN x.train, j \in DOMAIN x.test
    <2>2. x \in Folds(rows, w, 1, size, start, e)
        BY <1>3, <1>4
    <2> HIDE DEF e, start, a, lab
    <2> QED
        BY <1>1, <2>1, <2>2, FoldsAreApart
<1> QED
    BY <1>5, <1>6, <1>7 DEF LabOk

-----------------------------------------------------------------------------
(* The invariant                                                           *)

\* The store is a history; what a tester reads is one, and every result is computed from one.
HistoryInv ==
    /\ stored \in Histories
    /\ \A c \in Testers :
          \/ reading[c] = AtRest
          \/ \E q \in RunAsks, h \in Histories : DOMAIN h # {} /\ reading[c] = <<q, h>>
    /\ \A a \in results :
          \E q \in RunAsks, h \in Histories : DOMAIN h # {} /\ a = Result(q, h)

\* At first nothing is stored, read or delivered.
LEMMA HistoryInvInit == HistoryInit => HistoryInv
<1> SUFFICES ASSUME HistoryInit PROVE HistoryInv
    OBVIOUS
<1>1. stored = <<>> /\ results = {} /\ reading = [c \in Testers |-> AtRest]
    BY DEF HistoryInit
<1>2. <<>> \in [{} -> 0..1] /\ {} \in SUBSET (1..LastContest)
    OBVIOUS
<1>3. stored \in Histories
    BY <1>1, <1>2 DEF Histories
<1> QED
    BY <1>1, <1>3 DEF HistoryInv

\* Every step keeps the invariant.
LEMMA HistoryInvStep == HistoryInv /\ [HistoryNext]_historyVars => HistoryInv'
<1> SUFFICES ASSUME HistoryInv, [HistoryNext]_historyVars PROVE HistoryInv'
    OBVIOUS
<1>1. stored \in Histories
    BY DEF HistoryInv
<1>2. ASSUME NEW n \in 1..LastContest, StoreContest(n)
      PROVE  HistoryInv'
    <2>1. PICK version \in 0..1 :
             stored' = [m \in DOMAIN stored \cup {n} |-> IF m = n THEN version ELSE stored[m]]
        BY <1>2 DEF StoreContest
    <2>2. DOMAIN stored \in SUBSET (1..LastContest) /\ \A m \in DOMAIN stored : stored[m] \in 0..1
        BY <1>1, HistoryIsFinite
    <2> DEFINE D == DOMAIN stored \cup {n}
    <2>3. stored' \in [D -> 0..1] /\ D \in SUBSET (1..LastContest)
        BY <2>1, <2>2
    <2>4. stored' \in Histories
        BY <2>3 DEF Histories
    <2>5. UNCHANGED <<amends, reading, results>>
        BY <1>2 DEF StoreContest
    <2> QED
        BY <2>4, <2>5 DEF HistoryInv
<1>3. ASSUME NEW n \in 1..LastContest, AmendContest(n)
      PROVE  HistoryInv'
    <2>1. DOMAIN stored \in SUBSET (1..LastContest) /\ \A m \in DOMAIN stored : stored[m] \in 0..1
        BY <1>1, HistoryIsFinite
    <2>2. stored' = [stored EXCEPT ![n] = 1] /\ UNCHANGED <<reading, results>>
        BY <1>3 DEF AmendContest
    <2>3. stored \in [DOMAIN stored -> 0..1] /\ 1 \in 0..1
        BY <1>1, <2>1 DEF Histories
    <2>4. stored' \in [DOMAIN stored -> 0..1]
        <3> DEFINE D == DOMAIN stored
                   s == stored
        <3>1. s \in [D -> 0..1]
            BY <2>3
        <3> HIDE DEF D, s
        <3>2. [s EXCEPT ![n] = 1] \in [D -> 0..1]
            BY <2>3, <3>1
        <3> QED
            BY <2>2, <3>2 DEF s, D
    <2>5. stored' \in Histories
        BY <2>1, <2>4 DEF Histories
    <2> QED
        BY <2>2, <2>5 DEF HistoryInv
<1>4. ASSUME NEW c \in Testers, ReadHistory(c)
      PROVE  HistoryInv'
    <2>1. PICK q \in RunAsks : Accepts(q, stored) /\ reading' = [reading EXCEPT ![c] = <<q, stored>>]
        BY <1>4 DEF ReadHistory
    <2>2. DOMAIN stored # {}
        BY <2>1 DEF Accepts
    <2>3. UNCHANGED <<stored, amends, results>>
        BY <1>4 DEF ReadHistory
    <2>4. ASSUME NEW d \in Testers
          PROVE  \/ reading'[d] = AtRest
                 \/ \E r \in RunAsks, h \in Histories : DOMAIN h # {} /\ reading'[d] = <<r, h>>
        <3>1. reading'[d] = reading[d] \/ reading'[d] = <<q, stored>>
            BY <2>1
        <3> QED
            BY <1>1, <2>2, <3>1 DEF HistoryInv
    <2> QED
        BY <2>3, <2>4 DEF HistoryInv
<1>5. ASSUME NEW c \in Testers, DeliverResult(c)
      PROVE  HistoryInv'
    <2>1. /\ reading[c] # AtRest
          /\ results' = results \cup {Result(reading[c][1], reading[c][2])}
          /\ reading' = [reading EXCEPT ![c] = AtRest]
          /\ UNCHANGED <<stored, amends>>
        BY <1>5 DEF DeliverResult
    <2>2. PICK q \in RunAsks, h \in Histories : DOMAIN h # {} /\ reading[c] = <<q, h>>
        BY <2>1 DEF HistoryInv
    <2>3. reading[c][1] = q /\ reading[c][2] = h
        BY <2>2
    <2>4. ASSUME NEW a \in results'
          PROVE  \E r \in RunAsks, g \in Histories : DOMAIN g # {} /\ a = Result(r, g)
        <3>1. a \in results \/ a = Result(q, h)
            BY <2>1, <2>3
        <3> QED
            BY <2>2, <3>1 DEF HistoryInv
    <2>5. ASSUME NEW d \in Testers
          PROVE  \/ reading'[d] = AtRest
                 \/ \E r \in RunAsks, g \in Histories : DOMAIN g # {} /\ reading'[d] = <<r, g>>
        <3>1. reading'[d] = reading[d] \/ reading'[d] = AtRest
            BY <2>1
        <3> QED
            BY <3>1 DEF HistoryInv
    <2> QED
        BY <1>1, <2>1, <2>4, <2>5 DEF HistoryInv
<1>6. CASE UNCHANGED historyVars
    BY <1>6 DEF historyVars, HistoryInv
<1> QED
    BY <1>2, <1>3, <1>4, <1>5, <1>6 DEF HistoryNext

\* The invariant holds in every state.
LEMMA HistoryInvHolds == HistorySpec => []HistoryInv
BY HistoryInvInit, HistoryInvStep, PTL DEF HistorySpec

\* The invariant implies the property.
LEMMA HistoryInvIsEnough == HistoryInv => HistorySafe
<1> SUFFICES ASSUME HistoryInv PROVE HistorySafe
    OBVIOUS
<1>1. SignatureReproduces
    <2> SUFFICES ASSUME NEW a \in results, NEW b \in results,
                        a.ask = b.ask, a.end = b.end, a.signature = b.signature
                 PROVE  a = b
        BY DEF SignatureReproduces
    <2>1. ASSUME NEW x \in results
          PROVE  x = Outcome(x.ask, Rows(x.signature), x.end, x.signature)
        <3>1. PICK q \in RunAsks, h \in Histories : DOMAIN h # {} /\ x = Result(q, h)
            BY DEF HistoryInv
        <3> DEFINE e == EndOf(q, h)
                   g == Signature(h, e)
        <3>2. x = Outcome(q, Rows(g), e, g)
            BY <3>1, ResultIsSigned
        <3> HIDE DEF e, g
        <3>3. x.ask = q /\ x.end = e /\ x.signature = g
            BY <3>2 DEF Outcome
        <3> QED
            BY <3>2, <3>3
    <2> QED
        BY <2>1
<1>2. LabAddsUp
    <2> SUFFICES ASSUME NEW a \in results, IsLab(a.ask)
                 PROVE  LabOk(a)
        BY DEF LabAddsUp, LabOk, Figures
    <2>1. PICK q \in RunAsks, h \in Histories : DOMAIN h # {} /\ a = Result(q, h)
        BY DEF HistoryInv
    <2>2. a.ask = q
        BY <2>1 DEF Result, Outcome
    <2> QED
        BY <2>1, <2>2, ResultAddsUp
<1>3. WindowsAgree
    BY WindowsFit DEF HistoryInv, WindowsAgree
<1> QED
    BY <1>1, <1>2, <1>3 DEF HistorySafe

\* One signature gives one result; buckets, quality and folds of a lab agree with
\* its rounds; windows, segments and gaps agree: for every set of contests,
\* requests and testers, and whatever is stored or amended while a run computes.
THEOREM HistoryIsSafe == HistorySpec => []HistorySafe
BY HistoryInvHolds, HistoryInvIsEnough, PTL

-----------------------------------------------------------------------------
(***************************************************************************)
(* Types of the stores and of the history.                                 *)
(***************************************************************************)

\* A payload of a contest that was drawn.
IsPayload(p) ==
    /\ p.contest \in DOMAIN official /\ p.draw \in Nat
    /\ p.part \in BOOLEAN /\ p.amount \in BOOLEAN

\* A table of rows of contests that were drawn.
IsStore(store) ==
    /\ DOMAIN store \subseteq DOMAIN official
    /\ \A n \in DOMAIN store : IsRow(store[n])

\* What was drawn, the tables, and the fields of a reconciliation.
DataShape ==
    /\ kind \in Kinds
    /\ official \in Seq(Nat) /\ official # <<>>
    /\ IsStore(contestRows) /\ IsStore(products)
    /\ check = [stage |-> check.stage, todo |-> check.todo, latest |-> check.latest,
                items |-> check.items, counts |-> check.counts]
    /\ check.stage \in {"none", "latest", "compare", "done"}

\* What CAIXA answers for a contest that was drawn is a payload of one.
LEMMA PayloadsAre ==
    ASSUME official \in Seq(Nat), NEW n \in DOMAIN official, NEW p \in Payloads(n)
    PROVE  IsPayload(p) /\ p.contest = n
<1>1. p.contest = n /\ p.draw = official[n] /\ p.part \in BOOLEAN /\ p.amount \in BOOLEAN
    BY DEF Payloads
<1>2. official[n] \in Nat
    OBVIOUS
<1> QED
    BY <1>1, <1>2 DEF IsPayload

\* The latest contest was drawn.
LEMMA LatestIsDrawn ==
    ASSUME official \in Seq(Nat), official # <<>>
    PROVE  Max(DOMAIN official) \in DOMAIN official
<1> DEFINE N == Len(official)
<1>1. N \in Nat \ {0} /\ DOMAIN official = 1..N
    OBVIOUS
<1>2. N \in 1..N /\ \A y \in 1..N : N >= y
    BY <1>1
<1> QED
    BY <1>1, <1>2 DEF Max

\* A row made of a payload is a row.
LEMMA RowOfPayload ==
    ASSUME NEW p, IsPayload(p)
    PROVE  IsRow(RowOf(p))
BY DEF IsPayload, RowOf, IsRow

\* Whatever is upserted, a store stays one.
LEMMA StoresStayStores ==
    ASSUME NEW store, IsStore(store), NEW p, IsPayload(p)
    PROVE  IsStore(Coalesce(store, p)) /\ IsStore(CoalesceAmount(store, p))
<1> DEFINE new == Coalesce(store, p)
           old == store[p.contest]
<1>1. DOMAIN new = DOMAIN store \cup {p.contest}
    BY DEF Coalesce
<1>2. p.contest \in DOMAIN official
    BY DEF IsPayload
<1>3. \A n \in DOMAIN new : n # p.contest => new[n] = store[n] /\ IsRow(new[n])
    BY <1>1 DEF Coalesce, IsStore
<1>4. /\ IsRow(new[p.contest])
      /\ IsRow([new[p.contest] EXCEPT !.part = RowOf(p).part])
    <2>1. CASE p.contest \notin DOMAIN store
        <3>1. new[p.contest] = RowOf(p)
            BY <2>1 DEF Coalesce
        <3>2. RowOf(p) = [draw |-> p.draw, part |-> RowOf(p).part, amount |-> p.amount]
            BY DEF RowOf
        <3> QED
            BY <3>1, <3>2, RowOfPayload DEF IsRow
    <2>2. CASE p.contest \in DOMAIN store
        <3>1. new[p.contest] = [draw |-> p.draw, part |-> RowOf(p).part \/ old.part,
                                amount |-> p.amount \/ old.amount]
            BY <2>2 DEF Coalesce
        <3>2. RowOf(p).part \in BOOLEAN
            BY RowOfPayload DEF IsRow
        <3> QED
            BY <3>1, <3>2 DEF IsPayload, IsRow
    <2> QED
        BY <2>1, <2>2
<1>5. IsStore(new)
    BY <1>1, <1>2, <1>3, <1>4 DEF IsStore
<1>6. CoalesceAmount(store, p) = [new EXCEPT ![p.contest].part = RowOf(p).part]
    BY DEF CoalesceAmount
<1> HIDE DEF new
<1>7. \A n \in DOMAIN new : n # p.contest => CoalesceAmount(store, p)[n] = new[n]
    BY <1>6
<1>8. CoalesceAmount(store, p)[p.contest] = [new[p.contest] EXCEPT !.part = RowOf(p).part]
    BY <1>1, <1>6
<1>9. DOMAIN CoalesceAmount(store, p) = DOMAIN new
    BY <1>6
<1>10. IsStore(CoalesceAmount(store, p))
    BY <1>4, <1>5, <1>7, <1>8, <1>9 DEF IsStore
<1> QED
    BY <1>5, <1>10 DEF new

\* The draws go on, and none is taken back.
LEMMA DrawsGoOn ==
    ASSUME DataShape, DataNext
    PROVE  /\ kind' \in Kinds
           /\ official' \in Seq(Nat) /\ official' # <<>>
           /\ DOMAIN official \subseteq DOMAIN official'
<1>1. kind \in Kinds /\ official \in Seq(Nat) /\ official # <<>>
    BY DEF DataShape
<1>2. CASE Draw
    <2>1. official' = Append(official, 1) /\ kind' = kind
        BY <1>2 DEF Draw
    <2>2. /\ official' \in Seq(Nat) /\ Len(official') = Len(official) + 1
          /\ DOMAIN official \subseteq DOMAIN official'
        BY <1>1, <2>1
    <2>3. Len(official) \in Nat
        BY <1>1
    <2> QED
        BY <1>1, <2>1, <2>2, <2>3
<1>3. CASE Correct
    <2>1. kind' = kind
        BY <1>3 DEF Correct
    <2>2. PICK n \in DOMAIN official : official' = [official EXCEPT ![n] = @ + 1]
        BY <1>3 DEF Correct
    <2>3. /\ official' \in Seq(Nat) /\ Len(official') = Len(official)
          /\ DOMAIN official' = DOMAIN official
        BY <1>1, <2>2
    <2> QED
        BY <1>1, <2>1, <2>3
<1>4. CASE UNCHANGED <<kind, official>>
    BY <1>1, <1>4
<1> QED
    BY <1>2, <1>3, <1>4
    DEF DataNext, SyncContest, SyncProduct, StartCheck, AskLatest, CompareNext, EndCheck, ForgetCheck, Copy

\* What was a store or a payload before the step is one after it.
LEMMA StillStores ==
    ASSUME DataShape, DataNext
    PROVE  /\ \A store : IsStore(store) =>
                  DOMAIN store \subseteq DOMAIN official' /\ \A n \in DOMAIN store : IsRow(store[n])
           /\ \A p : IsPayload(p) =>
                  /\ p.contest \in DOMAIN official' /\ p.draw \in Nat
                  /\ p.part \in BOOLEAN /\ p.amount \in BOOLEAN
BY DrawsGoOn DEF IsStore, IsPayload

\* Every step leaves the stores stores.
LEMMA StoresAreTyped ==
    ASSUME DataShape, DataNext
    PROVE  IsStore(contestRows)' /\ IsStore(products)'
<1>1. /\ official \in Seq(Nat) /\ official # <<>>
      /\ IsStore(contestRows) /\ IsStore(products)
    BY DEF DataShape
<1>2. IsStore(contestRows')
    <2>1. CASE SyncContest
        <3>1. PICK n \in DOMAIN official :
                 \E p \in Payloads(n) : ContestAccepts(p) /\ contestRows' = Coalesce(contestRows, p)
            BY <2>1 DEF SyncContest
        <3>2. PICK p \in Payloads(n) : contestRows' = Coalesce(contestRows, p)
            BY <3>1
        <3>3. IsPayload(p)
            BY <1>1, PayloadsAre
        <3> QED
            BY <1>1, <3>2, <3>3, StoresStayStores
    <2>2. CASE UNCHANGED contestRows
        BY <1>1, <2>2
    <2> QED
        BY <2>1, <2>2
        DEF DataNext, SyncProduct, Draw, Correct, StartCheck, AskLatest, CompareNext, EndCheck, ForgetCheck, Copy
<1>3. IsStore(products')
    <2>1. CASE SyncProduct
        <3> DEFINE n == Max(DOMAIN official)
        <3>1. PICK p \in Payloads(n) : products' = CoalesceAmount(products, p)
            BY <2>1 DEF SyncProduct
        <3>2. n \in DOMAIN official
            BY <1>1, LatestIsDrawn
        <3> HIDE DEF n
        <3>3. IsPayload(p)
            BY <1>1, <3>2, PayloadsAre
        <3> QED
            BY <1>1, <3>1, <3>3, StoresStayStores
    <2>2. CASE UNCHANGED products
        BY <1>1, <2>2
    <2> QED
        BY <2>1, <2>2
        DEF DataNext, SyncContest, Draw, Correct, StartCheck, AskLatest, CompareNext, EndCheck, ForgetCheck, Copy
<1> QED
    BY <1>2, <1>3, StillStores DEF IsStore

\* Every step leaves a reconciliation at one of its stages.
LEMMA CheckIsTyped ==
    ASSUME DataShape, DataNext
    PROVE  /\ check' = [stage |-> check'.stage, todo |-> check'.todo, latest |-> check'.latest,
                        items |-> check'.items, counts |-> check'.counts]
           /\ check'.stage \in {"none", "latest", "compare", "done"}
<1>1. /\ check = [stage |-> check.stage, todo |-> check.todo, latest |-> check.latest,
                  items |-> check.items, counts |-> check.counts]
      /\ check.stage \in {"none", "latest", "compare", "done"}
    BY DEF DataShape
<1>2. CASE StartCheck
    <2>1. PICK todo : check' = [NoCheck EXCEPT !.stage = "latest", !.todo = todo]
        BY <1>2 DEF StartCheck
    <2> QED
        BY <2>1 DEF NoCheck
<1>3. CASE AskLatest
    <2>1. CASE check' = [check EXCEPT !.stage = "compare", !.latest = Max(DOMAIN second)]
        BY <1>1, <2>1
    <2>2. CASE ReportUnavailable
        <3>1. PICK items, counts :
                 check' = [check EXCEPT !.stage = "done", !.todo = <<>>, !.items = items,
                                        !.counts = counts]
            BY <2>2 DEF ReportUnavailable
        <3> QED
            BY <1>1, <3>1
    <2> QED
        BY <1>3, <2>1, <2>2 DEF AskLatest
<1>4. CASE CompareNext
    <2>1. PICK s, seen : Report(s, seen)
        BY <1>4 DEF CompareNext
    <2>2. PICK todo, counts, items :
             check' = [check EXCEPT !.todo = todo, !.counts = counts, !.items = items]
        BY <2>1 DEF Report
    <2> QED
        BY <1>1, <2>2
<1>5. CASE EndCheck
    BY <1>1, <1>5 DEF EndCheck
<1>6. CASE ForgetCheck
    BY <1>6 DEF ForgetCheck, NoCheck
<1>7. CASE UNCHANGED check
    BY <1>1, <1>7
<1> QED
    BY <1>2, <1>3, <1>4, <1>5, <1>6, <1>7
    DEF DataNext, SyncContest, SyncProduct, Draw, Correct, Copy

\* At first there is one draw, and nothing is stored or asked.
LEMMA DataShapeInit == DataInit => DataShape
<1> SUFFICES ASSUME DataInit PROVE DataShape
    OBVIOUS
<1>1. official = <<1>> /\ contestRows = <<>> /\ products = <<>>
    BY DEF DataInit
<1>2. IsStore(<<>>)
    BY DEF IsStore
<1>3. official \in Seq(Nat) /\ official # <<>>
    BY <1>1
<1>4. /\ kind \in Kinds
      /\ check = [stage |-> "none", todo |-> <<>>, latest |-> 0, items |-> {},
                  counts |-> <<0, 0, 0, 0, 0>>]
    BY DEF DataInit, NoCheck
<1>6. /\ check = [stage |-> check.stage, todo |-> check.todo, latest |-> check.latest,
                  items |-> check.items, counts |-> check.counts]
      /\ check.stage = "none"
    BY <1>4
<1> QED
    BY <1>1, <1>2, <1>3, <1>4, <1>6 DEF DataShape

LEMMA DataShapeStep == DataShape /\ [DataNext]_dataVars => DataShape'
<1> SUFFICES ASSUME DataShape, [DataNext]_dataVars PROVE DataShape'
    OBVIOUS
<1>1. CASE DataNext
    BY <1>1, DrawsGoOn, StoresAreTyped, CheckIsTyped DEF DataShape
<1>2. CASE UNCHANGED dataVars
    BY <1>2 DEF dataVars, DataShape, IsStore, IsPayload
<1> QED
    BY <1>1, <1>2

\* The shape has the types in it.
LEMMA DataShapeType == DataShape => DataTypeOK
BY DEF DataShape, DataTypeOK, IsStore

\* Whatever CAIXA answers and however far a reconciliation has come, the tables hold
\* rows of contests that were drawn (upsertMany() of the two repositories).
THEOREM DataIsTyped == DataSpec => []DataTypeOK
BY DataShapeInit, DataShapeStep, DataShapeType, PTL DEF DataSpec

-----------------------------------------------------------------------------

\* A history is the store's, and what was completed was counted.
HistoryTyped == HistoryInv /\ amends \in 0..MaxAmends

LEMMA HistoryTypedInit == HistoryInit => HistoryTyped
BY HistoryInvInit, HistoryAssumption DEF HistoryAssumption, HistoryTyped, HistoryInit

LEMMA HistoryTypedStep == HistoryTyped /\ [HistoryNext]_historyVars => HistoryTyped'
<1> SUFFICES ASSUME HistoryTyped, [HistoryNext]_historyVars PROVE HistoryTyped'
    OBVIOUS
<1>1. HistoryInv'
    BY HistoryInvStep DEF HistoryTyped
<1>2. amends \in 0..MaxAmends /\ MaxAmends \in Nat
    BY HistoryAssumption DEF HistoryAssumption, HistoryTyped
<1>3. \/ UNCHANGED amends
      \/ amends < MaxAmends /\ amends' = amends + 1
    <2>1. CASE \E n \in 1..LastContest : StoreContest(n)
        BY <2>1 DEF StoreContest
    <2>2. CASE \E n \in 1..LastContest : AmendContest(n)
        BY <2>2 DEF AmendContest
    <2>3. CASE \E c \in Testers : ReadHistory(c) \/ DeliverResult(c)
        BY <2>3 DEF ReadHistory, DeliverResult
    <2>4. CASE UNCHANGED historyVars
        BY <2>4 DEF historyVars
    <2> QED
        BY <2>1, <2>2, <2>3, <2>4 DEF HistoryNext
<1> QED
    BY <1>1, <1>2, <1>3 DEF HistoryTyped

LEMMA HistoryTypedType == HistoryTyped => HistoryTypeOK
<1> SUFFICES ASSUME HistoryTyped PROVE HistoryTypeOK
    OBVIOUS
<1>1. DOMAIN stored \in SUBSET (1..LastContest) /\ \A n \in DOMAIN stored : stored[n] \in 0..1
    BY HistoryIsFinite DEF HistoryTyped, HistoryInv
<1>2. \A c \in Testers : reading[c] = AtRest \/ reading[c][1] \in RunAsks
    BY DEF HistoryTyped, HistoryInv
<1> QED
    BY <1>1, <1>2 DEF HistoryTyped, HistoryTypeOK

\* The store is a partial history and every tester is idle or at work on one
\* (execute() of the backtests and labs).
THEOREM HistoryIsTyped == HistorySpec => []HistoryTypeOK
BY HistoryTypedInit, HistoryTypedStep, HistoryTypedType, PTL DEF HistorySpec

-----------------------------------------------------------------------------
(* ContestFile: the file is what was reported of it, as long as no command *)
(* writes it from an outdated read and none dies while it writes           *)

FileShape ==
    /\ newest \in [FileLotteries -> 1..LastInFile]
    /\ IsRows(file) /\ IsRows(told)
    /\ DOMAIN commands = Commands /\ \A c \in Commands : CommandOK(commands[c])
    /\ outdated \subseteq Commands
    /\ torn \in BOOLEAN /\ spoiled \in BOOLEAN /\ downloads \in 0..MaxDownloads

\* Who writes has read what was reported, alone, and leaves every other read outdated.
WriterKnows ==
    \A c \in Commands : Writing(c) =>
        /\ torn /\ c \notin outdated /\ commands[c].loaded = told
        /\ \A d \in Commands \ {c} : ~Writing(d) /\ (CommandAt(d, "loaded") => d \in outdated)

\* A read that nobody has outdated is what was reported.
ReaderKnows ==
    \A c \in Commands : CommandAt(c, "loaded") /\ c \notin outdated => commands[c].loaded = told

FileInv == FileShape /\ ReportedIsStored /\ (~spoiled => WriterKnows /\ ReaderKnows)

\* Merged with what was fetched, rows stay rows.
LEMMA MergedRows ==
    ASSUME NEW old, IsRows(old), NEW new, IsRows(new)
    PROVE  IsRows(MergeContests(old, new))
BY DEF IsRows, MergeContests

LEMMA NoRowsAre == IsRows(NoRows)
BY DEF IsRows, NoRows

LEMMA IdleShape == CommandOK(NoCommand) /\ NoCommand.at = "idle"
BY NoRowsAre DEF CommandOK, NoCommand, Carrying

\* One command moves to a state of the right shape, neither to load nor to write.
LEMMA CommandMoves ==
    ASSUME FileInv, NEW c \in Commands, NEW x,
           Turns(c, x), CommandOK(x),
           x.at \in {"idle", "fetching"}, ~Writing(c),
           UNCHANGED <<newest, file, torn, outdated, spoiled, told>>, downloads' \in 0..MaxDownloads
    PROVE  FileInv'
<1>1. /\ DOMAIN commands' = Commands
      /\ \A d \in Commands : commands'[d] = IF d = c THEN x ELSE commands[d]
    BY DEF FileInv, FileShape, Turns
<1>2. FileShape'
    BY <1>1 DEF FileInv, FileShape, CommandOK, IsRows
<1>3. \A d \in Commands :
         /\ Writing(d)' <=> Writing(d)
         /\ CommandAt(d, "loaded")' => CommandAt(d, "loaded") /\ d # c
    BY <1>1 DEF CommandAt, Writing
<1>4. ReportedIsStored'
    BY <1>3 DEF FileInv, ReportedIsStored
<1>5. ~spoiled => WriterKnows' /\ ReaderKnows'
    BY <1>1, <1>3 DEF FileInv, WriterKnows, ReaderKnows, CommandAt, Writing
<1> QED
    BY <1>2, <1>4, <1>5 DEF FileInv

LEMMA FileInvInit == FileInit => FileInv
<1> SUFFICES ASSUME FileInit PROVE FileInv
    OBVIOUS
<1>1. /\ DOMAIN commands = Commands
      /\ \A c \in Commands : commands[c] = NoCommand /\ CommandOK(commands[c])
                             /\ commands[c].at = "idle"
    BY IdleShape DEF FileInit
<1>2. /\ newest \in [FileLotteries -> 1..LastInFile] /\ IsRows(file) /\ IsRows(told)
      /\ torn = FALSE /\ spoiled = FALSE /\ downloads \in 0..MaxDownloads
      /\ file = told /\ outdated = {}
    BY NoRowsAre, FileAssumption DEF FileInit, FileAssumption
<1>3. FileShape
    BY <1>1, <1>2 DEF FileShape
<1>4. ReportedIsStored /\ WriterKnows /\ ReaderKnows
    BY <1>1, <1>2 DEF ReportedIsStored, WriterKnows, ReaderKnows, CommandAt, Writing
<1> QED
    BY <1>3, <1>4 DEF FileInv

LEMMA ListsStep ==
    ASSUME FileInv, NEW c \in Commands, NEW wanted, wanted \subseteq Contests, Lists(c, wanted)
    PROVE  FileInv'
<1> DEFINE x == Carrying("fetching", wanted, NoRows, NoRows)
<1>1. CommandOK(x) /\ x.at = "fetching"
    BY NoRowsAre DEF CommandOK, Carrying
<1>2. /\ Turns(c, x)
      /\ ~Writing(c) /\ UNCHANGED <<newest, file, torn, outdated, spoiled, told>>
      /\ downloads' \in 0..MaxDownloads
    BY DEF Lists, CommandAt, Writing, FileInv, FileShape
<1> HIDE DEF x
<1> QED
    BY <1>1, <1>2, CommandMoves

LEMMA StartMissingStep ==
    ASSUME FileInv, NEW c \in Commands, StartMissing(c)
    PROVE  FileInv'
<1>1. PICK l \in FileLotteries, first \in 1..LastInFile, last \in 1..LastInFile :
         Lists(c, ContestRange(l, first, last) \ DOMAIN file)
    BY DEF StartMissing
<1> DEFINE wanted == ContestRange(l, first, last) \ DOMAIN file
<1>2. wanted \subseteq Contests
    BY DEF ContestRange
<1> HIDE DEF wanted
<1> QED
    BY <1>1, <1>2, ListsStep DEF wanted

LEMMA StartRangeStep ==
    ASSUME FileInv, NEW c \in Commands, StartRange(c)
    PROVE  FileInv'
<1>1. PICK l \in FileLotteries, first \in 1..LastInFile, last \in 1..LastInFile :
         Lists(c, ContestRange(l, first, last))
    BY DEF StartRange
<1>2. ContestRange(l, first, last) \subseteq Contests
    BY DEF ContestRange
<1> QED
    BY <1>1, <1>2, ListsStep

LEMMA Downloaded == ASSUME FileInv, Download PROVE downloads' \in 0..MaxDownloads
BY FileAssumption DEF FileAssumption, FileInv, FileShape, Download

\* What a command fetches is a row of a contest.
LEMMA OneRow ==
    ASSUME NEW k \in Contests, NEW v \in Versions
    PROVE  IsRows([j \in {k} |-> v])
BY DEF IsRows

LEMMA FetchLatestStep ==
    ASSUME FileInv, NEW c \in Commands, FetchLatest(c)
    PROVE  FileInv'
<1>1. PICK l \in FileLotteries, v \in Versions :
         Turns(c, Carrying("fetching", {}, [k \in {<<l, newest[l]>>} |-> v], NoRows))
    BY DEF FetchLatest
<1> DEFINE row == [k \in {<<l, newest[l]>>} |-> v]
           x == Carrying("fetching", {}, row, NoRows)
<1>2. <<l, newest[l]>> \in Contests
    BY DEF Contests, FileInv, FileShape
<1>3. IsRows(row)
    BY <1>2, OneRow
<1>4. Turns(c, x)
    BY <1>1
<1> HIDE DEF row
<1>5. CommandOK(x) /\ x.at = "fetching"
    BY <1>3, NoRowsAre DEF CommandOK, Carrying
<1>6. /\ ~Writing(c) /\ UNCHANGED <<newest, file, torn, outdated, spoiled, told>>
      /\ downloads' \in 0..MaxDownloads
    BY Downloaded DEF FetchLatest, CommandAt, Writing
<1> HIDE DEF x
<1> QED
    BY <1>4, <1>5, <1>6, CommandMoves

LEMMA FetchNextStep ==
    ASSUME FileInv, NEW c \in Commands, FetchNext(c)
    PROVE  FileInv'
<1> DEFINE old == commands[c]
<1>1. PICK k \in old.todo \cap Drawn, v \in Versions :
         Turns(c, Carrying("fetching", old.todo \ {k},
                          MergeContests(old.fetched, [j \in {k} |-> v]), NoRows))
    BY DEF FetchNext
<1> DEFINE rows == MergeContests(old.fetched, [j \in {k} |-> v])
           x == Carrying("fetching", old.todo \ {k}, rows, NoRows)
<1>2. CommandOK(old)
    BY DEF FileInv, FileShape
<1>3. k \in Contests
    BY DEF Drawn
<1>4. IsRows(rows)
    BY <1>2, <1>3, OneRow, MergedRows DEF CommandOK
<1>5. Turns(c, x)
    BY <1>1
<1> HIDE DEF rows
<1>6. CommandOK(x) /\ x.at = "fetching"
    BY <1>2, <1>4, NoRowsAre DEF CommandOK, Carrying
<1>7. /\ ~Writing(c) /\ UNCHANGED <<newest, file, torn, outdated, spoiled, told>>
      /\ downloads' \in 0..MaxDownloads
    BY Downloaded DEF FetchNext, CommandAt, Writing
<1> HIDE DEF x
<1> QED
    BY <1>5, <1>6, <1>7, CommandMoves

\* A file that parses is what was reported: nobody writes it.
LEMMA LoadFileStep ==
    ASSUME FileInv, NEW c \in Commands, LoadFile(c)
    PROVE  FileInv'
<1> DEFINE old == commands[c]
           x == Carrying("loaded", {}, old.fetched, file)
<1>1. CommandOK(old) /\ old.at = "fetching" /\ ~torn
    BY DEF FileInv, FileShape, LoadFile, CommandAt
<1>2. Turns(c, x)
    BY DEF LoadFile
<1>3. CommandOK(x)
    BY <1>1 DEF FileInv, FileShape, CommandOK, Carrying
<1>4. x.at = "loaded" /\ x.loaded = file
    BY DEF Carrying
<1> HIDE DEF x
<1>5. /\ DOMAIN commands' = Commands
      /\ \A d \in Commands : commands'[d] = IF d = c THEN x ELSE commands[d]
    BY <1>2 DEF FileInv, FileShape, Turns
<1>6. UNCHANGED <<newest, file, torn, outdated, downloads, spoiled, told>>
    BY DEF LoadFile
<1>7. FileShape'
    BY <1>3, <1>5, <1>6 DEF FileInv, FileShape, CommandOK, IsRows
<1>8. \A d \in Commands :
         /\ Writing(d)' <=> Writing(d)
         /\ CommandAt(d, "loaded")' => CommandAt(d, "loaded") \/ d = c
    BY <1>1, <1>4, <1>5 DEF CommandAt, Writing
<1>9. ~spoiled => (\A d \in Commands : ~Writing(d)) /\ file = told
    BY <1>1 DEF FileInv, WriterKnows, ReportedIsStored
<1>10. ReportedIsStored' /\ (~spoiled' => WriterKnows' /\ ReaderKnows')
    BY <1>4, <1>5, <1>6, <1>8, <1>9 DEF FileInv, ReportedIsStored, WriterKnows, ReaderKnows, CommandAt, Writing
<1> QED
    BY <1>7, <1>10 DEF FileInv

\* A read that is not outdated means that nobody writes; every other is outdated now.
LEMMA OpenFileStep ==
    ASSUME FileInv, NEW c \in Commands, OpenFile(c)
    PROVE  FileInv'
<1> DEFINE old == commands[c]
           x == Carrying("writing", {}, old.fetched, old.loaded)
<1>1. CommandOK(old) /\ CommandAt(c, "loaded")
    BY DEF FileInv, FileShape, OpenFile
<1>2. Turns(c, x)
    BY DEF OpenFile
<1>3. CommandOK(x) /\ x.at = "writing" /\ x.loaded = old.loaded
    BY <1>1 DEF CommandOK, Carrying
<1>4. /\ file' = NoRows /\ torn' = TRUE
      /\ UNCHANGED <<newest, downloads, told>>
      /\ spoiled' \in BOOLEAN /\ (~spoiled' => ~spoiled /\ c \notin outdated)
    BY DEF OpenFile
<1>5. /\ outdated' \subseteq Commands
      /\ \A d \in Commands \ {c} : CommandAt(d, "loaded") => d \in outdated'
      /\ c \in outdated' => \E d \in Commands \ {c} : Writing(d)
    BY DEF OpenFile
<1> HIDE DEF x
<1>6. /\ DOMAIN commands' = Commands
      /\ \A d \in Commands : commands'[d] = IF d = c THEN x ELSE commands[d]
    BY <1>2 DEF FileInv, FileShape, Turns
<1>7. FileShape'
    BY <1>3, <1>4, <1>5, <1>6, NoRowsAre DEF FileInv, FileShape, CommandOK, IsRows
<1>8. /\ Writing(c)' /\ ~CommandAt(c, "loaded")'
      /\ \A d \in Commands \ {c} :
            (Writing(d)' <=> Writing(d)) /\ (CommandAt(d, "loaded")' <=> CommandAt(d, "loaded"))
    BY <1>3, <1>6 DEF CommandAt, Writing
<1>9. ~spoiled' => old.loaded = told /\ \A d \in Commands \ {c} : ~Writing(d)
    BY <1>1, <1>4 DEF FileInv, WriterKnows, ReaderKnows
<1>10. ReportedIsStored'
    BY <1>8 DEF ReportedIsStored
<1>11. ~spoiled' => WriterKnows'
    BY <1>3, <1>4, <1>5, <1>6, <1>8, <1>9 DEF WriterKnows
<1>12. ~spoiled' => ReaderKnows'
    BY <1>5, <1>8 DEF ReaderKnows
<1> QED
    BY <1>7, <1>10, <1>11, <1>12 DEF FileInv

\* What is written is what was reported, and what is reported now.
LEMMA WriteFileStep ==
    ASSUME FileInv, NEW c \in Commands, WriteFile(c)
    PROVE  FileInv'
<1> DEFINE old == commands[c]
           merged == MergeContests(old.loaded, old.fetched)
<1>1. Writing(c) /\ CommandOK(old)
    BY DEF WriteFile, FileInv, FileShape, CommandOK
<1>2. IsRows(merged) /\ IsRows(MergeContests(told, old.fetched))
    BY <1>1, MergedRows DEF CommandOK, FileInv, FileShape
<1>3. /\ told' = MergeContests(told, old.fetched)
      /\ Turns(c, NoCommand)
      /\ outdated' = outdated \ {c}
      /\ UNCHANGED <<newest, downloads, spoiled>>
    BY DEF WriteFile, MergeContests
<1>4. /\ torn' \in BOOLEAN
      /\ file' = IF torn' THEN NoRows ELSE merged
      /\ c \notin outdated => torn' = FALSE
    <2>1. PICK breaks \in IF c \in outdated THEN BOOLEAN ELSE {FALSE} :
             torn' = breaks /\ file' = IF breaks THEN NoRows ELSE merged
        BY DEF WriteFile
    <2> HIDE DEF merged
    <2> QED
        BY <2>1
<1>5. /\ DOMAIN commands' = Commands
      /\ \A d \in Commands : commands'[d] = IF d = c THEN NoCommand ELSE commands[d]
    BY <1>3 DEF FileInv, FileShape, Turns
<1> HIDE DEF merged
<1>6. IsRows(file') /\ IsRows(told')
    BY <1>2, <1>3, <1>4, NoRowsAre
<1>7. FileShape'
    BY <1>3, <1>4, <1>5, <1>6, IdleShape DEF FileInv, FileShape, CommandOK, IsRows
<1>8. \A d \in Commands :
         /\ Writing(d)' <=> Writing(d) /\ d # c
         /\ CommandAt(d, "loaded")' <=> CommandAt(d, "loaded") /\ d # c
    BY <1>5, IdleShape DEF CommandAt, Writing
<1>9. ASSUME ~spoiled
      PROVE  /\ ~torn' /\ file' = told'
             /\ \A d \in Commands \ {c} :
                   ~Writing(d) /\ (CommandAt(d, "loaded") => d \in outdated)
    <2>1. c \notin outdated /\ old.loaded = told
        BY <1>1, <1>9 DEF FileInv, WriterKnows
    <2>2. \A d \in Commands \ {c} :
             ~Writing(d) /\ (CommandAt(d, "loaded") => d \in outdated)
        BY <1>1, <1>9 DEF FileInv, WriterKnows
    <2> QED
        BY <1>3, <1>4, <2>1, <2>2 DEF merged
<1>10. ReportedIsStored'
    BY <1>3, <1>9 DEF ReportedIsStored
<1>11. ~spoiled' => WriterKnows'
    BY <1>3, <1>8, <1>9 DEF WriterKnows
<1>12. ~spoiled' => ReaderKnows'
    BY <1>3, <1>5, <1>8, <1>9 DEF ReaderKnows
<1> QED
    BY <1>7, <1>10, <1>11, <1>12 DEF FileInv

\* A command that ends without having written leaves the others what they knew; one
\* that is cut short while it writes spoils the file.
LEMMA EndsStep ==
    ASSUME FileInv, NEW c \in Commands, Turns(c, NoCommand),
           outdated' \subseteq outdated, outdated \ {c} \subseteq outdated',
           UNCHANGED <<newest, file, torn, downloads, told>>,
           spoiled' = (spoiled \/ Writing(c))
    PROVE  FileInv'
<1>1. /\ DOMAIN commands' = Commands
      /\ \A d \in Commands : commands'[d] = IF d = c THEN NoCommand ELSE commands[d]
    BY DEF FileInv, FileShape, Turns
<1>2. FileShape'
    BY <1>1, IdleShape DEF FileInv, FileShape, CommandOK, IsRows, CommandAt, Writing
<1>3. \A d \in Commands :
         /\ Writing(d)' <=> Writing(d) /\ d # c
         /\ CommandAt(d, "loaded")' <=> CommandAt(d, "loaded") /\ d # c
    BY <1>1, IdleShape DEF CommandAt, Writing
<1>4. ~spoiled' => ~spoiled /\ ~Writing(c)
    OBVIOUS
<1>5. ReportedIsStored'
    BY <1>3, <1>4 DEF FileInv, ReportedIsStored
<1>6. ~spoiled' => WriterKnows' /\ ReaderKnows'
    BY <1>1, <1>3, <1>4 DEF FileInv, WriterKnows, ReaderKnows
<1> QED
    BY <1>2, <1>5, <1>6 DEF FileInv

LEMMA DrawInFileStep == ASSUME FileInv, DrawInFile PROVE FileInv'
<1>1. UNCHANGED <<file, torn, commands, outdated, downloads, spoiled, told>>
    BY DEF DrawInFile
<1>2. newest' \in [FileLotteries -> 1..LastInFile]
    BY FileAssumption DEF FileAssumption, DrawInFile, FileInv, FileShape
<1> QED
    BY <1>1, <1>2 DEF FileInv, FileShape, CommandOK, IsRows, ReportedIsStored,
       WriterKnows, ReaderKnows, CommandAt, Writing

LEMMA FileInvStep == FileInv /\ [FileNext]_fileVars => FileInv'
<1> SUFFICES ASSUME FileInv, [FileNext]_fileVars PROVE FileInv'
    OBVIOUS
<1>1. ASSUME NEW c \in Commands,
             StartMissing(c) \/ StartRange(c) \/ FetchLatest(c) \/ FetchNext(c)
      PROVE  FileInv'
    BY <1>1, StartMissingStep, StartRangeStep, FetchLatestStep, FetchNextStep
<1>2. ASSUME NEW c \in Commands, LoadFile(c) \/ OpenFile(c) \/ WriteFile(c)
      PROVE  FileInv'
    BY <1>2, LoadFileStep, OpenFileStep, WriteFileStep
<1>3. ASSUME NEW c \in Commands, EndCommand(c)
      PROVE  FileInv'
    <2>1. spoiled' = (spoiled \/ Writing(c))
        BY <1>3 DEF EndCommand, CommandAt, Writing, FileInv, FileShape
    <2> QED
        BY <1>3, <2>1, EndsStep DEF EndCommand
<1>4. ASSUME NEW c \in Commands, BreakCommand(c)
      PROVE  FileInv'
    BY <1>4, EndsStep DEF BreakCommand
<1>5. CASE UNCHANGED fileVars
    BY <1>5 DEF fileVars, FileInv, FileShape, CommandOK, IsRows, ReportedIsStored,
       WriterKnows, ReaderKnows, CommandAt, Writing
<1> QED
    BY <1>1, <1>2, <1>3, <1>4, <1>5, DrawInFileStep DEF FileNext

\* Without a write from an outdated read and without one cut short, the file parses
\* whenever nobody writes it and holds what was reported of it, however the commands
\* interleave and wherever they fail (upsertContests() of src/data/jsonStore.ts).
THEOREM FileHoldsReported == FileSpec => []ReportedIsStored
<1>1. FileInv => ReportedIsStored
    BY DEF FileInv
<1> QED
    BY <1>1, FileInvInit, FileInvStep, PTL DEF FileSpec

LEMMA FileInvType == FileInv => FileTypeOK
BY DEF FileInv, FileShape, FileTypeOK, CommandOK

=============================================================================
