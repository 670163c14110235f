---------------------------- MODULE RealBetsProofs ----------------------------
(***************************************************************************)
(* Theorems about the real bets of the users, for every number of users,   *)
(* batches and bounds: one unique index makes a batch one bet, and what is *)
(* known of a prize is replaced only by a check that keeps the revision.   *)
(***************************************************************************)
EXTENDS RealBets, TLAPS

-----------------------------------------------------------------------------
(* Real bets *)

\* A request that was told "created" owns the row of its batch.
Owned ==
    \A u \in Users :
        user[u].pc = "created" =>
            bets[user[u].batch] # None /\ bets[user[u].batch].by = u

BetsInv == TypeOK /\ Owned

-----------------------------------------------------------------------------
(* Payout tables                                                           *)

\* CAIXA answers with payout tables.
LEMMA AnswersAreTables ==
    ASSUME NEW t \in Tables
    PROVE  Answers(t) \subseteq Tables
BY DEF Answers, Tables

\* What is fetched of contests keeps the store well typed.
LEMMA StoredIsTyped ==
    ASSUME TypeOK, NEW got, \A c \in DOMAIN got : got[c] \in Tables
    PROVE  StoredWith(got) \in [Contests -> Tables \cup {None}]
<1>1. \A old, new : Upserted(old, new) \in {old, new}
  BY DEF Upserted
<1>2. \A c \in Contests : stored[c] \in Tables \cup {None}
  BY DEF TypeOK
<1>3. QED
  BY <1>1, <1>2 DEF StoredWith

\* A fetch of one contest.
LEMMA OneFetched ==
    ASSUME NEW c \in Contests, NEW t \in Tables
    PROVE  [d \in {c} |-> t] \in Fetched
<1>1. {c} \in SUBSET Contests
  OBVIOUS
<1>2. [d \in {c} |-> t] \in [{c} -> Tables]
  OBVIOUS
<1>3. QED
  BY <1>1, <1>2 DEF Fetched

\* No fetch at all.
LEMMA NoneFetched == NoFetch \in Fetched
<1>1. NoFetch \in [{} -> Tables]
  BY DEF NoFetch
<1>2. {} \in SUBSET Contests
  OBVIOUS
<1>3. QED
  BY <1>1, <1>2 DEF Fetched

\* What was fetched are payout tables.
LEMMA FetchedAreTables ==
    ASSUME NEW got \in Fetched
    PROVE  DOMAIN got \subseteq Contests /\ \A c \in DOMAIN got : got[c] \in Tables
BY DEF Fetched

\* Rows of real_bets are not None.
LEMMA PlacedRow ==
    ASSUME TypeOK, NEW b \in Placed
    PROVE  b \in Batches /\ bets[b] \in Rows
BY DEF TypeOK, Placed

\* An actor that gives up holds nothing.
LEMMA GivingUp ==
    ASSUME BetsInv, NEW a \in Actors, GivesUp(a),
           UNCHANGED <<official, stored, bets, revision, user>>
    PROVE  BetsInv'
<1> USE DEF BetsInv
<1>1. todo' \in [Actors -> SUBSET Placed]
  BY DEF GivesUp, TypeOK
<1>2. view' \in [Actors -> [bet : Placed, table : Tables] \cup {None}]
  BY DEF GivesUp, TypeOK
<1>3. sync'.got \in Fetched
  <2>1. CASE a = "sync"
    <3>1. sync' = [sync EXCEPT !.pc = "idle", !.got = NoFetch]
      BY <2>1 DEF GivesUp
    <3>2. QED
      BY <3>1, NoneFetched
  <2>2. CASE a # "sync"
    BY <2>2 DEF GivesUp, TypeOK
  <2>3. QED
    BY <2>1, <2>2
<1>4. import'.got \in Fetched
  <2>1. CASE a = "import"
    BY <2>1, NoneFetched DEF GivesUp
  <2>2. CASE a # "import"
    BY <2>2 DEF GivesUp, TypeOK
  <2>3. QED
    BY <2>1, <2>2
<1>5. Placed' = Placed
  BY DEF Placed
<1>6. QED
  BY <1>1, <1>2, <1>3, <1>4, <1>5 DEF TypeOK, Owned

-----------------------------------------------------------------------------
(* The invariant                                                           *)

\* No bet exists at first.
LEMMA InitBets == Init => BetsInv
<1> SUFFICES ASSUME Init PROVE BetsInv
  OBVIOUS
<1>1. TypeOK
  BY NoneFetched DEF Init, TypeOK, Requests
<1>2. Owned
  BY DEF Init, Owned
<1>3. QED
  BY <1>1, <1>2 DEF BetsInv

\* The steps of CAIXA, the sync and db:sync leave the bets alone.
LEMMA EnvironmentKeeps ==
    ASSUME BetsInv,
           Draw \/ Correct \/ Sync \/ SyncFails \/ ImportFetches \/ ImportStores
    PROVE  BetsInv'
<1> USE DEF BetsInv
<1>1. CASE Draw
  BY <1>1 DEF Draw, TypeOK, Owned, Placed, reconciling
<1>2. CASE Correct
  BY <1>2 DEF Correct, TypeOK, Owned, Placed, reconciling, Drawn
<1>3. CASE Sync
  <2>1. CASE SyncDiscovers
    <3>1. sync'.got \in Fetched
      <4>1. PICK c \in Drawn : \E t \in Answers(official[c]) :
               sync' = [pc |-> "discovered", latest |-> c, got |-> [d \in {c} |-> t]]
        BY <2>1 DEF SyncDiscovers
      <4>t. PICK t \in Answers(official[c]) : sync'.got = [d \in {c} |-> t]
        BY <4>1
      <4>2. c \in Contests /\ official[c] \in Tables
        BY DEF TypeOK, Drawn
      <4>3. t \in Tables
        BY <4>2, AnswersAreTables
      <4>4. QED
        BY <4>t, <4>2, <4>3, OneFetched
    <3>2. QED
      BY <2>1, <3>1 DEF SyncDiscovers, TypeOK, Owned, Placed, reconciling
  <2>2. CASE SyncStoresLatest
    <3>1. stored' \in [Contests -> Tables \cup {None}]
      BY <2>2, StoredIsTyped, FetchedAreTables DEF SyncStoresLatest, TypeOK
    <3>2. sync'.got = sync.got
      BY <2>2 DEF SyncStoresLatest
    <3>3. QED
      BY <2>2, <3>1, <3>2 DEF SyncStoresLatest, TypeOK, Owned, Placed, reconciling
  <2>3. CASE SyncFillsGaps
    <3>1. stored' \in [Contests -> Tables \cup {None}]
      <4>1. PICK S \in SUBSET (1..(sync.latest - 1) \ IsIn) :
               \E got \in [S -> Tables] : stored' = StoredWith(got)
        BY <2>3 DEF SyncFillsGaps
      <4>2. PICK got \in [S -> Tables] : stored' = StoredWith(got)
        BY <4>1
      <4>3. QED
        BY <4>2, StoredIsTyped
    <3>2. sync'.got = sync.got
      BY <2>3 DEF SyncFillsGaps
    <3>3. QED
      BY <2>3, <3>1, <3>2 DEF SyncFillsGaps, TypeOK, Owned, Placed, reconciling
  <2>4. CASE SyncFetches
    <3>1. sync'.got \in Fetched
      <4>1. PICK S \in SUBSET Candidates : \E got \in [S -> Tables] :
               sync' = [sync EXCEPT !.pc = "fetched", !.got = got]
        BY <2>4 DEF SyncFetches
      <4>2. S \in SUBSET Contests
        BY DEF Candidates, Recent, IsIn
      <4>3. sync'.got \in [S -> Tables]
        BY <4>1
      <4>4. QED
        BY <4>2, <4>3 DEF Fetched
    <3>2. QED
      BY <2>4, <3>1 DEF SyncFetches, TypeOK, Owned, Placed, reconciling
  <2>5. CASE SyncRefreshes
    <3>1. stored' \in [Contests -> Tables \cup {None}]
      BY <2>5, StoredIsTyped, FetchedAreTables DEF SyncRefreshes, TypeOK
    <3>2. sync'.got \in Fetched
      BY <2>5, NoneFetched DEF SyncRefreshes
    <3>3. todo' \in [Actors -> SUBSET Placed] /\ Placed' = Placed
      BY <2>5 DEF SyncRefreshes, TypeOK, BetsOn, Placed
    <3>4. QED
      BY <2>5, <3>1, <3>2, <3>3 DEF SyncRefreshes, TypeOK, Owned
  <2>6. CASE SyncTurnsToPending
    <3>1. sync'.got = sync.got
      BY <2>6 DEF SyncTurnsToPending
    <3>2. todo' \in [Actors -> SUBSET Placed] /\ Placed' = Placed
      BY <2>6 DEF SyncTurnsToPending, TypeOK, Pending, Placed
    <3>3. QED
      BY <2>6, <3>1, <3>2 DEF SyncTurnsToPending, TypeOK, Owned
  <2>7. CASE SyncEnds
    BY <2>7 DEF SyncEnds, TypeOK, Owned, Placed, reconciling
  <2>8. QED
    BY <1>3, <2>1, <2>2, <2>3, <2>4, <2>5, <2>6, <2>7 DEF Sync
<1>4. CASE SyncFails
  BY <1>4, GivingUp DEF SyncFails, Actors
<1>5. CASE ImportFetches
  <2>1. import'.got \in Fetched
    <3>1. PICK c \in Drawn : \E t \in Answers(official[c]) :
             import' = [pc |-> "fetched", got |-> [d \in {c} |-> t]]
      BY <1>5 DEF ImportFetches
    <3>t. PICK t \in Answers(official[c]) : import'.got = [d \in {c} |-> t]
      BY <3>1
    <3>2. c \in Contests /\ official[c] \in Tables
      BY DEF TypeOK, Drawn
    <3>3. t \in Tables
      BY <3>2, AnswersAreTables
    <3>4. QED
      BY <3>t, <3>2, <3>3, OneFetched
  <2>2. QED
    BY <1>5, <2>1 DEF ImportFetches, TypeOK, Owned, Placed, reconciling
<1>6. CASE ImportStores
  <2>1. stored' \in [Contests -> Tables \cup {None}]
    BY <1>6, StoredIsTyped, FetchedAreTables DEF ImportStores, TypeOK
  <2>2. import'.got \in Fetched
    BY <1>6, NoneFetched DEF ImportStores
  <2>3. todo' \in [Actors -> SUBSET Placed] /\ Placed' = Placed
    BY <1>6 DEF ImportStores, TypeOK, Pending, Placed
  <2>4. QED
    BY <1>6, <2>1, <2>2, <2>3 DEF ImportStores, TypeOK, Owned
<1>7. QED
  BY <1>1, <1>2, <1>3, <1>4, <1>5, <1>6

\* A request that registers a bet.
LEMMA CreateKeeps ==
    ASSUME BetsInv, NEW u \in Users, Create(u)
    PROVE  BetsInv'
<1> USE DEF BetsInv
<1>1. CASE CreateAsked(u)
  BY <1>1 DEF CreateAsked, TypeOK, Owned, Placed, reconciling, Requests
<1>2. CASE CreateLooksUp(u)
  <2>1. user[u] \in [pc : {"asked", "insert", "created", "refused"}, batch : Batches]
    BY <1>2 DEF CreateLooksUp, TypeOK, Requests
  <2>2. user' \in [Users -> Requests]
    BY <1>2, <2>1 DEF CreateLooksUp, TypeOK, Requests
  <2>3. QED
    BY <1>2, <2>2 DEF CreateLooksUp, TypeOK, Owned, Placed, reconciling
<1>3. CASE CreateInserts(u)
  <2> DEFINE b   == user[u].batch
             row == Inserted(b, NewBet(u))
  <2>1. user[u] \in [pc : {"asked", "insert", "created", "refused"}, batch : Batches]
    BY <1>3 DEF CreateInserts, TypeOK, Requests
  <2>2. b \in Batches
    BY <2>1
  <2>3. NewBet(u) \in Rows
    BY DEF NewBet, Rows
  <2>4. row \in Rows /\ (bets[b] # None => row = bets[b])
    BY <2>2, <2>3 DEF Inserted, TypeOK
  <2>5. /\ bets' = [bets EXCEPT ![b] = row]
        /\ user' = [user EXCEPT ![u].pc = IF row.by = u THEN "created" ELSE "refused"]
        /\ UNCHANGED <<official, stored, revision, sync, import, todo, view, left>>
    BY <1>3 DEF CreateInserts
  <2> HIDE DEF row
  <2>6. bets' \in [Batches -> Rows \cup {None}]
    BY <2>4, <2>5 DEF TypeOK
  <2>7. user' \in [Users -> Requests]
    BY <2>1, <2>5 DEF TypeOK, Requests
  <2>8. Placed \subseteq Placed'
    BY <2>2, <2>4, <2>5, NoneAssumption DEF Placed, TypeOK
  <2>9. TypeOK'
    BY <2>5, <2>6, <2>7, <2>8 DEF TypeOK
  <2>10. Owned'
    <3> SUFFICES ASSUME NEW w \in Users, user'[w].pc = "created"
                 PROVE  bets'[user'[w].batch] # None /\ bets'[user'[w].batch].by = w
      BY DEF Owned
    <3>1. CASE w = u
      BY <3>1, <2>1, <2>2, <2>4, <2>5, NoneAssumption DEF TypeOK
    <3>2. CASE w # u
      <4>1. user'[w] = user[w]
        BY <3>2, <2>5 DEF TypeOK
      <4>2. user[w].batch \in Batches
        BY <4>1 DEF TypeOK, Requests
      <4>3. bets[user[w].batch] # None /\ bets[user[w].batch].by = w
        BY <4>1 DEF Owned
      <4>4. QED
        BY <4>1, <4>2, <4>3, <2>2, <2>4, <2>5 DEF TypeOK
    <3>3. QED
      BY <3>1, <3>2
  <2>11. QED
    BY <2>9, <2>10
<1>4. QED
  BY <1>1, <1>2, <1>3 DEF Create

\* A reconcile marks a row but leaves it to its owner.
LEMMA ReconcileKeeps ==
    ASSUME BetsInv, NEW a \in Actors, Reconcile(a)
    PROVE  BetsInv'
<1> USE DEF BetsInv
<1>1. CASE ReconcileReads(a)
  <2>1. PICK b \in todo[a] :
           IF HasResult(b)
           THEN /\ view' = [view EXCEPT ![a] = [bet |-> b, table |-> stored[Target[b]]]]
                /\ UNCHANGED todo
           ELSE /\ todo' = [todo EXCEPT ![a] = @ \ {b}]
                /\ UNCHANGED view
    BY <1>1 DEF ReconcileReads
  <2>2. b \in Placed /\ b \in Batches /\ Placed' = Placed
    BY <1>1 DEF TypeOK, Placed, ReconcileReads
  <2>3. HasResult(b) => stored[Target[b]] \in Tables
    BY <2>2, TargetAssumption DEF HasResult, TypeOK
  <2>4. /\ view' \in [Actors -> [bet : Placed, table : Tables] \cup {None}]
        /\ todo' \in [Actors -> SUBSET Placed]
    BY <2>1, <2>2, <2>3 DEF TypeOK
  <2>5. QED
    BY <1>1, <2>2, <2>4 DEF ReconcileReads, TypeOK, Owned
<1>2. CASE ReconcileMarks(a)
  <2> DEFINE b     == view[a].bet
             total == view[a].table.total
             row   == [bets[b] EXCEPT !.checked = TRUE, !.total = total]
  <2>1. b \in Placed /\ view[a].table \in Tables
    BY <1>2 DEF ReconcileMarks, TypeOK
  <2>2. b \in Batches /\ bets[b] \in Rows /\ total \in Values \cup {Unknown}
    BY <2>1, PlacedRow DEF Tables
  <2>3. row \in Rows /\ row.by = bets[b].by
    BY <2>2 DEF Rows
  <2>4. /\ bets' = [bets EXCEPT ![b] = row]
        /\ todo' = [todo EXCEPT ![a] = @ \ {b}]
        /\ view' = [view EXCEPT ![a] = None]
        /\ UNCHANGED <<official, stored, user, sync, import, left>>
    BY <1>2 DEF ReconcileMarks
  <2>5. Placed' = Placed
    BY <2>1, <2>2, <2>3, <2>4, NoneAssumption DEF Placed, TypeOK
  <2>6. revision' \in [Batches -> [from : Values, to : Values \cup {Unknown}] \cup {None}]
    <3>1. Revises(bets[b], total) => bets[b].total \in Values
      BY <2>2 DEF Revises, Rows
    <3>2. revision' = [revision EXCEPT ![b] =
              IF Revises(bets[b], total) THEN [from |-> bets[b].total, to |-> total]
                                         ELSE @]
      BY <1>2 DEF ReconcileMarks
    <3>3. QED
      BY <3>1, <3>2, <2>2 DEF TypeOK
  <2>7. bets' \in [Batches -> Rows \cup {None}]
    BY <2>3, <2>4 DEF TypeOK
  <2> HIDE DEF row
  <2>8. TypeOK'
    BY <2>4, <2>5, <2>6, <2>7 DEF TypeOK
  <2>9. Owned'
    BY <2>1, <2>2, <2>3, <2>4, NoneAssumption DEF Owned, TypeOK, Placed
  <2>10. QED
    BY <2>8, <2>9
<1>3. CASE ReconcileFails(a)
  BY <1>3, GivingUp DEF ReconcileFails
<1>4. QED
  BY <1>1, <1>2, <1>3 DEF Reconcile

\* Every step keeps the invariant.
LEMMA StepKeeps == BetsInv /\ [Next]_vars => BetsInv'
<1> SUFFICES ASSUME BetsInv, [Next]_vars PROVE BetsInv'
  OBVIOUS
<1>1. CASE Draw \/ Correct \/ Sync \/ SyncFails \/ ImportFetches \/ ImportStores
  BY <1>1, EnvironmentKeeps
<1>2. CASE \E u \in Users : Create(u)
  BY <1>2, CreateKeeps
<1>3. CASE \E a \in Actors : Reconcile(a)
  BY <1>3, ReconcileKeeps
<1>4. CASE \E k \in Checkers : CheckerAsks(k)
  <2>1. PICK k \in Checkers : CheckerAsks(k)
    BY <1>4
  <2>2. PICK S \in SUBSET Placed : todo' = [todo EXCEPT ![k] = S]
    <3>1. PICK S \in {{b} : b \in Placed} \cup {Pending} : todo' = [todo EXCEPT ![k] = S]
      BY <2>1 DEF CheckerAsks
    <3>2. S \subseteq Placed
      BY DEF Pending
    <3>3. QED
      BY <3>1, <3>2
  <2>3. Placed' = Placed
    BY <2>1 DEF CheckerAsks, Placed
  <2>4. todo' \in [Actors -> SUBSET Placed]
    BY <2>2 DEF BetsInv, TypeOK
  <2>5. QED
    BY <2>1, <2>3, <2>4 DEF CheckerAsks, BetsInv, TypeOK, Owned
<1>5. CASE UNCHANGED vars
  BY <1>5 DEF vars, BetsInv, TypeOK, Owned, Placed
<1>6. QED
  BY <1>1, <1>2, <1>3, <1>4, <1>5 DEF Next

\* The types of the module, and who owns the row of a batch, hold throughout.
THEOREM BetsInvariant == Spec => []BetsInv
BY InitBets, StepKeeps, PTL DEF Spec

\* The tables, the requests and the rows of the store are well formed in every
\* state (RealBetService and PostgresRealBetRepository).
THEOREM TypeCorrect == Spec => []TypeOK
<1>1. BetsInv => TypeOK
  BY DEF BetsInv
<1>2. QED
  BY <1>1, BetsInvariant, PTL

\* A batch becomes one real bet: two requests are never both told "created"
\* for it (real_bets_batch_unique_idx).
THEOREM BatchBecomesOneBet == Spec => []OneBetPerBatch
<1>1. BetsInv => OneBetPerBatch
  BY DEF BetsInv, Owned, OneBetPerBatch
<1>2. QED
  BY <1>1, BetsInvariant, PTL

\* A known prize never changes or disappears without the revision that keeps
\* it (markChecked()).
THEOREM PrizesAreKept == Spec => NoPrizeLost
<1> DEFINE Kept ==
      \A b \in Placed :
          bets[b].total # Unknown /\ bets'[b].total # bets[b].total =>
              revision'[b] = [from |-> bets[b].total, to |-> bets'[b].total]
<1>1. BetsInv /\ [Next]_vars => [Kept]_vars
  <2> SUFFICES ASSUME BetsInv, Next, NEW b \in Placed,
                      bets[b].total # Unknown, bets'[b].total # bets[b].total
               PROVE  revision'[b] = [from |-> bets[b].total, to |-> bets'[b].total]
    OBVIOUS
  <2> USE DEF BetsInv
  <2>1. b \in Batches /\ bets[b] # None /\ bets' # bets
    BY DEF Placed
  <2>2. CASE \E u \in Users : CreateInserts(u)
    <3>1. PICK u \in Users :
             bets' = [bets EXCEPT ![user[u].batch] = Inserted(user[u].batch, NewBet(u))]
      BY <2>2 DEF CreateInserts
    <3>2. bets'[b] = bets[b]
      BY <3>1, <2>1 DEF Inserted, TypeOK
    <3>3. QED
      BY <3>2
  <2>3. CASE \E a \in Actors : ReconcileMarks(a)
    <3>1. PICK a \in Actors : ReconcileMarks(a)
      BY <2>3
    <3> DEFINE c     == view[a].bet
               total == view[a].table.total
    <3>2. c \in Placed /\ c \in Batches /\ bets[c] \in Rows
      BY <3>1, PlacedRow DEF ReconcileMarks, TypeOK
    <3>3. /\ revision' = [revision EXCEPT ![c] =
                 IF Revises(bets[c], total) THEN [from |-> bets[c].total, to |-> total]
                                            ELSE @]
          /\ bets' = [bets EXCEPT ![c].checked = TRUE, ![c].total = total]
      BY <3>1 DEF ReconcileMarks
    <3> HIDE DEF c, total
    <3>4. b = c
      BY <3>2, <3>3, <2>1 DEF TypeOK
    <3>5. bets'[b].total = total
      BY <3>2, <3>3, <3>4 DEF TypeOK, Rows
    <3>6. Revises(bets[c], total)
      BY <3>4, <3>5 DEF Revises, Differs
    <3>7. QED
      BY <2>1, <3>3, <3>4, <3>5, <3>6 DEF TypeOK
  <2>4. QED
    BY <2>1, <2>2, <2>3
       DEF Next, Draw, Correct, Sync, SyncDiscovers, SyncStoresLatest, SyncFillsGaps,
           SyncFetches, SyncRefreshes, SyncTurnsToPending, SyncEnds, SyncFails,
           ImportFetches, ImportStores, Create, CreateAsked, CreateLooksUp, Reconcile,
           ReconcileReads, ReconcileFails, CheckerAsks, reconciling
<1>2. QED
  BY <1>1, BetsInvariant, PTL DEF Spec, NoPrizeLost
=============================================================================
