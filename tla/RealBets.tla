------------------------------ MODULE RealBets ------------------------------
(***************************************************************************)
(* The real bets of one lottery: how a bet is registered, and how what it  *)
(* won follows the payout tables CAIXA publishes and corrects.             *)
(*                                                                         *)
(* Bets are created by users (src/realBets/service.ts) and reconciled by   *)
(* three kinds of actors that no lock keeps apart: the operational sync of *)
(* the lottery (src/operations/sync.ts), the db:sync command               *)
(* (src/cli/dbSync.ts) and the requests of the API.  All read the stored   *)
(* contest first and write the bet later (src/persistence/                 *)
(* realBetRepository.ts).                                                  *)
(*                                                                         *)
(* A payout table is what PrizeTables tells of it: whether it has no tier, *)
(* some or all of them, and the total it gives the games of a bet.  total  *)
(* stands for the pair of doubles (totalPrizeValue, netResult).            *)
(***************************************************************************)
EXTENDS Naturals, FiniteSets

CONSTANTS
    NumContests,     \* contests 1..NumContests are drawn, in this order
    Window,          \* FINANCIAL_REPAIR_WINDOW
    Batches,         \* generated batches; a bet is known by its batch
    Target,          \* the contest each batch is played in
    Users,           \* requests that register bets
    Checkers,        \* requests that reconcile bets
    Values,          \* the totals a table may give
    Noisy,           \* those that NUMERIC(18, 2) does not give back unchanged
    None, Unknown,   \* nothing there; undefined
    MaxCorrections,  \* bound on the changes of published tables
    MaxImports,      \* bound on the runs of db:sync
    MaxFaults        \* bound on the syncs that fail half way

Contests == 1..NumContests
Actors   == {"sync", "import"} \cup Checkers

ASSUME BoundsAssumption ==
    NumContests \in Nat /\ Window \in Nat \ {0}
    /\ MaxCorrections \in Nat /\ MaxImports \in Nat /\ MaxFaults \in Nat
ASSUME TargetAssumption == Target \in [Batches -> Contests]
ASSUME ValuesAssumption ==
    Noisy \subseteq Values /\ Unknown \notin Values
ASSUME CheckersAssumption == Checkers \cap {"sync", "import"} = {}

VARIABLES
    official,   \* what CAIXA publishes of each contest
    stored,     \* contests and contest_prize_tiers
    bets,       \* real_bets
    revision,   \* the last real_bet_financial_revisions row of each bet
    user,       \* what each request that registers a bet is doing
    sync,       \* the sync: pc, the latest contest it found, what it fetched
    import,     \* db:sync: pc and what it fetched
    todo,       \* bets each actor has still to reconcile
    view,       \* the bet and the table each actor has read
    left        \* corrections, imports and faults still allowed

vars == <<official, stored, bets, revision, user, sync, import, todo, view, left>>
reconciling == <<bets, revision, todo, view>>

-----------------------------------------------------------------------------
(* Payout tables                                                           *)

\* A whole table gives every game a total (CompleteIsEnough of PrizeTables).
Tables ==
    [tiers : {"some", "all"}, total : Values]
    \cup [tiers : {"none", "some"}, total : {Unknown}]

\* CAIXA may answer with less than it has published.
Answers(t) ==
    {t} \cup [tiers : {"none", "some"}, total : {Unknown}]

\* upsertMany() of one contest: a whole table is never replaced by a part.
Upserted(old, new) ==
    IF old # None /\ (new.tiers = "none" \/ (new.tiers = "some" /\ old.tiers = "all"))
    THEN old ELSE new

\* upsertMany() of the contests of got.
StoredWith(got) ==
    [c \in Contests |->
        IF c \in DOMAIN got THEN Upserted(stored[c], got[c]) ELSE stored[c]]

Drawn == {c \in Contests : official[c] # None}
IsIn  == {c \in Contests : stored[c] # None}

\* The FINANCIAL_REPAIR_WINDOW most recent stored contests.
Recent == {c \in IsIn : Cardinality({d \in IsIn : d > c}) < Window}

NoFetch == [c \in {} |-> None]

-----------------------------------------------------------------------------
(* Bets                                                                    *)

Rows == [by : Users, checked : BOOLEAN, total : Values \cup {Unknown}]

ASSUME NoneAssumption == None \notin Rows

Placed    == {b \in Batches : bets[b] # None}
BetsOn(S) == {b \in Placed : Target[b] \in S}

\* A reconcilePending() that is content with a checked bet.
Unchecked == {b \in Placed : ~bets[b].checked}

\* The bets reconcilePending() selects.
Pending == {b \in Placed : ~bets[b].checked \/ bets[b].total = Unknown}

NewBet(u) == [by |-> u, checked |-> FALSE, total |-> Unknown]

\* Is total another double than the one read back from the row?
Differs(row, total) == row.total # total \/ total \in Noisy

\* isOfficialFinancialRevision that ignores a prize that disappears.
RevisesKnown(row, total) ==
    row.total # Unknown /\ total # Unknown /\ Differs(row, total)

\* isOfficialFinancialRevision that takes the first prize for a revision.
RevisesFirst(row, total) == Differs(row, total)

\* isOfficialFinancialRevision
Revises(row, total) == row.total # Unknown /\ Differs(row, total)

\* The row is written rounded, so the CHECK of a revision
\* (real_bet_financial_revision_changed) sees no change in a noisy total.
Refused(row, total) == Revises(row, total) /\ row.total = total

Init ==
    /\ official = [c \in Contests |-> None]
    /\ stored = [c \in Contests |-> None]
    /\ bets = [b \in Batches |-> None]
    /\ revision = [b \in Batches |-> None]
    /\ user = [u \in Users |-> [pc |-> "idle"]]
    /\ sync = [pc |-> "idle", latest |-> 0, got |-> NoFetch]
    /\ import = [pc |-> "idle", got |-> NoFetch]
    /\ todo = [a \in Actors |-> {}]
    /\ view = [a \in Actors |-> None]
    /\ left = [corrections |-> MaxCorrections, imports |-> MaxImports,
               faults |-> MaxFaults]

-----------------------------------------------------------------------------
(* CAIXA                                                                   *)

\* The next contest is drawn.
Draw ==
    /\ \E c \in Contests \ Drawn, t \in Tables :
          /\ \A d \in 1..(c - 1) : d \in Drawn
          /\ official' = [official EXCEPT ![c] = t]
    /\ UNCHANGED <<stored, user, sync, import, left, reconciling>>

\* Its table is completed or corrected.
Correct ==
    /\ left.corrections > 0
    /\ \E c \in Drawn, t \in Tables : official' = [official EXCEPT ![c] = t]
    /\ left' = [left EXCEPT !.corrections = @ - 1]
    /\ UNCHANGED <<stored, user, sync, import, reconciling>>

-----------------------------------------------------------------------------
(* RealBetService.create()                                                 *)

\* findByBatchId() finds no bet of the batch.
CreateAsked(u) ==
    /\ user[u].pc = "idle"
    /\ \E b \in Batches :
          /\ bets[b] = None
          /\ user' = [user EXCEPT ![u] = [pc |-> "asked", batch |-> b]]
    /\ UNCHANGED <<official, stored, sync, import, left, reconciling>>

\* findByNumber() finds the result: RESULT_ALREADY_KNOWN, or lets it pass.
CreateLooksUp(u) ==
    /\ user[u].pc = "asked"
    /\ user' = [user EXCEPT ![u].pc =
                   IF stored[Target[user[u].batch]] = None THEN "insert" ELSE "refused"]
    /\ UNCHANGED <<official, stored, sync, import, left, reconciling>>

\* An INSERT that no unique index on batch_id stops.
InsertedAnyway(b, row) == row

\* real_bets_batch_unique_idx leaves the first row of a batch there.
Inserted(b, row) == IF bets[b] = None THEN row ELSE bets[b]

\* create(): the row is ours, or REAL_BET_ALREADY_EXISTS.
CreateInserts(u) ==
    LET b   == user[u].batch
        row == Inserted(b, NewBet(u))
    IN  /\ user[u].pc = "insert"
        /\ bets' = [bets EXCEPT ![b] = row]
        /\ user' = [user EXCEPT ![u].pc = IF row.by = u THEN "created" ELSE "refused"]
        /\ UNCHANGED <<official, stored, revision, sync, import, todo, view, left>>

-----------------------------------------------------------------------------
(* reconcile(), by any actor a                                             *)

\* The bets are taken in the order of their contests.
NextBet(a, b) ==
    /\ b \in todo[a]
    /\ view[a] = None
    /\ \A o \in todo[a] : Target[b] <= Target[o]

\* reconcile() leaves a bet alone whose contest is not stored.
HasResult(b) == stored[Target[b]] # None

\* findById() and findByNumber().
ReconcileReads(a) ==
    /\ \E b \in todo[a] :
          /\ NextBet(a, b)
          /\ IF HasResult(b)
             THEN /\ view' = [view EXCEPT ![a] =
                                 [bet |-> b, table |-> stored[Target[b]]]]
                  /\ UNCHANGED todo
             ELSE /\ todo' = [todo EXCEPT ![a] = @ \ {b}]
                  /\ UNCHANGED view
    /\ UNCHANGED <<official, stored, bets, revision, user, sync, import, left>>

\* markChecked() writes what was read, whatever is stored by now.
ReconcileMarks(a) ==
    LET b     == view[a].bet
        total == view[a].table.total
    IN  /\ view[a] # None
        /\ ~Refused(bets[b], total)
        /\ revision' = [revision EXCEPT ![b] =
               IF Revises(bets[b], total) THEN [from |-> bets[b].total, to |-> total]
                                          ELSE @]
        /\ bets' = [bets EXCEPT ![b].checked = TRUE, ![b].total = total]
        /\ todo' = [todo EXCEPT ![a] = @ \ {b}]
        /\ view' = [view EXCEPT ![a] = None]
        /\ UNCHANGED <<official, stored, user, sync, import, left>>

\* The actor gives up: its request fails, or its lottery is "failed".
GivesUp(a) ==
    /\ todo' = [todo EXCEPT ![a] = {}]
    /\ view' = [view EXCEPT ![a] = None]
    /\ sync' = IF a = "sync" THEN [sync EXCEPT !.pc = "idle", !.got = NoFetch] ELSE sync
    /\ import' = IF a = "import" THEN [pc |-> "idle", got |-> NoFetch] ELSE import

\* markChecked() rolls back when the revision violates its CHECK.
ReconcileFails(a) ==
    /\ view[a] # None
    /\ Refused(bets[view[a].bet], view[a].table.total)
    /\ GivesUp(a)
    /\ UNCHANGED <<official, stored, bets, revision, user, left>>

\* A request checks one bet or reconciles all that are pending.
CheckerAsks(k) ==
    /\ todo[k] = {}
    /\ \E S \in {{b} : b \in Placed} \cup {Pending} :
          todo' = [todo EXCEPT ![k] = S]
    /\ UNCHANGED <<official, stored, bets, revision, user, sync, import, view, left>>

-----------------------------------------------------------------------------
(* The sync of the lottery (one at a time: SYNC_ADVISORY_LOCK)             *)

\* bootstrapLotteryHistory() asks for the latest contest.
SyncDiscovers ==
    /\ sync.pc = "idle"
    /\ \E c \in Drawn : \E t \in Answers(official[c]) :
          /\ \A d \in Drawn : d <= c
          /\ sync' = [pc |-> "discovered", latest |-> c, got |-> [d \in {c} |-> t]]
    /\ UNCHANGED <<official, stored, user, import, left, reconciling>>

\* It stores it at once.
SyncStoresLatest ==
    /\ sync.pc = "discovered"
    /\ stored' = StoredWith(sync.got)
    /\ sync' = [sync EXCEPT !.pc = "gaps"]
    /\ UNCHANGED <<official, user, import, left, reconciling>>

\* It fetches the contests it misses, as many as CAIXA answers.
SyncFillsGaps ==
    /\ sync.pc = "gaps"
    /\ \E S \in SUBSET (1..(sync.latest - 1) \ IsIn) :
       \E got \in [S -> Tables] :
          /\ \A c \in S : got[c] \in Answers(official[c])
          /\ stored' = StoredWith(got)
    /\ sync' = [sync EXCEPT !.pc = "filled"]
    /\ UNCHANGED <<official, user, import, left, reconciling>>

\* A refresh of the incomplete tables only.
IncompleteOnly == {c \in Recent : stored[c].tiers # "all"}

\* The contests refreshRelevantFinancialContests() refreshes.
Candidates == {c \in Recent : stored[c].tiers # "all" \/ BetsOn({c}) # {}}

\* refreshRelevantFinancialContests() fetches those CAIXA answers for; the
\* latest contest it has got already.
SyncFetches ==
    /\ sync.pc = "filled"
    /\ \E S \in SUBSET Candidates :
       \E got \in [S -> Tables] :
          /\ sync.latest \in Candidates => sync.latest \in S
          /\ \A c \in S : IF c = sync.latest THEN got[c] = sync.got[c]
                                             ELSE got[c] \in Answers(official[c])
          /\ sync' = [sync EXCEPT !.pc = "fetched", !.got = got]
    /\ UNCHANGED <<official, stored, user, import, left, reconciling>>

\* It stores them, and reconcileContestNumbers() selects the bets on them.
SyncRefreshes ==
    /\ sync.pc = "fetched"
    /\ stored' = StoredWith(sync.got)
    /\ todo' = [todo EXCEPT !["sync"] = BetsOn(DOMAIN sync.got)]
    /\ sync' = [sync EXCEPT !.pc = "refreshed", !.got = NoFetch]
    /\ UNCHANGED <<official, bets, revision, user, import, view, left>>

\* The agenda is stored and reconcilePending() selects its bets.
SyncTurnsToPending ==
    /\ sync.pc = "refreshed"
    /\ todo["sync"] = {}
    /\ todo' = [todo EXCEPT !["sync"] = Pending]
    /\ sync' = [sync EXCEPT !.pc = "pending"]
    /\ UNCHANGED <<official, stored, bets, revision, user, import, view, left>>

SyncEnds ==
    /\ sync.pc = "pending"
    /\ todo["sync"] = {}
    /\ sync' = [sync EXCEPT !.pc = "idle"]
    /\ UNCHANGED <<official, stored, user, import, left, reconciling>>

\* An error or a crash ends the sync of the lottery anywhere.
SyncFails ==
    /\ left.faults > 0
    /\ sync.pc # "idle"
    /\ GivesUp("sync")
    /\ left' = [left EXCEPT !.faults = @ - 1]
    /\ UNCHANGED <<official, stored, bets, revision, user>>

-----------------------------------------------------------------------------
(* db:sync                                                                 *)

ImportFetches ==
    /\ import.pc = "idle" /\ todo["import"] = {}
    /\ left.imports > 0
    /\ \E c \in Drawn : \E t \in Answers(official[c]) :
          import' = [pc |-> "fetched", got |-> [d \in {c} |-> t]]
    /\ left' = [left EXCEPT !.imports = @ - 1]
    /\ UNCHANGED <<official, stored, user, sync, reconciling>>

ImportStores ==
    /\ import.pc = "fetched"
    /\ stored' = StoredWith(import.got)
    /\ todo' = [todo EXCEPT !["import"] = Pending]
    /\ import' = [pc |-> "idle", got |-> NoFetch]
    /\ UNCHANGED <<official, bets, revision, user, sync, view, left>>

-----------------------------------------------------------------------------
Create(u)    == CreateAsked(u) \/ CreateLooksUp(u) \/ CreateInserts(u)
Reconcile(a) == ReconcileReads(a) \/ ReconcileMarks(a) \/ ReconcileFails(a)
Sync ==
    \/ SyncDiscovers \/ SyncStoresLatest \/ SyncFillsGaps \/ SyncFetches
    \/ SyncRefreshes \/ SyncTurnsToPending \/ SyncEnds

Next ==
    \/ Draw \/ Correct \/ Sync \/ SyncFails \/ ImportFetches \/ ImportStores
    \/ \E u \in Users : Create(u)
    \/ \E a \in Actors : Reconcile(a)
    \/ \E k \in Checkers : CheckerAsks(k)

\* The scheduler starts a sync every OPS_INTERVAL_MINUTES and a running one
\* goes on; whoever has begun to reconcile goes on too; and CAIXA, asked again
\* and again, answers again and again with all it has published.
Fairness ==
    /\ WF_vars(Sync)
    /\ SF_vars(SyncDiscovers /\ sync'.got[sync'.latest] = official[sync'.latest])
    /\ SF_vars(/\ SyncFetches
               /\ DOMAIN sync'.got = Candidates
               /\ \A c \in Candidates \ {sync.latest} : sync'.got[c] = official[c])
    /\ \A a \in Actors : WF_vars(Reconcile(a))
    /\ WF_vars(ImportStores)

Spec     == Init /\ [][Next]_vars
FairSpec == Spec /\ Fairness

-----------------------------------------------------------------------------
(* Properties                                                              *)

Requests == [pc : {"idle"}]
            \cup [pc : {"asked", "insert", "created", "refused"}, batch : Batches]
Fetched == UNION {[S -> Tables] : S \in SUBSET Contests}

\* Types.  The code behaviour: a bet is written with a total a stored table
\* gave it, and nobody reconciles a bet that was never inserted.
TypeOK ==
    /\ official \in [Contests -> Tables \cup {None}]
    /\ stored \in [Contests -> Tables \cup {None}]
    /\ bets \in [Batches -> Rows \cup {None}]
    /\ revision \in [Batches -> [from : Values, to : Values \cup {Unknown}] \cup {None}]
    /\ user \in [Users -> Requests]
    /\ sync.got \in Fetched /\ import.got \in Fetched
    /\ todo \in [Actors -> SUBSET Placed]
    /\ view \in [Actors -> [bet : Placed, table : Tables] \cup {None}]

\* A batch becomes one real bet: of the requests that register it at the same
\* time, one is told that it is created (real_bets_batch_unique_idx).
OneBetPerBatch ==
    \A u, w \in Users :
        /\ user[u].pc = "created" /\ user[w].pc = "created"
        /\ user[u].batch = user[w].batch
        => u = w

\* A prize the user has been shown never changes or disappears without a
\* revision that keeps it, whoever writes over whom (markChecked()).
NoPrizeLost ==
    [][\A b \in Placed :
          bets[b].total # Unknown /\ bets'[b].total # bets[b].total =>
              revision'[b] = [from |-> bets[b].total, to |-> bets'[b].total]]_vars

\* A bet on a contest with a whole table does not stay without a prize, even if
\* a late writer takes it away again (reconcilePending() in every sync).
PrizesSettle ==
    \A b \in Batches :
        <>[](b \in Placed /\ HasResult(b) /\ stored[Target[b]].tiers = "all"
                => bets[b].total # Unknown)

\* The last word of CAIXA on a recent contest is what the bets on it say in the
\* end (refreshRelevantFinancialContests() and reconcileContestNumbers()).
CorrectionsPropagate ==
    \A b \in Batches :
        <>[](b \in Placed /\ Target[b] \in Recent
             /\ official[Target[b]].tiers = "all"
                => bets[b].total = official[Target[b]].total)

\* A real bet is registered before its result is known (the comment of
\* RealBetService.create()).
LiveBetsOnly ==
    [][\A b \in Batches :
          bets[b] = None /\ bets'[b] # None => stored[Target[b]] = None]_vars
=============================================================================
