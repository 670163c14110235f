---------------------------- MODULE ContestData ----------------------------
(***************************************************************************)
(* What CAIXA publishes, the two tables it ends up in, and the             *)
(* reconciliation with a second source (src/data/caixa.ts,                 *)
(* caixaProduct.ts, maickonSecondarySource.ts,                             *)
(* src/persistence/contestRepository.ts, lotteryProductResultRepository.ts,*)
(* src/application/reconcileContestData.ts, syncLotteryProducts.ts).  The  *)
(* file of the commands is the subject of ContestFile.                     *)
(*                                                                         *)
(* A payload has a draw (the version of its date and numbers, which CAIXA  *)
(* may correct), the part that belongs to one kind of lottery only (month, *)
(* clovers, team, second draw, matches, tickets), which may be missing,    *)
(* and an amount, which may be missing.  The payout table is the subject   *)
(* of PrizeTables.                                                         *)
(***************************************************************************)
EXTENDS Integers, FiniteSets, FiniteSetsExt, Sequences

CONSTANTS
    Kinds,          \* the lotteries explored
    MaxDraw,        \* contests 1..MaxDraw are drawn
    Corrections,    \* bound on the draws CAIXA corrects
    CompareLimit,   \* contests a reconciliation compares
    MaxPayloads     \* bound on the payloads answered

WithPart == {"dia-de-sorte", "timemania", "mais-milionaria", "dupla-sena", "loteca", "federal"}
Numeric == {"mega-sena", "lotofacil", "quina", "lotomania", "super-sete"}
ContestKinds == (Numeric \cup WithPart) \ {"loteca", "federal"}
Compared == {"mega-sena", "lotofacil"}

ASSUME DataAssumption ==
    /\ Kinds \subseteq Numeric \cup WithPart
    /\ MaxDraw \in Nat \ {0} /\ Corrections \in Nat
    /\ CompareLimit \in 1..20 /\ MaxPayloads \in Nat

VARIABLES
    kind,       \* the lottery
    official,   \* contest |-> version of its draw, for the contests drawn
    answered,   \* payloads answered so far
    contestRows,   \* table contests: contest |-> row
    products,   \* table lottery_product_results: contest |-> row
    second,     \* the second source: contest |-> version
    check       \* a running reconciliation

dataVars == <<kind, official, answered, contestRows, products, second, check>>

-----------------------------------------------------------------------------
(* Payloads                                                                *)

\* What CAIXA may answer for the contest n: its own part and its amount come
\* with it or later.
Payloads(n) == [contest : {n}, draw : {official[n]}, part : BOOLEAN, amount : BOOLEAN]

\* normalizeCaixaContest() refuses a lottery's missing part, but for the month
\* of Dia de Sorte.
ContestAccepts(p) == kind \in Numeric \cup {"dia-de-sorte"} \/ p.part

\* normalizeCaixaProductResult() refuses it for every product that has one.
ProductAccepts(p) == kind \in Numeric \/ p.part

RowOf(p) == [draw |-> p.draw, part |-> kind \in WithPart /\ p.part, amount |-> p.amount]

-----------------------------------------------------------------------------
(* The tables                                                              *)

\* An upsert that takes the payload as it is.
Replace(table, p) ==
    [n \in DOMAIN table \cup {p.contest} |-> IF n = p.contest THEN RowOf(p) ELSE table[n]]

\* upsertMany(): the draw is the payload's, what it lacks is kept.
Coalesce(table, p) ==
    [n \in DOMAIN table \cup {p.contest} |->
        IF n # p.contest THEN table[n]
        ELSE IF n \notin DOMAIN table THEN RowOf(p)
        ELSE [draw   |-> p.draw,
              part   |-> RowOf(p).part \/ table[n].part,
              amount |-> p.amount \/ table[n].amount]]

TakeAnswer == answered < MaxPayloads /\ answered' = answered + 1

\* The products' upsertMany(): the result is the payload's, whatever it lacks;
\* only the amount is kept.
CoalesceAmount(table, p) ==
    [Coalesce(table, p) EXCEPT ![p.contest].part = RowOf(p).part]

\* A synchronization fetches a contest and stores it.
SyncContest ==
    /\ kind \in ContestKinds /\ TakeAnswer
    /\ \E n \in DOMAIN official : \E p \in Payloads(n) :
          ContestAccepts(p) /\ contestRows' = Coalesce(contestRows, p)
    /\ UNCHANGED <<kind, official, products, second, check>>

\* syncLotteryProducts(): always the latest contest; a refused payload is
\* reported as failed and changes nothing.
SyncProduct ==
    /\ TakeAnswer
    /\ \E p \in Payloads(Max(DOMAIN official)) :
          ProductAccepts(p) /\ products' = CoalesceAmount(products, p)
    /\ UNCHANGED <<kind, official, contestRows, second, check>>

-----------------------------------------------------------------------------
(* Reconciliation                                                          *)

NoCheck == [stage |-> "none", todo |-> <<>>, latest |-> 0, items |-> {}, counts |-> <<0, 0, 0, 0, 0>>]
Statuses == <<"consistent", "secondary-stale", "contest-missing", "content-divergence",
              "source-unavailable">>

NewestOf(set, k) == {n \in set : Cardinality({m \in set : m >= n}) <= k}
Descending(set) == [i \in 1..Cardinality(set) |->
                       CHOOSE n \in set : Cardinality({m \in set : m >= n}) = i]

\* contests.list({ order: "desc", limit }) before any request to the source.
StartCheck ==
    /\ kind \in Compared /\ check.stage = "none"
    /\ LET listed == Descending(NewestOf(DOMAIN contestRows, CompareLimit))
       IN check' = [NoCheck EXCEPT !.stage = "latest",
             !.todo = [i \in DOMAIN listed |-> <<listed[i], contestRows[listed[i]].draw>>]]
    /\ UNCHANGED <<kind, official, answered, contestRows, products, second>>

Item(row, s, seen) == [contest |-> row[1], draw |-> row[2], status |-> Statuses[s], seen |-> seen]

\* Without its source, every contest is reported so at once.
ReportUnavailable ==
    check' = [check EXCEPT !.stage = "done", !.todo = <<>>,
                !.items = {Item(check.todo[i], 5, 0) : i \in DOMAIN check.todo},
                !.counts = [check.counts EXCEPT ![5] = Len(check.todo)]]

\* latestContestNumber()
AskLatest ==
    /\ check.stage = "latest"
    /\ \/ /\ DOMAIN second # {}
          /\ check' = [check EXCEPT !.stage = "compare", !.latest = Max(DOMAIN second)]
       \/ ReportUnavailable
    /\ UNCHANGED <<kind, official, answered, contestRows, products, second>>

Report(s, seen) ==
    check' = [check EXCEPT !.todo = Tail(check.todo),
                !.counts = [check.counts EXCEPT ![s] = @ + 1],
                !.items = check.items \cup {Item(Head(check.todo), s, seen)}]

Reached(n) == n <= check.latest

CompareNext ==
    /\ check.stage = "compare" /\ check.todo # <<>>
    /\ LET n == Head(check.todo)[1]
       IN \/ ~Reached(n) /\ Report(2, 0)
          \/ Reached(n) /\ Report(5, 0)
          \/ Reached(n) /\ IF n \notin DOMAIN second THEN Report(3, 0)
                           ELSE Report(IF second[n] = Head(check.todo)[2] THEN 1 ELSE 4, second[n])
    /\ UNCHANGED <<kind, official, answered, contestRows, products, second>>

EndCheck ==
    /\ check.stage = "compare" /\ check.todo = <<>>
    /\ check' = [check EXCEPT !.stage = "done"]
    /\ UNCHANGED <<kind, official, answered, contestRows, products, second>>

ForgetCheck ==
    /\ check.stage = "done"
    /\ check' = NoCheck
    /\ UNCHANGED <<kind, official, answered, contestRows, products, second>>

-----------------------------------------------------------------------------
(* The outside world                                                       *)

\* A contest is drawn.
Draw ==
    /\ Cardinality(DOMAIN official) < MaxDraw
    /\ official' = Append(official, 1)
    /\ UNCHANGED <<kind, answered, contestRows, products, second, check>>

\* CAIXA corrects a draw it has published.
Correct ==
    /\ \E n \in DOMAIN official :
          /\ MapThenSumSet(LAMBDA m : official[m] - 1, DOMAIN official) < Corrections
          /\ official' = [official EXCEPT ![n] = @ + 1]
    /\ UNCHANGED <<kind, answered, contestRows, products, second, check>>

\* The second source copies a draw of its own, late and in any order.
Copy ==
    /\ kind \in Compared
    /\ \E n \in {m \in DOMAIN official : m \in DOMAIN second => second[m] # official[m]} :
          second' = [m \in DOMAIN second \cup {n} |-> IF m = n THEN official[n] ELSE second[m]]
    /\ UNCHANGED <<kind, official, answered, contestRows, products, check>>

-----------------------------------------------------------------------------

DataInit ==
    /\ kind \in Kinds
    /\ official = <<1>>
    /\ answered = 0
    /\ contestRows = <<>> /\ products = <<>> /\ second = <<>>
    /\ check = NoCheck

DataNext ==
    \/ SyncContest \/ SyncProduct
    \/ StartCheck \/ AskLatest \/ CompareNext \/ EndCheck \/ ForgetCheck
    \/ Draw \/ Correct \/ Copy

DataSpec == DataInit /\ [][DataNext]_dataVars

-----------------------------------------------------------------------------
(* Properties                                                              *)

IsRow(row) == row.draw \in Nat /\ row.part \in BOOLEAN /\ row.amount \in BOOLEAN

\* The tables hold rows of contests that were drawn.
DataTypeOK ==
    /\ kind \in Kinds
    /\ DOMAIN contestRows \cup DOMAIN products \subseteq DOMAIN official
    /\ \A n \in DOMAIN contestRows : IsRow(contestRows[n])
    /\ \A n \in DOMAIN products : IsRow(products[n])
    /\ check.stage \in {"none", "latest", "compare", "done"}

Richer(row, old) == (old.part => row.part) /\ (old.amount => row.amount)
Keeps(new, old) == \A n \in DOMAIN old : n \in DOMAIN new /\ Richer(new[n], old[n])

\* No step makes a table of the database forget a contest, or a month, a second
\* draw or an amount it knew, however poor the later payload: the contests keep what
\* a payload lacks, the products refuse it.
NothingForgotten ==
    [][Keeps(contestRows', contestRows) /\ Keeps(products', products)]_dataVars

\* Whatever is synchronized or published meanwhile, a reconciliation reports each
\* contest it read exactly once; its counts are those of its items; a difference
\* is reported only for two draws that differ, and a contest the second source
\* had not reached is late, never missing or different.
ReconcileAddsUp ==
    /\ \A s \in DOMAIN Statuses :
          check.counts[s] = Cardinality({i \in check.items : i.status = Statuses[s]})
    /\ \A i, j \in check.items : i.contest = j.contest => i = j
    /\ \A i \in check.items :
          /\ \A k \in DOMAIN check.todo : check.todo[k][1] # i.contest
          /\ i.status = "content-divergence" => i.seen # i.draw
          /\ i.status = "consistent" => i.seen = i.draw
          /\ i.status \in {"consistent", "contest-missing", "content-divergence"}
                => i.contest <= check.latest

\* What the database learnt of the contests stays, and what is reported of it is so.
DataSafe == NothingForgotten /\ []ReconcileAddsUp
=============================================================================
