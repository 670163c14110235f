----------------------------- MODULE Strategies -----------------------------
(***************************************************************************)
(* The catalogue of strategies: one row for a slug and its immutable,      *)
(* numbered versions.  src/persistence/strategyRepository.ts,              *)
(* src/application/strategyCatalog.ts, src/api/strategies.ts.              *)
(*                                                                         *)
(* One slug.  A step is a statement of a READ COMMITTED transaction: it    *)
(* sees what others have committed and what its own transaction wrote.     *)
(***************************************************************************)
EXTENDS Naturals, Sequences

CONSTANTS
    Editors,        \* requests that may save the strategy at the same time
    Methods,        \* methodology version and config of a version
    Games,          \* lotteries
    MaxSaves        \* bound: saves

ASSUME StrategiesAssumption == MaxSaves \in Nat

VARIABLES
    strategy,       \* the committed row of the slug, <<>> before there is one
    versions,       \* the committed rows of strategy_versions, by number
    edit,           \* the transaction of each request
    saves           \* how many there have been

strategyVars == <<strategy, versions, edit, saves>>

NoEdit == [at |-> "none"]
Drafts == [game : Games, config : Methods]

StrategiesInit ==
    /\ strategy = <<>>
    /\ versions = <<>>
    /\ edit = [e \in Editors |-> NoEdit]
    /\ saves = 0

\* The next statement of a save, the locks it holds and the version it added.
Step(e, at, locks, new) ==
    edit' = [edit EXCEPT ![e] = [at |-> at, draft |-> @.draft, locks |-> locks, new |-> new]]
Looking(at) == [at |-> at, locks |-> FALSE, new |-> <<>>]
Leave(e) == edit' = [edit EXCEPT ![e] = NoEdit]
Others(e) == {o \in Editors \ {e} : edit[o].at # "none"}

\* parse of POST /api/v1/strategies, and BEGIN.
Save(e) ==
    /\ edit[e].at = "none"
    /\ saves < MaxSaves
    /\ saves' = saves + 1
    /\ \E d \in Drafts :
          edit' = [edit EXCEPT ![e] = [at |-> "lock", draft |-> d, locks |-> FALSE, new |-> <<>>]]
    /\ UNCHANGED <<strategy, versions>>

RowIsFree(e) == \A o \in Others(e) : ~edit[o].locks

\* SELECT without FOR UPDATE.
ReadsRow == FALSE

\* FOR UPDATE keeps the row until the transaction ends.
LocksRow == TRUE

\* SELECT ... FOR UPDATE: a slug that does not exist locks nothing.
LockStrategy(e) ==
    /\ edit[e].at = "lock"
    /\ \/ /\ strategy = <<>>
          /\ Step(e, "insert", FALSE, <<>>)
       \/ /\ strategy # <<>>
          /\ RowIsFree(e)
          /\ Step(e, IF strategy.game = edit[e].draft.game THEN "version" ELSE "rollback",
                  LocksRow, <<>>)
    /\ UNCHANGED <<strategy, versions, saves>>

\* INSERT INTO strategies and its version 1.  The unique slug makes it wait for
\* an insert of another transaction, and fail if that has committed.
InsertStrategy(e) ==
    /\ edit[e].at = "insert"
    /\ RowIsFree(e)
    /\ IF strategy = <<>>
       THEN Step(e, "commit", TRUE, <<edit[e].draft.config>>)
       ELSE Step(e, "rollback", FALSE, <<>>)
    /\ UNCHANGED <<strategy, versions, saves>>

\* The latest version is compared, and another one is added if they differ;
\* its number is unique for the strategy.
AppendVersion(e) ==
    /\ edit[e].at = "version"
    /\ \A o \in Others(e) : edit[o].new = <<>>
    /\ Step(e, "update", edit[e].locks,
            IF versions[Len(versions)] = edit[e].draft.config
            THEN <<>> ELSE <<edit[e].draft.config>>)
    /\ UNCHANGED <<strategy, versions, saves>>

\* UPDATE strategies
UpdateStrategy(e) ==
    /\ edit[e].at = "update"
    /\ RowIsFree(e)
    /\ Step(e, "commit", TRUE, edit[e].new)
    /\ UNCHANGED <<strategy, versions, saves>>

CommitStrategy(e) ==
    /\ edit[e].at = "commit"
    /\ strategy' = edit[e].draft
    /\ versions' = versions \o edit[e].new
    /\ edit' = [edit EXCEPT ![e] = Looking("reread")]
    /\ UNCHANGED saves

\* ROLLBACK: STRATEGY_LOTTERY_IMMUTABLE, a unique violation, or a statement that
\* fails at any point before the commit.
RollBack(e) ==
    /\ edit[e].at \in {"lock", "insert", "version", "update", "commit", "rollback"}
    /\ Leave(e)
    /\ UNCHANGED <<strategy, versions, saves>>

\* GET of the list, of a slug and its versions, or of a version.
Look(e) ==
    /\ edit[e].at = "none"
    /\ edit' = [edit EXCEPT ![e] = Looking("reread")]
    /\ UNCHANGED <<strategy, versions, saves>>

\* The row, after a commit or for a GET: a GET may find none and answers 404.
Reread(e) ==
    /\ edit[e].at = "reread"
    /\ IF strategy = <<>> THEN Leave(e) ELSE edit' = [edit EXCEPT ![e] = Looking("latest")]
    /\ UNCHANGED <<strategy, versions, saves>>

\* mapStrategy(): the answer shows the latest version, read in a statement of its
\* own, and there has to be one.
ReadLatest(e) ==
    /\ edit[e].at = "latest"
    /\ versions # <<>>
    /\ Leave(e)
    /\ UNCHANGED <<strategy, versions, saves>>

StrategiesNext ==
    \E e \in Editors :
        \/ Save(e) \/ LockStrategy(e) \/ InsertStrategy(e) \/ AppendVersion(e)
        \/ UpdateStrategy(e) \/ CommitStrategy(e) \/ RollBack(e)
        \/ Look(e) \/ Reread(e) \/ ReadLatest(e)

StrategiesSpec == StrategiesInit /\ [][StrategiesNext]_strategyVars

-----------------------------------------------------------------------------
(* Properties                                                              *)

\* Types. The code behaviour: a save is at one statement of upsert().
StrategiesTypeOK ==
    /\ strategy = <<>> \/ strategy \in Drafts
    /\ \A v \in DOMAIN versions : versions[v] \in Methods
    /\ \A e \in Editors : edit[e].at \in {"none", "lock", "insert", "version", "update",
                             "commit", "rollback", "reread", "latest"}
    /\ saves \in 0..MaxSaves

\* The row of a strategy shows its latest version, a version differs from the one
\* before it, and neither exists without the other, however saves of one slug
\* interleave (the transaction of upsert()).
CatalogueAgrees ==
    /\ strategy = <<>> <=> versions = <<>>
    /\ strategy # <<>> => versions[Len(versions)] = strategy.config
    /\ \A v \in 2..Len(versions) : versions[v] # versions[v - 1]
=============================================================================
