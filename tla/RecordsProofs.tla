---------------------------- MODULE RecordsProofs ----------------------------
(***************************************************************************)
(* Theorems about what the application keeps: generated games, the         *)
(* catalogue of strategies, research hypotheses, AI insights, the files of *)
(* the migrations and a history that is bootstrapped, for every number of  *)
(* requests, rows, deploys and bounds.                                     *)
(*                                                                         *)
(* They argue alike.  A request reads in one statement and writes in a     *)
(* later one; the invariant says what keeps the first true until the       *)
(* second: a lock, a row that can only go one way, or an entry that is in  *)
(* a map exactly as long as its run goes on.                               *)
(***************************************************************************)
EXTENDS Generation, Strategies, Hypotheses, AiInsights, Migrations, Bootstrap,
        FiniteSetTheorems, TLAPS

-----------------------------------------------------------------------------
(* Strategies: the row is locked from the look at it to the commit         *)

\* A save of the slug from its first statement to its commit.  Whoever is past
\* LockStrategy() or InsertStrategy() holds the row, and what it read there is
\* still so when it commits.
SaveOk(r) ==
    /\ r = [at |-> r.at, draft |-> r.draft, locks |-> r.locks, new |-> r.new]
    /\ r.draft \in Drafts
    /\ r.locks \in BOOLEAN
    /\ r.at \in {"lock", "insert"} => r.locks = FALSE /\ r.new = <<>>
    /\ r.at = "rollback" => r.new = <<>>
    /\ r.at = "version" => r.locks = TRUE /\ r.new = <<>> /\ strategy # <<>>
    /\ r.at \in {"update", "commit"} =>
          /\ r.locks = TRUE
          /\ \/ r.new = <<>> /\ strategy # <<>> /\ versions[Len(versions)] = r.draft.config
             \/ /\ r.new = <<r.draft.config>>
                /\ strategy # <<>> => versions[Len(versions)] # r.draft.config
    /\ r.at \in {"version", "update", "commit"} /\ strategy # <<>> =>
          strategy.game = r.draft.game

LookOk(r) == r = Looking(r.at)

EditOk(r) ==
    \/ r = NoEdit
    \/ r.at \in {"lock", "insert", "version", "update", "commit", "rollback"} /\ SaveOk(r)
    \/ r.at \in {"reread", "latest"} /\ LookOk(r)

\* Two requests never hold the row at once.
OneHolder ==
    \A e, o \in Editors :
        edit[e].at # "none" /\ edit[o].at # "none" /\ edit[e].locks /\ edit[o].locks => e = o

StrategiesInv ==
    /\ strategy = <<>> \/ strategy \in Drafts
    /\ versions \in Seq(Methods)
    /\ CatalogueAgrees
    /\ DOMAIN edit = Editors
    /\ \A e \in Editors : EditOk(edit[e])
    /\ OneHolder
    /\ saves \in 0..MaxSaves

\* STRATEGY_LOTTERY_IMMUTABLE, and nothing rewrites a version.
NothingRewritten ==
    [][/\ strategy # <<>> => strategy' # <<>> /\ strategy'.game = strategy.game
       /\ \A v \in DOMAIN versions : v \in DOMAIN versions' /\ versions'[v] = versions[v]]_strategyVars

\* A request moves on and nothing is committed.
LEMMA EditStep ==
    ASSUME StrategiesInv, NEW e \in Editors, NEW x, EditOk(x),
           edit' = [edit EXCEPT ![e] = x],
           UNCHANGED <<strategy, versions>>, saves' \in 0..MaxSaves,
           x.at # "none" /\ x.locks => \A o \in Others(e) : ~edit[o].locks
    PROVE  StrategiesInv'
<1>1. /\ DOMAIN edit' = Editors
      /\ \A o \in Editors : edit'[o] = IF o = e THEN x ELSE edit[o]
    BY DEF StrategiesInv
<1>2. \A o \in Editors : EditOk(edit'[o])
    BY <1>1 DEF StrategiesInv
<1>3. \A o \in Editors : EditOk(edit[o])' 
    BY <1>2 DEF EditOk, SaveOk, LookOk
<1>4. OneHolder'
    BY <1>1 DEF StrategiesInv, OneHolder, Others
<1> QED
    BY <1>1, <1>3, <1>4 DEF StrategiesInv, CatalogueAgrees

\* A request that ends, or looks, holds nothing.
LEMMA EditIdle ==
    /\ EditOk(NoEdit) /\ NoEdit.at = "none"
    /\ \A at \in {"reread", "latest"} :
          EditOk(Looking(at)) /\ Looking(at).at = at /\ ~Looking(at).locks
BY DEF EditOk, NoEdit, LookOk, Looking

LEMMA StrategiesStart ==
    ASSUME StrategiesInit
    PROVE  StrategiesInv
<1>1. versions \in Seq(Methods) /\ Len(versions) = 0
    BY DEF StrategiesInit
<1>2. OneHolder
    BY DEF StrategiesInit, OneHolder, NoEdit
<1>3. \A e \in Editors : EditOk(edit[e])
    BY EditIdle DEF StrategiesInit
<1> QED
    BY <1>1, <1>2, <1>3, StrategiesAssumption
    DEF StrategiesInit, StrategiesInv, CatalogueAgrees, StrategiesAssumption

LEMMA SaveStep ==
    ASSUME StrategiesInv, NEW e \in Editors, Save(e)
    PROVE  StrategiesInv'
<1>1. PICK d \in Drafts :
         edit' = [edit EXCEPT ![e] = [at |-> "lock", draft |-> d, locks |-> FALSE, new |-> <<>>]]
    BY DEF Save
<1> DEFINE x == [at |-> "lock", draft |-> d, locks |-> FALSE, new |-> <<>>]
<1>2. EditOk(x) /\ ~x.locks
    BY DEF EditOk, SaveOk
<1>3. UNCHANGED <<strategy, versions>> /\ saves' \in 0..MaxSaves
    BY StrategiesAssumption DEF Save, StrategiesInv, StrategiesAssumption
<1> HIDE DEF x
<1> QED
    BY <1>1, <1>2, <1>3, EditStep DEF x

\* Where a save stands when it is at a statement of upsert().
LEMMA SaveAt ==
    ASSUME StrategiesInv, NEW e \in Editors,
           edit[e].at \in {"lock", "insert", "version", "update", "commit", "rollback"}
    PROVE  SaveOk(edit[e])
BY DEF StrategiesInv, EditOk, NoEdit

\* A save that goes on to another statement.
LEMMA SaveGoesOn ==
    ASSUME StrategiesInv, NEW e \in Editors, NEW at, NEW locks, NEW new,
           Step(e, at, locks, new), UNCHANGED <<strategy, versions, saves>>,
           EditOk([at |-> at, draft |-> edit[e].draft, locks |-> locks, new |-> new]),
           locks => \A o \in Others(e) : ~edit[o].locks
    PROVE  StrategiesInv'
<1> DEFINE x == [at |-> at, draft |-> edit[e].draft, locks |-> locks, new |-> new]
<1>1. edit' = [edit EXCEPT ![e] = x] /\ saves' \in 0..MaxSaves
    BY DEF Step, StrategiesInv
<1>2. x.locks = locks /\ EditOk(x)
    OBVIOUS
<1> HIDE DEF x
<1> QED
    BY <1>1, <1>2, EditStep

LEMMA LockStep ==
    ASSUME StrategiesInv, NEW e \in Editors, LockStrategy(e)
    PROVE  StrategiesInv'
<1>1. SaveOk(edit[e]) /\ edit[e].at = "lock" /\ UNCHANGED <<strategy, versions, saves>>
    BY SaveAt DEF LockStrategy
<1>2. CASE strategy = <<>> /\ Step(e, "insert", FALSE, <<>>)
    <2>1. EditOk([at |-> "insert", draft |-> edit[e].draft, locks |-> FALSE, new |-> <<>>])
        BY <1>1 DEF EditOk, SaveOk
    <2> QED
        BY <1>1, <1>2, <2>1, SaveGoesOn
<1>3. CASE /\ strategy # <<>> /\ RowIsFree(e)
           /\ Step(e, IF strategy.game = edit[e].draft.game THEN "version" ELSE "rollback",
                   LocksRow, <<>>)
    <2>1. EditOk([at |-> IF strategy.game = edit[e].draft.game THEN "version" ELSE "rollback",
                  draft |-> edit[e].draft, locks |-> LocksRow, new |-> <<>>])
        BY <1>1, <1>3 DEF EditOk, SaveOk, LocksRow
    <2> QED
        BY <1>1, <1>3, <2>1, SaveGoesOn DEF RowIsFree
<1> QED
    BY <1>2, <1>3 DEF LockStrategy

LEMMA InsertStep ==
    ASSUME StrategiesInv, NEW e \in Editors, InsertStrategy(e)
    PROVE  StrategiesInv'
<1>1. /\ SaveOk(edit[e]) /\ edit[e].at = "insert" /\ UNCHANGED <<strategy, versions, saves>>
      /\ RowIsFree(e)
    BY SaveAt DEF InsertStrategy
<1>2. CASE strategy = <<>>
    <2>1. EditOk([at |-> "commit", draft |-> edit[e].draft, locks |-> TRUE,
                  new |-> <<edit[e].draft.config>>])
        BY <1>1, <1>2 DEF EditOk, SaveOk
    <2> QED
        BY <1>1, <1>2, <2>1, SaveGoesOn DEF InsertStrategy, RowIsFree
<1>3. CASE strategy # <<>>
    <2>1. EditOk([at |-> "rollback", draft |-> edit[e].draft, locks |-> FALSE, new |-> <<>>])
        BY <1>1 DEF EditOk, SaveOk
    <2> QED
        BY <1>1, <1>3, <2>1, SaveGoesOn DEF InsertStrategy
<1> QED
    BY <1>2, <1>3

LEMMA AppendStep ==
    ASSUME StrategiesInv, NEW e \in Editors, AppendVersion(e)
    PROVE  StrategiesInv'
<1> DEFINE n == IF versions[Len(versions)] = edit[e].draft.config
                THEN <<>> ELSE <<edit[e].draft.config>>
<1>1. /\ SaveOk(edit[e]) /\ edit[e].at = "version" /\ UNCHANGED <<strategy, versions, saves>>
      /\ Step(e, "update", edit[e].locks, n)
    BY SaveAt DEF AppendVersion
<1>2. EditOk([at |-> "update", draft |-> edit[e].draft, locks |-> edit[e].locks, new |-> n])
    BY <1>1 DEF EditOk, SaveOk
<1>3. \A o \in Others(e) : ~edit[o].locks
    BY <1>1 DEF StrategiesInv, OneHolder, Others, SaveOk
<1> HIDE DEF n
<1> QED
    BY <1>1, <1>2, <1>3, SaveGoesOn

LEMMA UpdateStep ==
    ASSUME StrategiesInv, NEW e \in Editors, UpdateStrategy(e)
    PROVE  StrategiesInv'
<1>1. /\ SaveOk(edit[e]) /\ edit[e].at = "update" /\ UNCHANGED <<strategy, versions, saves>>
      /\ RowIsFree(e) /\ Step(e, "commit", TRUE, edit[e].new)
    BY SaveAt DEF UpdateStrategy
<1>2. EditOk([at |-> "commit", draft |-> edit[e].draft, locks |-> TRUE, new |-> edit[e].new])
    BY <1>1 DEF EditOk, SaveOk
<1> QED
    BY <1>1, <1>2, SaveGoesOn DEF RowIsFree

\* What the row and the versions are after a commit.
LEMMA CommitFacts ==
    ASSUME StrategiesInv, NEW e \in Editors, CommitStrategy(e)
    PROVE  /\ strategy' = edit[e].draft /\ strategy' \in Drafts
           /\ versions' \in Seq(Methods) /\ Len(versions') \in Nat \ {0}
           /\ Len(versions) \in Nat /\ Len(versions) <= Len(versions')
           /\ \A v \in 1..Len(versions) : versions'[v] = versions[v]
           /\ versions'[Len(versions')] = strategy'.config
           /\ \A v \in 2..Len(versions') : versions'[v] # versions'[v - 1]
           /\ strategy # <<>> => strategy'.game = strategy.game
<1> DEFINE r == edit[e]
<1>1. SaveOk(r) /\ r.at = "commit"
    BY SaveAt DEF CommitStrategy
<1>2. strategy' = r.draft /\ versions' = versions \o r.new
    BY DEF CommitStrategy
<1>3. r.draft \in Drafts /\ r.draft.config \in Methods
    BY <1>1 DEF SaveOk, Drafts
<1>4. versions \in Seq(Methods) /\ Len(versions) \in Nat
    BY DEF StrategiesInv
<1>5. strategy # <<>> => strategy'.game = strategy.game
    BY <1>1, <1>2 DEF SaveOk
<1>6. strategy \in Drafts => strategy # <<>>
    <2>1. ASSUME strategy \in Drafts, strategy = <<>> PROVE FALSE
        <3>1. "game" \in DOMAIN strategy
            BY <2>1 DEF Drafts
        <3>2. DOMAIN strategy = {}
            BY <2>1
        <3> QED
            BY <3>1, <3>2
    <2> QED
        BY <2>1
<1>7. CASE r.new = <<>> /\ strategy # <<>> /\ versions[Len(versions)] = r.draft.config
    <2>1. versions' = versions
        BY <1>2, <1>4, <1>7
    <2>2. versions # <<>> /\ Len(versions) # 0
        BY <1>4, <1>7 DEF StrategiesInv, CatalogueAgrees
    <2> QED
        BY <1>2, <1>3, <1>4, <1>5, <1>7, <2>1, <2>2 DEF StrategiesInv, CatalogueAgrees
<1>8. CASE /\ r.new = <<r.draft.config>>
           /\ strategy # <<>> => versions[Len(versions)] # r.draft.config
    <2>1. versions' = Append(versions, r.draft.config)
        BY <1>2, <1>3, <1>4, <1>8
    <2>2. /\ versions' \in Seq(Methods) /\ Len(versions') = Len(versions) + 1
          /\ \A v \in 1..Len(versions) : versions'[v] = versions[v]
          /\ versions'[Len(versions) + 1] = r.draft.config
        BY <1>3, <1>4, <2>1
    <2>3. \A v \in 2..Len(versions') : versions'[v] # versions'[v - 1]
        <3> SUFFICES ASSUME NEW v \in 2..Len(versions')
                     PROVE  versions'[v] # versions'[v - 1]
            OBVIOUS
        <3>1. CASE v <= Len(versions)
            BY <1>4, <2>2, <3>1 DEF StrategiesInv, CatalogueAgrees
        <3>2. CASE v = Len(versions) + 1
            <4>1. versions # <<>>
                BY <1>4, <3>2
            <4>2. strategy # <<>>
                BY <4>1 DEF StrategiesInv, CatalogueAgrees
            <4> QED
                BY <1>4, <1>8, <2>2, <3>2, <4>2
        <3> QED
            BY <1>4, <2>2, <3>1, <3>2
    <2> QED
        BY <1>2, <1>3, <1>4, <1>5, <2>2, <2>3
<1> QED
    BY <1>1, <1>7, <1>8 DEF SaveOk

LEMMA CommitStep ==
    ASSUME StrategiesInv, NEW e \in Editors, CommitStrategy(e)
    PROVE  StrategiesInv'
<1> DEFINE x == Looking("reread")
<1>1. edit' = [edit EXCEPT ![e] = x] /\ saves' \in 0..MaxSaves
    BY DEF CommitStrategy, StrategiesInv
<1>2. x.at = "reread" /\ x.locks = FALSE /\ x = Looking(x.at)
    BY DEF Looking
<1>3. DOMAIN edit' = Editors /\ \A o \in Editors : edit'[o] = IF o = e THEN x ELSE edit[o]
    <2> HIDE DEF x
    <2> QED
        BY <1>1 DEF StrategiesInv
<1>4. edit[e].at = "commit" /\ edit[e].locks
    BY SaveAt DEF CommitStrategy, SaveOk
<1>5. ASSUME NEW o \in Editors
      PROVE  EditOk(edit[o])'
    <2>1. CASE o = e
        <3> HIDE DEF x
        <3> QED
            BY <1>2, <1>3, <2>1 DEF EditOk, LookOk
    <2>2. CASE o # e
        <3>1. edit'[o] = edit[o]
            BY <1>3, <2>2
        <3>2. edit[o].at \notin {"version", "update", "commit"}
            BY <1>4, <2>2, SaveAt DEF SaveOk, StrategiesInv, OneHolder
        <3>3. EditOk(edit[o])
            BY DEF StrategiesInv
        <3> QED
            BY <3>1, <3>2, <3>3 DEF EditOk, SaveOk, LookOk
    <2> QED
        BY <2>1, <2>2
<1>6. OneHolder'
    <2> HIDE DEF x
    <2> QED
        BY <1>2, <1>3 DEF StrategiesInv, OneHolder
<1>7. CatalogueAgrees' /\ (strategy \in Drafts)' /\ (versions \in Seq(Methods))'
    <2>1. /\ strategy' \in Drafts
          /\ versions' \in Seq(Methods) /\ Len(versions') \in Nat \ {0}
          /\ versions'[Len(versions')] = strategy'.config
          /\ \A v \in 2..Len(versions') : versions'[v] # versions'[v - 1]
        BY CommitFacts
    <2>2. strategy' # <<>> /\ versions' # <<>>
        <3>1. "game" \in DOMAIN strategy'
            BY <2>1 DEF Drafts
        <3>2. DOMAIN <<>> = {}
            OBVIOUS
        <3> QED
            BY <2>1, <3>1, <3>2
    <2> QED
        BY <2>1, <2>2 DEF CatalogueAgrees
<1> QED
    BY <1>1, <1>3, <1>5, <1>6, <1>7 DEF StrategiesInv

LEMMA OtherSteps ==
    ASSUME StrategiesInv, NEW e \in Editors,
           RollBack(e) \/ Look(e) \/ Reread(e) \/ ReadLatest(e)
    PROVE  StrategiesInv'
<1>1. UNCHANGED <<strategy, versions>> /\ saves' \in 0..MaxSaves
    BY DEF RollBack, Look, Reread, ReadLatest, StrategiesInv
<1>2. CASE Leave(e)
    BY <1>1, <1>2, EditIdle, EditStep DEF Leave
<1>3. CASE \E at \in {"reread", "latest"} : edit' = [edit EXCEPT ![e] = Looking(at)]
    <2>1. PICK at \in {"reread", "latest"} : edit' = [edit EXCEPT ![e] = Looking(at)]
        BY <1>3
    <2> QED
        BY <1>1, <2>1, EditIdle, EditStep
<1> QED
    BY <1>2, <1>3 DEF RollBack, Look, Reread, ReadLatest

LEMMA StrategiesStep ==
    ASSUME StrategiesInv, [StrategiesNext]_strategyVars
    PROVE  StrategiesInv'
<1>1. CASE UNCHANGED strategyVars
    BY <1>1 DEF strategyVars, StrategiesInv, CatalogueAgrees, OneHolder, EditOk, SaveOk, LookOk
<1>2. CASE StrategiesNext
    BY <1>2, SaveStep, LockStep, InsertStep, AppendStep, UpdateStep, CommitStep, OtherSteps
    DEF StrategiesNext
<1> QED
    BY <1>1, <1>2

\* Whoever holds the row is alone with it, and what it read there is still so.
THEOREM StrategiesInvHolds == StrategiesSpec => []StrategiesInv
BY StrategiesStart, StrategiesStep, PTL DEF StrategiesSpec

\* Types. The code behaviour: a save is at one statement of upsert().
THEOREM StrategiesTypes == StrategiesSpec => []StrategiesTypeOK
<1>1. StrategiesInv => StrategiesTypeOK
    BY DEF StrategiesInv, StrategiesTypeOK, EditOk, NoEdit
<1> QED
    BY <1>1, StrategiesInvHolds, PTL

\* The row of a slug shows its latest version, versions differ from the one before,
\* and neither exists without the other, however saves interleave: whoever compares
\* a version with the latest one holds the row until it commits (upsert()).
THEOREM CatalogueStaysTrue == StrategiesSpec => []CatalogueAgrees
BY StrategiesInvHolds, PTL DEF StrategiesInv

\* No save moves a strategy to another lottery or rewrites a version it has
\* (STRATEGY_LOTTERY_IMMUTABLE and the versions of strategyRepository.ts).
THEOREM VersionsAreKept == StrategiesSpec => NothingRewritten
<1> DEFINE Kept ==
        /\ strategy # <<>> => strategy' # <<>> /\ strategy'.game = strategy.game
        /\ \A v \in DOMAIN versions : v \in DOMAIN versions' /\ versions'[v] = versions[v]
<1>1. StrategiesInv /\ [StrategiesNext]_strategyVars => [Kept]_strategyVars
    <2> SUFFICES ASSUME StrategiesInv, StrategiesNext
                 PROVE  Kept
        OBVIOUS
    <2>1. PICK e \in Editors : \/ CommitStrategy(e)
                              \/ UNCHANGED <<strategy, versions>>
        BY DEF StrategiesNext, Save, LockStrategy, InsertStrategy, AppendVersion,
               UpdateStrategy, RollBack, Look, Reread, ReadLatest
    <2>2. CASE CommitStrategy(e)
        <3>1. StrategiesInv'
            BY StrategiesStep
        <3>2. /\ versions' # <<>>
              /\ \A v \in 1..Len(versions) : v \in 1..Len(versions') /\ versions'[v] = versions[v]
              /\ strategy # <<>> => strategy'.game = strategy.game
            BY <2>2, CommitFacts
        <3>3. strategy' # <<>>
            BY <3>1, <3>2 DEF StrategiesInv, CatalogueAgrees
        <3> QED
            BY <3>1, <3>2, <3>3 DEF StrategiesInv
    <2>3. CASE UNCHANGED <<strategy, versions>>
        BY <2>3
    <2> QED
        BY <2>1, <2>2, <2>3
<1> QED
    BY <1>1, StrategiesInvHolds, PTL DEF StrategiesSpec, NothingRewritten

-----------------------------------------------------------------------------
(* Hypotheses: a row goes from none to open to decided                     *)

\* A row of research_hypotheses, as the checks of db/migrations/013 leave it.
RowOk(row) ==
    \/ row = NoRow
    \/ /\ row = [status |-> row.status, lottery |-> row.lottery, decision |-> row.decision]
       /\ \/ row.status = "open" /\ row.decision = "none"
          \/ row.status = "decided" /\ row.decision \in Decisions

\* What a request of each kind read, and what is still so.
AskOk(r) ==
    \/ r = NoRequest
    \/ /\ r.at \in {"decide:find", "decide:evidence", "decide:update"}
       /\ r = [at |-> r.at, h |-> r.h, decision |-> r.decision]
       /\ r.h \in Hypotheses /\ r.decision \in Decisions
       /\ r.at # "decide:find" => hypothesis[r.h] # NoRow
       /\ r.at = "decide:update" => EvidenceOf(r.h) # {}
    \/ /\ r.at \in {"link:find", "link:run", "link:insert"}
       /\ r = [at |-> r.at, h |-> r.h, run |-> r.run]
       /\ r.h \in Hypotheses /\ r.run \in Runs
       /\ r.at # "link:find" => hypothesis[r.h] # NoRow
       /\ r.at = "link:insert" => InScope(r.h, RunLottery[r.run])
    \/ /\ r.at \in {"bet:find", "bet:insert"}
       /\ r = [at |-> r.at, h |-> r.h, lottery |-> r.lottery]
       /\ r.h \in Hypotheses
       /\ r.at = "bet:insert" =>
             /\ hypothesis[r.h].status = "decided"
             /\ hypothesis[r.h].decision = "applied-experimentally"
             /\ InScope(r.h, r.lottery)

ResearchInv ==
    /\ DOMAIN hypothesis = Hypotheses
    /\ \A h \in Hypotheses : RowOk(hypothesis[h])
    /\ runs \subseteq Runs
    /\ evidence \subseteq Hypotheses \X runs
    /\ \A h \in Hypotheses : \A r \in EvidenceOf(h) :
          hypothesis[h] # NoRow /\ InScope(h, RunLottery[r])
    /\ \A h \in Hypotheses : hypothesis[h].status = "decided" => EvidenceOf(h) # {}
    /\ DOMAIN applied = Hypotheses
    /\ DOMAIN asking = Researchers
    /\ \A p \in Researchers : AskOk(asking[p])
    /\ requests \in 0..MaxRequests

\* A request goes on with what it read, or is answered.
LEMMA AskStep ==
    ASSUME ResearchInv, NEW p \in Researchers, NEW x, AskOk(x),
           asking' = [asking EXCEPT ![p] = x],
           UNCHANGED <<hypothesis, runs, evidence, applied>>, requests' \in 0..MaxRequests
    PROVE  ResearchInv'
<1>1. /\ DOMAIN asking' = Researchers
      /\ \A q \in Researchers : asking'[q] = IF q = p THEN x ELSE asking[q]
    BY DEF ResearchInv
<1>2. \A q \in Researchers : AskOk(asking'[q])
    BY <1>1 DEF ResearchInv
<1>3. \A q \in Researchers : AskOk(asking[q])'
    <2> SUFFICES ASSUME NEW q \in Researchers PROVE AskOk(asking[q])'
        OBVIOUS
    <2>1. AskOk(asking'[q])
        BY <1>2
    <2>2. UNCHANGED <<hypothesis, evidence>>
        OBVIOUS
    <2> QED
        BY <2>1, <2>2 DEF AskOk, EvidenceOf, InScope
<1> QED
    BY <1>1, <1>3 DEF ResearchInv, EvidenceOf, InScope

\* The tables may change when what every request read stays so.
LEMMA CloseStep ==
    ASSUME ResearchInv, NEW p \in Researchers, Close(p), UNCHANGED requests,
           \A q \in Researchers : AskOk(asking[q])'  \/ q = p
    PROVE  /\ (DOMAIN asking = Researchers)'
           /\ (\A q \in Researchers : AskOk(asking[q]))'
           /\ (requests \in 0..MaxRequests)'
<1>1. /\ DOMAIN asking' = Researchers
      /\ \A q \in Researchers : asking'[q] = IF q = p THEN NoRequest ELSE asking[q]
    BY DEF ResearchInv, Close
<1>2. AskOk(asking[p])'
    BY <1>1 DEF AskOk
<1> QED
    BY <1>1, <1>2 DEF ResearchInv

LEMMA ResearchStart ==
    ASSUME ResearchInit
    PROVE  ResearchInv
BY HypothesesAssumption
DEF ResearchInit, ResearchInv, RowOk, AskOk, EvidenceOf, HypothesesAssumption, NoRow

LEMMA AskingStep ==
    ASSUME ResearchInv, NEW p \in Researchers, Ask(p)
    PROVE  ResearchInv'
<1>1. UNCHANGED <<hypothesis, runs, evidence, applied>> /\ requests' \in 0..MaxRequests
    BY HypothesesAssumption DEF Ask, ResearchInv, HypothesesAssumption
<1>2. ASSUME NEW h \in Hypotheses, NEW d \in Decisions,
             asking' = [asking EXCEPT ![p] = [at |-> "decide:find", h |-> h, decision |-> d]]
      PROVE  ResearchInv'
    <2>1. AskOk([at |-> "decide:find", h |-> h, decision |-> d])
        BY DEF AskOk
    <2> QED
        BY <1>1, <1>2, <2>1, AskStep
<1>3. ASSUME NEW h \in Hypotheses, NEW r \in Runs,
             asking' = [asking EXCEPT ![p] = [at |-> "link:find", h |-> h, run |-> r]]
      PROVE  ResearchInv'
    <2>1. AskOk([at |-> "link:find", h |-> h, run |-> r])
        BY DEF AskOk
    <2> QED
        BY <1>1, <1>3, <2>1, AskStep
<1>4. ASSUME NEW h \in Hypotheses, NEW l \in Scopes,
             asking' = [asking EXCEPT ![p] = [at |-> "bet:find", h |-> h, lottery |-> l]]
      PROVE  ResearchInv'
    <2>1. AskOk([at |-> "bet:find", h |-> h, lottery |-> l])
        BY DEF AskOk
    <2> QED
        BY <1>1, <1>4, <2>1, AskStep
<1> QED
    BY <1>2, <1>3, <1>4 DEF Ask

\* A request that reads, and goes on to its next statement.
LEMMA ReadSteps ==
    ASSUME ResearchInv, NEW p \in Researchers, NEW at,
           Proceed(p, at), AskOk([asking[p] EXCEPT !.at = at]),
           UNCHANGED <<hypothesis, runs, evidence, applied, requests>>
    PROVE  ResearchInv'
<1> DEFINE x == [asking[p] EXCEPT !.at = at]
<1>1. asking' = [asking EXCEPT ![p] = x] /\ AskOk(x)
    BY DEF Proceed
<1>2. requests' \in 0..MaxRequests
    BY DEF ResearchInv
<1> HIDE DEF x
<1> QED
    BY <1>1, <1>2, AskStep

LEMMA Closes ==
    ASSUME ResearchInv, NEW p \in Researchers, Close(p),
           UNCHANGED <<hypothesis, runs, evidence, applied, requests>>
    PROVE  ResearchInv'
<1>1. AskOk(NoRequest)
    BY DEF AskOk
<1> QED
    BY <1>1, AskStep DEF Close, ResearchInv

LEMMA FindOpenStep ==
    ASSUME ResearchInv, NEW p \in Researchers,
           \/ FindOpen(p, "decide:find", "decide:evidence")
           \/ FindOpen(p, "link:find", "link:run")
    PROVE  ResearchInv'
<1>1. CASE FindOpen(p, "decide:find", "decide:evidence")
    <2>1. hypothesis[asking[p].h].status = "open" => AskOk([asking[p] EXCEPT !.at = "decide:evidence"])
        BY <1>1 DEF FindOpen, At, ResearchInv, AskOk, NoRequest, NoRow
    <2> QED
        BY <1>1, <2>1, ReadSteps, Closes DEF FindOpen
<1>2. CASE FindOpen(p, "link:find", "link:run")
    <2>1. hypothesis[asking[p].h].status = "open" => AskOk([asking[p] EXCEPT !.at = "link:run"])
        BY <1>2 DEF FindOpen, At, ResearchInv, AskOk, NoRequest, NoRow
    <2> QED
        BY <1>2, <2>1, ReadSteps, Closes DEF FindOpen
<1> QED
    BY <1>1, <1>2

LEMMA ReadStep ==
    ASSUME ResearchInv, NEW p \in Researchers,
           RequireEvidence(p) \/ FindRun(p) \/ FindApplicable(p)
    PROVE  ResearchInv'
<1>1. CASE RequireEvidence(p)
    <2>1. EvidenceOf(asking[p].h) # {} => AskOk([asking[p] EXCEPT !.at = "decide:update"])
        BY <1>1 DEF RequireEvidence, At, ResearchInv, AskOk, NoRequest
    <2> QED
        BY <1>1, <2>1, ReadSteps, Closes DEF RequireEvidence
<1>2. CASE FindRun(p)
    <2>1. InScope(asking[p].h, RunLottery[asking[p].run]) => AskOk([asking[p] EXCEPT !.at = "link:insert"])
        BY <1>2 DEF FindRun, At, ResearchInv, AskOk, NoRequest
    <2> QED
        BY <1>2, <2>1, ReadSteps, Closes DEF FindRun
<1>3. CASE FindApplicable(p)
    <2>1. /\ hypothesis[asking[p].h].status = "decided"
          /\ hypothesis[asking[p].h].decision = "applied-experimentally"
          /\ InScope(asking[p].h, asking[p].lottery)
          => AskOk([asking[p] EXCEPT !.at = "bet:insert"])
        BY <1>3 DEF FindApplicable, At, ResearchInv, AskOk, NoRequest
    <2> QED
        BY <1>3, <2>1, ReadSteps, Closes DEF FindApplicable
<1> QED
    BY <1>1, <1>2, <1>3

LEMMA CreateStep ==
    ASSUME ResearchInv, CreateHypothesis
    PROVE  ResearchInv'
<1>1. PICK h \in Hypotheses, l \in Scopes \cup {AnyLottery} :
         /\ hypothesis[h] = NoRow
         /\ hypothesis' = [hypothesis EXCEPT ![h] = OpenRow(l)]
    BY DEF CreateHypothesis
<1>2. UNCHANGED <<runs, evidence, applied, asking, requests>>
    BY DEF CreateHypothesis
<1>3. /\ DOMAIN hypothesis' = Hypotheses
      /\ \A g \in Hypotheses : hypothesis'[g] = IF g = h THEN OpenRow(l) ELSE hypothesis[g]
    BY <1>1 DEF ResearchInv
<1>4. OpenRow(l) # NoRow /\ OpenRow(l).status = "open" /\ RowOk(OpenRow(l))
    BY DEF OpenRow, NoRow, RowOk
<1>5. EvidenceOf(h) = {}
    BY <1>1 DEF ResearchInv
<1>6. \A g : EvidenceOf(g)' = EvidenceOf(g)
    BY <1>2 DEF EvidenceOf
<1>7. \A q \in Researchers : AskOk(asking[q])'
    <2> SUFFICES ASSUME NEW q \in Researchers PROVE AskOk(asking[q])'
        OBVIOUS
    <2>1. AskOk(asking[q]) /\ asking'[q] = asking[q]
        BY <1>2 DEF ResearchInv
    <2>2. \A g \in Hypotheses : hypothesis[g] # NoRow => hypothesis'[g] = hypothesis[g]
        BY <1>1, <1>3
    <2>3. \A g \in Hypotheses : hypothesis[g].status = "decided" => hypothesis'[g] = hypothesis[g]
        BY <1>1, <1>3 DEF NoRow
    <2> QED
        BY <1>6, <2>1, <2>2, <2>3 DEF AskOk, InScope
<1>8. \A g \in Hypotheses : RowOk(hypothesis'[g])
    BY <1>3, <1>4 DEF ResearchInv
<1>9. \A g \in Hypotheses : \A r \in EvidenceOf(g)' : hypothesis'[g] # NoRow /\ InScope(g, RunLottery[r])'
    BY <1>3, <1>5, <1>6 DEF ResearchInv, InScope
<1>10. \A g \in Hypotheses : hypothesis'[g].status = "decided" => EvidenceOf(g)' # {}
    BY <1>3, <1>4, <1>6 DEF ResearchInv
<1> QED
    BY <1>2, <1>3, <1>7, <1>8, <1>9, <1>10 DEF ResearchInv, RowOk

LEMMA BacktestStep ==
    ASSUME ResearchInv, BacktestSaved
    PROVE  ResearchInv'
<1>1. /\ runs \subseteq runs' /\ runs' \subseteq Runs
      /\ UNCHANGED <<hypothesis, evidence, applied, asking, requests>>
    BY DEF BacktestSaved, ResearchInv
<1>2. \A q \in Researchers : AskOk(asking[q])'
    BY <1>1, SMTT(30) DEF ResearchInv, AskOk, EvidenceOf, InScope
<1> QED
    BY <1>1, <1>2 DEF ResearchInv, EvidenceOf, InScope, RowOk

LEMMA DecideStep ==
    ASSUME ResearchInv, NEW p \in Researchers, Decide(p)
    PROVE  ResearchInv'
<1> DEFINE h == asking[p].h
           d == asking[p].decision
<1>1. h \in Hypotheses /\ d \in Decisions /\ EvidenceOf(h) # {} /\ hypothesis[h] # NoRow
    BY DEF Decide, At, ResearchInv, AskOk, NoRequest
<1>2. UNCHANGED <<runs, evidence, applied, requests>> /\ Close(p)
    BY DEF Decide
<1>3. CASE ~DecidesOpen(h)
    BY <1>2, <1>3, Closes DEF Decide
<1>4. CASE DecidesOpen(h)
    <2> DEFINE row == [status |-> "decided", lottery |-> hypothesis[h].lottery, decision |-> d]
    <2>1. hypothesis[h].status = "open" /\ RowOk(hypothesis[h])
        BY <1>1, <1>4 DEF DecidesOpen, ResearchInv
    <2>2. hypothesis' = [hypothesis EXCEPT ![h] = row]
        <3>1. hypothesis' = [hypothesis EXCEPT ![h].status = "decided", ![h].decision = d]
            BY <1>4 DEF Decide
        <3>2. [[hypothesis[h] EXCEPT !.status = "decided"] EXCEPT !.decision = d] = row
            <4>1. \A s, l, e, a : [[status |-> s, lottery |-> l, decision |-> e] EXCEPT !.status = a]
                                      = [status |-> a, lottery |-> l, decision |-> e]
                OBVIOUS
            <4>2. \A s, l, e, a : [[status |-> s, lottery |-> l, decision |-> e] EXCEPT !.decision = a]
                                      = [status |-> s, lottery |-> l, decision |-> a]
                OBVIOUS
            <4>3. hypothesis[h] = [status |-> hypothesis[h].status, lottery |-> hypothesis[h].lottery,
                                   decision |-> hypothesis[h].decision]
                BY <1>1, <2>1 DEF RowOk
            <4>4. [hypothesis[h] EXCEPT !.status = "decided"] =
                     [status |-> "decided", lottery |-> hypothesis[h].lottery,
                      decision |-> hypothesis[h].decision]
                BY <4>1, <4>3
            <4>5. [[status |-> "decided", lottery |-> hypothesis[h].lottery,
                    decision |-> hypothesis[h].decision] EXCEPT !.decision = d] = row
                BY <4>2
            <4> QED
                BY <4>4, <4>5, Zenon
        <3>3. hypothesis' = [hypothesis EXCEPT ![h] =
                               [[hypothesis[h] EXCEPT !.status = "decided"] EXCEPT !.decision = d]]
            BY <1>1, <3>1 DEF ResearchInv
        <3> QED
            BY <3>2, <3>3
    <2>3. row.status = "decided" /\ row.lottery = hypothesis[h].lottery /\ RowOk(row) /\ row # NoRow
        BY <1>1 DEF RowOk, NoRow
    <2>4. /\ DOMAIN hypothesis' = Hypotheses
          /\ \A g \in Hypotheses : hypothesis'[g] = IF g = h THEN row ELSE hypothesis[g]
        <3> HIDE DEF row
        <3> QED
            BY <1>1, <2>2 DEF ResearchInv
    <2> HIDE DEF row, h, d
    <2>5. \A g \in Hypotheses : \A l : InScope(g, l)' <=> InScope(g, l)
        BY <1>1, <2>3, <2>4 DEF InScope
    <2>6. \A g : EvidenceOf(g)' = EvidenceOf(g)
        BY <1>2 DEF EvidenceOf
    <2>7. \A q \in Researchers : AskOk(asking[q])' \/ q = p
        <3> SUFFICES ASSUME NEW q \in Researchers, q # p PROVE AskOk(asking[q])'
            OBVIOUS
        <3>1. AskOk(asking[q]) /\ asking'[q] = asking[q]
            BY <1>2 DEF ResearchInv, Close
        <3> QED
            BY <1>1, <2>1, <2>3, <2>4, <2>5, <2>6, <3>1 DEF AskOk
    <2>8. /\ (DOMAIN asking = Researchers)'
          /\ (\A q \in Researchers : AskOk(asking[q]))'
          /\ (requests \in 0..MaxRequests)'
        BY <1>2, <2>7, CloseStep
    <2>9. \A g \in Hypotheses : RowOk(hypothesis'[g]) /\ (hypothesis[g] # NoRow => hypothesis'[g] # NoRow)
        BY <2>3, <2>4 DEF ResearchInv
    <2>10. \A g \in Hypotheses : hypothesis'[g].status = "decided" => EvidenceOf(g)' # {}
        BY <1>1, <2>4, <2>6 DEF ResearchInv
    <2>11. \A g \in Hypotheses : \A r \in EvidenceOf(g)' :
              hypothesis'[g] # NoRow /\ InScope(g, RunLottery[r])'
        BY <2>5, <2>6, <2>9 DEF ResearchInv
    <2> QED
        BY <1>2, <2>4, <2>8, <2>9, <2>10, <2>11 DEF ResearchInv, RowOk
<1> QED
    BY <1>3, <1>4

LEMMA LinkStep ==
    ASSUME ResearchInv, NEW p \in Researchers, LinkBacktest(p)
    PROVE  ResearchInv'
<1> DEFINE h == asking[p].h
           r == asking[p].run
<1>1. /\ h \in Hypotheses /\ r \in Runs /\ hypothesis[h] # NoRow
      /\ InScope(h, RunLottery[r])
    BY DEF LinkBacktest, At, ResearchInv, AskOk, NoRequest
<1>2. UNCHANGED <<hypothesis, runs, applied, requests>> /\ Close(p)
    BY DEF LinkBacktest
<1>3. CASE evidence' = evidence
    BY <1>2, <1>3, Closes
<1>4. CASE evidence' = evidence \cup {<<h, r>>} /\ r \in runs
    <2> HIDE DEF h, r
    <2>1. \A g \in Hypotheses : /\ EvidenceOf(g) \subseteq EvidenceOf(g)'
                                /\ \A s \in EvidenceOf(g)' : s \in EvidenceOf(g) \/ (g = h /\ s = r)
        BY <1>4 DEF EvidenceOf
    <2>2. \A g, l : InScope(g, l)' <=> InScope(g, l)
        BY <1>2 DEF InScope
    <2>3. \A q \in Researchers : AskOk(asking[q])' \/ q = p
        <3> SUFFICES ASSUME NEW q \in Researchers, q # p PROVE AskOk(asking[q])'
            OBVIOUS
        <3>1. AskOk(asking[q]) /\ asking'[q] = asking[q]
            BY <1>2 DEF ResearchInv, Close
        <3> QED
            BY <1>2, <2>1, <2>2, <3>1 DEF AskOk
    <2>4. /\ (DOMAIN asking = Researchers)'
          /\ (\A q \in Researchers : AskOk(asking[q]))'
          /\ (requests \in 0..MaxRequests)'
        BY <1>2, <2>3, CloseStep
    <2>5. evidence' \subseteq Hypotheses \X runs'
        BY <1>1, <1>2, <1>4 DEF ResearchInv
    <2>6. \A g \in Hypotheses : \A s \in EvidenceOf(g)' :
             hypothesis'[g] # NoRow /\ InScope(g, RunLottery[s])'
        BY <1>1, <1>2, <2>1, <2>2 DEF ResearchInv
    <2>7. \A g \in Hypotheses : hypothesis'[g].status = "decided" => EvidenceOf(g)' # {}
        BY <1>2, <2>1 DEF ResearchInv
    <2> QED
        BY <1>2, <2>4, <2>5, <2>6, <2>7 DEF ResearchInv, RowOk
<1> QED
    BY <1>3, <1>4 DEF LinkBacktest

LEMMA ApplyStep ==
    ASSUME ResearchInv, NEW p \in Researchers, Apply(p)
    PROVE  ResearchInv'
<1>1. /\ DOMAIN applied' = Hypotheses /\ UNCHANGED <<hypothesis, runs, evidence, requests>>
      /\ Close(p)
    BY DEF Apply, ResearchInv
<1>2. \A q \in Researchers : AskOk(asking[q])' \/ q = p
    BY <1>1 DEF ResearchInv, AskOk, EvidenceOf, InScope, Close
<1>3. /\ (DOMAIN asking = Researchers)'
      /\ (\A q \in Researchers : AskOk(asking[q]))'
      /\ (requests \in 0..MaxRequests)'
    BY <1>1, <1>2, CloseStep
<1> QED
    BY <1>1, <1>3 DEF ResearchInv, EvidenceOf, InScope, RowOk

LEMMA ResearchStep ==
    ASSUME ResearchInv, [ResearchNext]_researchVars
    PROVE  ResearchInv'
<1>1. CASE UNCHANGED researchVars
    BY <1>1, SMTT(30) DEF researchVars, ResearchInv, EvidenceOf, InScope, RowOk, AskOk
<1>2. CASE ResearchNext
    BY <1>2, CreateStep, BacktestStep, AskingStep, FindOpenStep, ReadStep, DecideStep, LinkStep,
       ApplyStep, Closes
    DEF ResearchNext, RequestFails
<1> QED
    BY <1>1, <1>2

\* What a request read of a hypothesis is still so at its last statement: only
\* an open hypothesis changes, and only to be decided.
THEOREM ResearchInvHolds == ResearchSpec => []ResearchInv
BY ResearchStart, ResearchStep, PTL DEF ResearchSpec

\* Types. The code behaviour: the checks of db/migrations/013.
THEOREM ResearchTypes == ResearchSpec => []ResearchTypeOK
<1>1. ResearchInv => ResearchTypeOK
    BY DEF ResearchInv, ResearchTypeOK, RowOk, AskOk, NoRow, NoRequest, Decisions
<1> QED
    BY <1>1, ResearchInvHolds, PTL

\* A decision is taken once, on evidence of its lottery, and neither changes after;
\* a bet that applies a hypothesis finds it so decided (decide(), linkBacktest(), its
\* trigger and RealBetService.create()).
THEOREM DecisionsStayFinal == ResearchSpec => DecisionsAreFinal
<1> DEFINE Final ==
        \A h \in Hypotheses :
          /\ hypothesis[h].status = "decided" =>
                /\ EvidenceOf(h) # {}
                /\ \A r \in EvidenceOf(h) : InScope(h, RunLottery[r])
                /\ hypothesis'[h] = hypothesis[h]
                /\ \A r \in Runs : <<h, r>> \in evidence' <=> <<h, r>> \in evidence
          /\ \A l \in applied'[h] \ applied[h] :
                hypothesis[h].decision = "applied-experimentally" /\ InScope(h, l)
<1>1. ResearchInv /\ [ResearchNext]_researchVars => [Final]_researchVars
    <2> SUFFICES ASSUME ResearchInv, ResearchNext, NEW h \in Hypotheses
                 PROVE  /\ hypothesis[h].status = "decided" =>
                              /\ EvidenceOf(h) # {}
                              /\ \A r \in EvidenceOf(h) : InScope(h, RunLottery[r])
                              /\ hypothesis'[h] = hypothesis[h]
                              /\ \A r \in Runs : <<h, r>> \in evidence' <=> <<h, r>> \in evidence
                        /\ \A l \in applied'[h] \ applied[h] :
                              hypothesis[h].decision = "applied-experimentally" /\ InScope(h, l)
        OBVIOUS
    <2>1. hypothesis[h].status = "decided" =>
             EvidenceOf(h) # {} /\ \A r \in EvidenceOf(h) : InScope(h, RunLottery[r])
        BY DEF ResearchInv
    <2>2. hypothesis[h].status = "decided" => hypothesis'[h] = hypothesis[h]
        <3>1. CASE CreateHypothesis
            BY <3>1 DEF CreateHypothesis, NoRow, ResearchInv
        <3>2. ASSUME NEW p \in Researchers, Decide(p)
              PROVE  hypothesis[h].status = "decided" => hypothesis'[h] = hypothesis[h]
            <4>1. asking[p].h \in Hypotheses
                BY <3>2 DEF Decide, At, ResearchInv, AskOk, NoRequest
            <4> QED
                BY <3>2, <4>1 DEF Decide, DecidesOpen, ResearchInv
        <3>3. CASE hypothesis' = hypothesis
            BY <3>3
        <3> QED
            BY <3>1, <3>2, <3>3
            DEF ResearchNext, BacktestSaved, Ask, FindOpen, RequireEvidence, FindRun,
                LinkBacktest, FindApplicable, Apply, RequestFails
    <2>3. hypothesis[h].status = "decided" =>
             \A r \in Runs : <<h, r>> \in evidence' <=> <<h, r>> \in evidence
        <3>1. ASSUME NEW p \in Researchers, LinkBacktest(p)
              PROVE  hypothesis[h].status = "decided" =>
                        \A r \in Runs : <<h, r>> \in evidence' <=> <<h, r>> \in evidence
            BY <3>1 DEF LinkBacktest, AttachesToOpen
        <3>2. CASE evidence' = evidence
            BY <3>2
        <3> QED
            BY <3>1, <3>2
            DEF ResearchNext, CreateHypothesis, BacktestSaved, Ask, FindOpen, RequireEvidence,
                Decide, FindRun, FindApplicable, Apply, RequestFails
    <2>4. \A l \in applied'[h] \ applied[h] :
             hypothesis[h].decision = "applied-experimentally" /\ InScope(h, l)
        <3>1. ASSUME NEW p \in Researchers, Apply(p)
              PROVE  \A l \in applied'[h] \ applied[h] :
                        hypothesis[h].decision = "applied-experimentally" /\ InScope(h, l)
            <4>1. /\ hypothesis[asking[p].h].decision = "applied-experimentally"
                  /\ InScope(asking[p].h, asking[p].lottery)
                BY <3>1 DEF Apply, At, ResearchInv, AskOk, NoRequest
            <4> QED
                BY <3>1, <4>1 DEF Apply, ResearchInv
        <3>2. CASE applied' = applied
            BY <3>2
        <3> QED
            BY <3>1, <3>2
            DEF ResearchNext, CreateHypothesis, BacktestSaved, Ask, FindOpen, RequireEvidence,
                Decide, FindRun, LinkBacktest, FindApplicable, RequestFails
    <2> QED
        BY <2>1, <2>2, <2>3, <2>4
<1> QED
    BY <1>1, ResearchInvHolds, PTL DEF ResearchSpec, DecisionsAreFinal

-----------------------------------------------------------------------------
(* AI insights: an entry of inFlight lives as long as its run              *)

\* NoHash is none of them.
Hashes == Nat \ {0}
\* A request whose own run of the provider goes on.
RunsNow(r) == r.at \in {"interpret", "save", "found"}

\* What a request of generate() holds at each await.  One that joined a run knows
\* its owner by the key of its own evidence.
ReaderOk(r) ==
    \/ r = NotReading
    \/ /\ r.at = "load"
       /\ r = [at |-> "load", force |-> r.force]
       /\ r.force \in BOOLEAN
    \/ /\ r.at \in {"lookup", "run", "interpret"}
       /\ r = [at |-> r.at, force |-> r.force, hash |-> r.hash]
       /\ r.force \in BOOLEAN /\ r.hash \in Hashes
       /\ r.at = "lookup" => ~r.force
    \/ /\ r.at = "join"
       /\ r = [at |-> "join", hash |-> r.hash, owner |-> r.owner]
       /\ r.hash \in Hashes
       /\ FlightKey(r.hash) \in DOMAIN inFlight
       /\ r.owner = inFlight[FlightKey(r.hash)]
    \/ /\ r.at \in {"save", "found"}
       /\ r = [at |-> r.at, force |-> r.force, hash |-> r.hash, model |-> r.model]
       /\ r.force \in BOOLEAN /\ r.hash \in Hashes /\ r.model \in Named
       /\ r.at = "found" => ~r.force
    \/ /\ r.at = "answered"
       /\ r = [at |-> "answered", hash |-> r.hash, shows |-> r.shows]
       /\ r.shows = r.hash

\* inFlight has one entry for each run that was not forced, under its key.
FlightsOk ==
    /\ \A k \in DOMAIN inFlight :
          /\ inFlight[k] \in Readers
          /\ RunsNow(reader[inFlight[k]])
          /\ ~reader[inFlight[k]].force
          /\ k = FlightKey(reader[inFlight[k]].hash)
    /\ \A p \in Readers : RunsNow(reader[p]) /\ ~reader[p].force =>
          /\ FlightKey(reader[p].hash) \in DOMAIN inFlight
          /\ inFlight[FlightKey(reader[p].hash)] = p

AiInv ==
    /\ facts \in Hashes
    /\ insights \in Seq([model : Named, shows : Hashes, hash : Nat])
    /\ \A i \in DOMAIN insights : insights[i].hash # NoHash => insights[i].shows = insights[i].hash
    /\ \A i, j \in DOMAIN insights :
          /\ insights[i].hash # NoHash
          /\ insights[i].hash = insights[j].hash
          /\ insights[i].model = insights[j].model
          => i = j
    /\ DOMAIN reader = Readers
    /\ \A p \in Readers : ReaderOk(reader[p])
    /\ FlightsOk

\* Different evidence has different keys.
LEMMA KeysDiffer == \A h, g : FlightKey(h) = FlightKey(g) <=> h = g
BY DEF FlightKey

LEMMA AiStart ==
    ASSUME AiInit
    PROVE  AiInv
BY DEF AiInit, AiInv, ReaderOk, FlightsOk, NotReading, RunsNow, Hashes

\* One request goes on, and no flight starts or ends.
LEMMA ReaderStep ==
    ASSUME AiInv, NEW p \in Readers, NEW x, ReaderOk(x),
           reader' = [reader EXCEPT ![p] = x],
           UNCHANGED <<facts, insights, inFlight>>,
           RunsNow(reader[p]) => RunsNow(x) /\ x.force = reader[p].force /\ x.hash = reader[p].hash,
           RunsNow(x) => RunsNow(reader[p]) \/ x.force
    PROVE  AiInv'
<1>1. /\ DOMAIN reader' = Readers
      /\ \A q \in Readers : reader'[q] = IF q = p THEN x ELSE reader[q]
    BY DEF AiInv
<1>2. \A q \in Readers : ReaderOk(reader'[q])
    BY <1>1 DEF AiInv
<1>3. \A q \in Readers : ReaderOk(reader[q])'
    BY <1>2 DEF ReaderOk
<1>4. FlightsOk'
    BY <1>1 DEF AiInv, FlightsOk
<1> QED
    BY <1>1, <1>3, <1>4 DEF AiInv

LEMMA AskInsightStep ==
    ASSUME AiInv, NEW p \in Readers, AskInsight(p)
    PROVE  AiInv'
<1>1. PICK force \in BOOLEAN : reader' = [reader EXCEPT ![p] = [at |-> "load", force |-> force]]
    BY DEF AskInsight
<1> DEFINE x == [at |-> "load", force |-> force]
<1>2. ReaderOk(x) /\ x.at = "load" /\ ~RunsNow(x)
    BY DEF ReaderOk, RunsNow
<1>3. ~RunsNow(reader[p]) /\ UNCHANGED <<facts, insights, inFlight>>
    BY DEF AskInsight, ReaderAt, RunsNow
<1> HIDE DEF x
<1> QED
    BY <1>1, <1>2, <1>3, ReaderStep DEF x

LEMMA LoadStep ==
    ASSUME AiInv, NEW p \in Readers, LoadEvidence(p)
    PROVE  AiInv'
<1> DEFINE x == [at |-> IF reader[p].force THEN "run" ELSE "lookup",
                 force |-> reader[p].force, hash |-> facts]
<1>1. reader[p].at = "load" /\ reader[p].force \in BOOLEAN /\ facts \in Hashes
    BY DEF LoadEvidence, ReaderAt, AiInv, ReaderOk, NotReading
<1>2. reader' = [reader EXCEPT ![p] = x] /\ UNCHANGED <<facts, insights, inFlight>>
    BY DEF LoadEvidence
<1>3. ReaderOk(x) /\ ~RunsNow(x) /\ ~RunsNow(reader[p])
    BY <1>1 DEF ReaderOk, RunsNow
<1> HIDE DEF x
<1> QED
    BY <1>2, <1>3, ReaderStep

\* What a request that goes past the lookup has read.
LEMMA BeforeRun ==
    ASSUME AiInv, NEW p \in Readers, reader[p].at \in {"lookup", "run"}
    PROVE  /\ reader[p] = [at |-> reader[p].at, force |-> reader[p].force, hash |-> reader[p].hash]
           /\ reader[p].force \in BOOLEAN /\ reader[p].hash \in Hashes
           /\ reader[p].at = "lookup" => ~reader[p].force
           /\ ~RunsNow(reader[p])
BY DEF AiInv, ReaderOk, NotReading, RunsNow

LEMMA JoinOrRunStep ==
    ASSUME AiInv, NEW p \in Readers, JoinOrRun(p)
    PROVE  AiInv'
<1> DEFINE r == reader[p]
           key == FlightKey(r.hash)
           x == [r EXCEPT !.at = "interpret"]
<1>1. /\ r = [at |-> r.at, force |-> r.force, hash |-> r.hash]
      /\ r.force \in BOOLEAN /\ r.hash \in Hashes
      /\ ~RunsNow(r) /\ UNCHANGED <<facts, insights>>
    BY BeforeRun DEF JoinOrRun, ReaderAt
<1>2. x = [at |-> "interpret", force |-> r.force, hash |-> r.hash]
    BY <1>1
<1>3. ReaderOk(x) /\ RunsNow(x) /\ x.force = r.force /\ x.hash = r.hash
    <2> HIDE DEF x
    <2> QED
        BY <1>1, <1>2 DEF ReaderOk, RunsNow
<1>4. CASE ~r.force /\ key \in DOMAIN inFlight
    <2> DEFINE j == [at |-> "join", hash |-> r.hash, owner |-> inFlight[key]]
    <2>1. reader' = [reader EXCEPT ![p] = j] /\ UNCHANGED inFlight
        BY <1>4 DEF JoinOrRun
    <2>2. ReaderOk(j) /\ ~RunsNow(j)
        BY <1>1, <1>4 DEF ReaderOk, RunsNow
    <2> HIDE DEF j, x
    <2> QED
        BY <1>1, <2>1, <2>2, ReaderStep
<1>5. CASE r.force
    <2>1. reader' = [reader EXCEPT ![p] = x] /\ UNCHANGED inFlight
        BY <1>5 DEF JoinOrRun
    <2> HIDE DEF x
    <2> QED
        BY <1>1, <1>3, <1>5, <2>1, ReaderStep
<1>6. CASE ~r.force /\ key \notin DOMAIN inFlight
    <2>1. /\ reader' = [reader EXCEPT ![p] = x]
          /\ inFlight' = [k \in DOMAIN inFlight \cup {key} |->
                             IF k = key THEN p ELSE inFlight[k]]
        BY <1>6 DEF JoinOrRun
    <2> HIDE DEF x
    <2>2. /\ DOMAIN reader' = Readers
          /\ \A q \in Readers : reader'[q] = IF q = p THEN x ELSE reader[q]
        BY <2>1 DEF AiInv
    <2>3. /\ DOMAIN inFlight' = DOMAIN inFlight \cup {key} /\ inFlight'[key] = p
          /\ \A k \in DOMAIN inFlight : k # key /\ inFlight'[k] = inFlight[k]
        BY <1>6, <2>1
    <2> HIDE DEF key
    <2>4. ASSUME NEW q \in Readers
          PROVE  ReaderOk(reader[q])'
        <3>1. ReaderOk(reader'[q])
            BY <1>3, <2>2 DEF AiInv
        <3> QED
            BY <2>3, <3>1 DEF ReaderOk
    <2>5. FlightsOk'
        <3>1. \A k \in DOMAIN inFlight' :
                 /\ inFlight'[k] \in Readers
                 /\ RunsNow(reader'[inFlight'[k]])
                 /\ ~reader'[inFlight'[k]].force
                 /\ k = FlightKey(reader'[inFlight'[k]].hash)
            <4>1. key = FlightKey(x.hash)
                BY <1>3 DEF key
            <4> QED
                BY <1>1, <1>3, <1>6, <2>2, <2>3, <4>1 DEF AiInv, FlightsOk
        <3>2. \A q \in Readers : RunsNow(reader'[q]) /\ ~reader'[q].force =>
                 /\ FlightKey(reader'[q].hash) \in DOMAIN inFlight'
                 /\ inFlight'[FlightKey(reader'[q].hash)] = q
            <4>1. key = FlightKey(x.hash)
                BY <1>3 DEF key
            <4> QED
                BY <1>1, <1>3, <1>6, <2>2, <2>3, <4>1 DEF AiInv, FlightsOk
        <3> QED
            BY <3>1, <3>2 DEF FlightsOk, RunsNow, FlightKey
    <2> QED
        BY <1>1, <2>2, <2>4, <2>5 DEF AiInv
<1> QED
    BY <1>4, <1>5, <1>6

LEMMA LookUpStep ==
    ASSUME AiInv, NEW p \in Readers, LookUp(p)
    PROVE  AiInv'
<1>1. reader[p].at = "lookup" /\ UNCHANGED <<facts, insights, inFlight>>
    BY DEF LookUp, ReaderAt
<1>2. CASE Stored(Configured, reader[p].hash)
    <2> DEFINE x == [at |-> "answered", hash |-> reader[p].hash, shows |-> reader[p].hash]
    <2>1. reader' = [reader EXCEPT ![p] = x]
        BY <1>2 DEF LookUp, Answered
    <2>2. ReaderOk(x) /\ ~RunsNow(x) /\ ~RunsNow(reader[p])
        BY <1>1 DEF ReaderOk, RunsNow
    <2> HIDE DEF x
    <2> QED
        BY <1>1, <2>1, <2>2, ReaderStep
<1>3. CASE ~Stored(Configured, reader[p].hash)
    <2> DEFINE r == reader[p]
               x == [at |-> "run", force |-> r.force, hash |-> r.hash]
    <2>1. /\ r = [at |-> r.at, force |-> r.force, hash |-> r.hash]
          /\ r.force \in BOOLEAN /\ r.hash \in Hashes /\ ~RunsNow(r)
        BY <1>1, BeforeRun
    <2>2. reader' = [reader EXCEPT ![p] = [r EXCEPT !.at = "run"]] /\ [r EXCEPT !.at = "run"] = x
        BY <1>3, <2>1 DEF LookUp
    <2>3. ReaderOk(x) /\ ~RunsNow(x)
        BY <2>1 DEF ReaderOk, RunsNow
    <2> HIDE DEF x
    <2> QED
        BY <1>1, <2>1, <2>2, <2>3, ReaderStep
<1> QED
    BY <1>2, <1>3

\* A run settles: it and whoever waits for it are answered with its evidence.
LEMMA SettleStep ==
    ASSUME AiInv, NEW p \in Readers, NEW answer, RunSettles(p, answer),
           \/ answer = NotReading
           \/ answer = [at |-> "answered", hash |-> reader[p].hash, shows |-> reader[p].hash],
           facts' = facts,
           insights' \in Seq([model : Named, shows : Hashes, hash : Nat]),
           \A i \in DOMAIN insights' :
              insights'[i].hash # NoHash => insights'[i].shows = insights'[i].hash,
           \A i, j \in DOMAIN insights' :
              /\ insights'[i].hash # NoHash
              /\ insights'[i].hash = insights'[j].hash
              /\ insights'[i].model = insights'[j].model
              => i = j
    PROVE  AiInv'
<1>1. /\ reader' = [q \in Readers |->
             IF q = p THEN answer
             ELSE IF q \notin Joined(p) THEN reader[q]
             ELSE IF answer.at = "none" THEN NotReading ELSE Answered(q, answer.shows)]
      /\ inFlight' = Restrict(inFlight, {k \in DOMAIN inFlight : inFlight[k] # p})
    BY DEF RunSettles, ForgetsEntry
<1>2. /\ DOMAIN inFlight' = {k \in DOMAIN inFlight : inFlight[k] # p}
      /\ \A k \in DOMAIN inFlight' : inFlight'[k] = inFlight[k]
    BY <1>1 DEF Restrict
<1>3. ASSUME NEW q \in Joined(p)
      PROVE  q \in Readers /\ reader[q].at = "join" /\ reader[q].hash = reader[p].hash
    <2>1. q \in Readers /\ reader[q].at = "join" /\ reader[q].owner = p
        BY DEF Joined, ReaderAt
    <2>2. /\ FlightKey(reader[q].hash) \in DOMAIN inFlight
          /\ inFlight[FlightKey(reader[q].hash)] = p
        BY <2>1 DEF AiInv, ReaderOk, NotReading
    <2> QED
        BY <2>1, <2>2, KeysDiffer DEF AiInv, FlightsOk
<1>4. /\ answer.at \in {"none", "answered"} /\ ReaderOk(answer)
      /\ answer.at = "answered" => answer.shows = reader[p].hash
    BY DEF ReaderOk, NotReading
<1>5. ASSUME NEW q \in Readers
      PROVE  /\ \/ reader'[q] = reader[q] /\ q # p /\ q \notin Joined(p)
                \/ reader'[q].at \in {"none", "answered"}
             /\ ReaderOk(reader[q])'
    <2>1. CASE q = p
        BY <1>1, <1>4, <2>1 DEF ReaderOk, NotReading
    <2>2. CASE q # p /\ q \notin Joined(p)
        <3>1. reader'[q] = reader[q] /\ ReaderOk(reader[q])
            BY <1>1, <2>2 DEF AiInv
        <3>2. reader[q].at = "join" => reader[q].owner # p
            BY <2>2 DEF Joined, ReaderAt
        <3> QED
            BY <1>2, <2>2, <3>1, <3>2 DEF ReaderOk, NotReading
    <2>3. CASE q # p /\ q \in Joined(p)
        <3>1. \/ reader'[q] = NotReading
              \/ reader'[q] = [at |-> "answered", hash |-> reader[q].hash, shows |-> reader[q].hash]
            BY <1>1, <1>3, <1>4, <2>3 DEF Answered
        <3> QED
            BY <3>1 DEF ReaderOk, NotReading
    <2> QED
        BY <2>1, <2>2, <2>3
<1>6. FlightsOk'
    <2>1. ASSUME NEW k \in DOMAIN inFlight'
          PROVE  /\ inFlight'[k] \in Readers
                 /\ RunsNow(reader'[inFlight'[k]])
                 /\ ~reader'[inFlight'[k]].force
                 /\ k = FlightKey(reader'[inFlight'[k]].hash)
        <3> DEFINE o == inFlight[k]
        <3>1. o \in Readers /\ o # p /\ RunsNow(reader[o]) /\ ~reader[o].force
              /\ k = FlightKey(reader[o].hash) /\ inFlight'[k] = o
            BY <1>2 DEF AiInv, FlightsOk
        <3>2. o \notin Joined(p)
            BY <1>3, <3>1 DEF RunsNow
        <3>3. reader'[o] = reader[o]
            BY <1>1, <3>1, <3>2
        <3> QED
            BY <3>1, <3>3
    <2>2. ASSUME NEW q \in Readers, RunsNow(reader'[q]), ~reader'[q].force
          PROVE  /\ FlightKey(reader'[q].hash) \in DOMAIN inFlight'
                 /\ inFlight'[FlightKey(reader'[q].hash)] = q
        <3>1. reader'[q] = reader[q] /\ q # p
            BY <1>5, <2>2 DEF RunsNow
        <3> QED
            BY <1>2, <2>2, <3>1 DEF AiInv, FlightsOk
    <2> QED
        BY <2>1, <2>2 DEF FlightsOk, RunsNow, FlightKey
<1>7. DOMAIN reader' = Readers /\ facts' \in Hashes
    BY <1>1 DEF AiInv
<1> QED
    BY <1>5, <1>6, <1>7 DEF AiInv

\* The rows of ai_insights when no statement writes them.
LEMMA RowsAreKept ==
    ASSUME AiInv, UNCHANGED insights
    PROVE  /\ insights' \in Seq([model : Named, shows : Hashes, hash : Nat])
           /\ \A i \in DOMAIN insights' :
                 insights'[i].hash # NoHash => insights'[i].shows = insights'[i].hash
           /\ \A i, j \in DOMAIN insights' :
                 /\ insights'[i].hash # NoHash
                 /\ insights'[i].hash = insights'[j].hash
                 /\ insights'[i].model = insights'[j].model
                 => i = j
BY DEF AiInv

LEMMA ProviderSteps ==
    ASSUME AiInv, NEW p \in Readers,
           ProviderFails(p) \/ ProviderAnswers(p) \/ StatementBreaks(p)
    PROVE  AiInv'
<1>1. CASE ProviderFails(p) \/ StatementBreaks(p)
    <2>1. RunSettles(p, NotReading) /\ UNCHANGED <<facts, insights>>
        BY <1>1 DEF ProviderFails, StatementBreaks
    <2> QED
        BY <2>1, RowsAreKept, SettleStep
<1>2. CASE ProviderAnswers(p)
    <2>1. PICK m \in Named : reader' = [reader EXCEPT ![p] =
             [at |-> "save", force |-> reader[p].force, hash |-> reader[p].hash, model |-> m]]
        BY <1>2 DEF ProviderAnswers
    <2> DEFINE x == [at |-> "save", force |-> reader[p].force, hash |-> reader[p].hash, model |-> m]
    <2>2. reader[p].at = "interpret" /\ reader[p].force \in BOOLEAN /\ reader[p].hash \in Hashes
        BY <1>2 DEF ProviderAnswers, ReaderAt, AiInv, ReaderOk, NotReading
    <2>3. ReaderOk(x) /\ RunsNow(x) /\ RunsNow(reader[p])
          /\ x.force = reader[p].force /\ x.hash = reader[p].hash
        BY <2>2 DEF ReaderOk, RunsNow
    <2>4. UNCHANGED <<facts, insights, inFlight>>
        BY <1>2 DEF ProviderAnswers
    <2> HIDE DEF x
    <2> QED
        BY <2>1, <2>3, <2>4, ReaderStep DEF x
<1> QED
    BY <1>1, <1>2

LEMMA SaveInsightStep ==
    ASSUME AiInv, NEW p \in Readers, SaveInsight(p)
    PROVE  AiInv'
<1> DEFINE r == reader[p]
           row == [model |-> r.model, shows |-> r.hash,
                   hash |-> IF r.force THEN NoHash ELSE r.hash]
<1>1. /\ r.at = "save" /\ r = [at |-> r.at, force |-> r.force, hash |-> r.hash, model |-> r.model]
      /\ r.force \in BOOLEAN /\ r.hash \in Hashes /\ r.model \in Named
    BY DEF SaveInsight, ReaderAt, AiInv, ReaderOk, NotReading
<1>2. CASE ~r.force /\ Stored(r.model, r.hash)
    <2> DEFINE x == [r EXCEPT !.at = "found"]
    <2>1. reader' = [reader EXCEPT ![p] = x] /\ UNCHANGED <<facts, insights, inFlight>>
        BY <1>2 DEF SaveInsight
    <2>2. x = [at |-> "found", force |-> r.force, hash |-> r.hash, model |-> r.model]
        BY <1>1
    <2>3. ReaderOk(x) /\ RunsNow(x) /\ RunsNow(r) /\ x.force = r.force /\ x.hash = r.hash
        <3> HIDE DEF x
        <3> QED
            BY <1>1, <1>2, <2>2 DEF ReaderOk, RunsNow
    <2> HIDE DEF x
    <2> QED
        BY <2>1, <2>3, ReaderStep
<1>3. CASE ~(~r.force /\ Stored(r.model, r.hash))
    <2>1. /\ insights' = Append(insights, row) /\ facts' = facts
          /\ RunSettles(p, [at |-> "answered", hash |-> r.hash, shows |-> r.hash])
        BY <1>3 DEF SaveInsight, Answered
    <2>2. row \in [model : Named, shows : Hashes, hash : Nat]
        BY <1>1 DEF Hashes, NoHash
    <2>3. row.hash # NoHash => /\ row.shows = row.hash
                              /\ ~Stored(row.model, row.hash)
        BY <1>3
    <2> HIDE DEF row
    <2>4. /\ insights' \in Seq([model : Named, shows : Hashes, hash : Nat])
          /\ Len(insights') = Len(insights) + 1 /\ Len(insights) \in Nat
          /\ DOMAIN insights = 1..Len(insights) /\ DOMAIN insights' = 1..(Len(insights) + 1)
          /\ \A i \in 1..Len(insights) : insights'[i] = insights[i]
          /\ insights'[Len(insights) + 1] = row
        BY <2>1, <2>2 DEF AiInv
    <2>5. \A i \in DOMAIN insights' :
             insights'[i].hash # NoHash => insights'[i].shows = insights'[i].hash
        BY <2>3, <2>4, SMTT(30) DEF AiInv
    <2>6. \A i, j \in DOMAIN insights' :
             /\ insights'[i].hash # NoHash
             /\ insights'[i].hash = insights'[j].hash
             /\ insights'[i].model = insights'[j].model
             => i = j
        <3> SUFFICES ASSUME NEW i \in DOMAIN insights', NEW j \in DOMAIN insights',
                            insights'[i].hash # NoHash,
                            insights'[i].hash = insights'[j].hash,
                            insights'[i].model = insights'[j].model
                     PROVE  i = j
            OBVIOUS
        <3>1. ASSUME NEW k \in 1..Len(insights), row.hash # NoHash
              PROVE  insights[k].hash # row.hash \/ insights[k].model # row.model
            BY <2>3, <2>4, <3>1 DEF Stored
        <3>2. CASE i <= Len(insights) /\ j <= Len(insights)
            <4>1. i \in DOMAIN insights /\ j \in DOMAIN insights
                BY <2>4, <3>2
            <4>2. insights'[i] = insights[i] /\ insights'[j] = insights[j]
                BY <2>4, <4>1
            <4> QED
                BY <4>1, <4>2 DEF AiInv
        <3>3. CASE ~(i <= Len(insights) /\ j <= Len(insights))
            <4>1. i = Len(insights) + 1 \/ j = Len(insights) + 1
                BY <2>4, <3>3
            <4> QED
                BY <2>4, <3>1, <4>1
        <3> QED
            BY <3>2, <3>3
    <2> QED
        BY <2>1, <2>4, <2>5, <2>6, SettleStep
<1> QED
    BY <1>2, <1>3

LEMMA FindConcurrentStep ==
    ASSUME AiInv, NEW p \in Readers, FindConcurrent(p)
    PROVE  AiInv'
<1>1. PICK i \in DOMAIN insights :
         /\ insights[i].hash = reader[p].hash
         /\ RunSettles(p, Answered(p, insights[i].shows))
    BY DEF FindConcurrent
<1>2. reader[p].hash \in Hashes
    BY DEF FindConcurrent, ReaderAt, AiInv, ReaderOk, NotReading
<1>3. insights[i].shows = reader[p].hash
    BY <1>1, <1>2 DEF AiInv, Hashes, NoHash
<1>4. UNCHANGED <<facts, insights>>
    BY DEF FindConcurrent
<1> QED
    BY <1>1, <1>3, <1>4, RowsAreKept, SettleStep DEF Answered

LEMMA SendStep ==
    ASSUME AiInv, NEW p \in Readers, SendInsight(p)
    PROVE  AiInv'
<1>1. ReaderOk(NotReading) /\ ~RunsNow(NotReading) /\ ~RunsNow(reader[p])
    BY DEF ReaderOk, RunsNow, NotReading, SendInsight, ReaderAt
<1> QED
    BY <1>1, ReaderStep DEF SendInsight

LEMMA AiStep ==
    ASSUME AiInv, [AiNext]_aiVars
    PROVE  AiInv'
<1>1. CASE UNCHANGED aiVars \/ FactsChange
    <2>1. facts' \in Hashes /\ UNCHANGED <<insights, inFlight, reader>>
        BY <1>1 DEF aiVars, FactsChange, AiInv, Hashes
    <2>2. ASSUME NEW p \in Readers
          PROVE  ReaderOk(reader[p])'
        <3>1. ReaderOk(reader[p]) /\ reader'[p] = reader[p] /\ inFlight' = inFlight
            BY <2>1 DEF AiInv
        <3> QED
            BY <3>1 DEF ReaderOk
    <2>3. FlightsOk'
        BY <2>1 DEF AiInv, FlightsOk
    <2> QED
        BY <2>1, <2>2, <2>3 DEF AiInv
<1>2. ASSUME NEW p \in Readers,
             \/ AskInsight(p) \/ LoadEvidence(p) \/ LookUp(p) \/ JoinOrRun(p)
             \/ ProviderFails(p) \/ ProviderAnswers(p) \/ SaveInsight(p) \/ FindConcurrent(p)
             \/ StatementBreaks(p) \/ SendInsight(p)
      PROVE  AiInv'
    <2>1. CASE JoinOrRun(p)
        BY <2>1, JoinOrRunStep
    <2> QED
        BY <1>2, <2>1, AskInsightStep, LoadStep, LookUpStep, ProviderSteps, SaveInsightStep,
           FindConcurrentStep, SendStep
<1> QED
    BY <1>1, <1>2 DEF AiNext

\* inFlight and the runs that go on agree, and rows show the evidence they hash.
THEOREM AiInvHolds == AiSpec => []AiInv
BY AiStart, AiStep, PTL DEF AiSpec

\* An answer interprets the evidence of its own request, an insight is stored once
\* for a model and evidence, and whoever waits, waits for a run that goes on (the key
\* of inFlight, its finally and the unique index of ai_insights).
THEOREM InsightsAlwaysFit == AiSpec => []InsightsFitEvidence
<1>1. AiInv => InsightsFitEvidence
    <2> SUFFICES ASSUME AiInv PROVE InsightsFitEvidence
        OBVIOUS
    <2>1. \A p \in Readers : ReaderAt(p, "answered") => reader[p].shows = reader[p].hash
        BY DEF AiInv, ReaderOk, ReaderAt, NotReading
    <2>2. \A k \in DOMAIN inFlight : reader[inFlight[k]].at \in {"interpret", "save", "found"}
        BY DEF AiInv, FlightsOk, RunsNow
    <2>3. \A p \in Readers : ReaderAt(p, "join") => p \in Joined(inFlight[FlightKey(reader[p].hash)])
        BY DEF AiInv, ReaderOk, ReaderAt, NotReading, Joined
    <2> QED
        BY <2>1, <2>2, <2>3 DEF AiInv, InsightsFitEvidence
<1> QED
    BY <1>1, AiInvHolds, PTL

\* A request that has yet to be counted: the provider has not been heard of it.
Uncounted == {p \in Readers : reader[p].at \in {"load", "lookup", "run", "interpret"}}

\* A request that holds the hash of its evidence.
Hashed(r) == r.at \in {"lookup", "run", "interpret", "save", "found"}

\* Every version of the evidence is one there was, and a request is counted once at
\* most: those counted and those to be counted are no more than were asked.
AiCounts ==
    /\ facts \in 1..MaxEvidence
    /\ \A i \in DOMAIN insights : insights[i].hash \in 0..MaxEvidence
    /\ \A p \in Readers : Hashed(reader[p]) => reader[p].hash \in 1..MaxEvidence
    /\ askedFor \in 0..MaxAsked
    /\ outcomes \in [Counters -> Nat]
    /\ IsFiniteSet(Uncounted)
    /\ outcomes["success"] + outcomes["error"] + outcomes["timeout"] + Cardinality(Uncounted)
          <= askedFor


\* Nothing is counted: fewer are left to count, or as many.
LEMMA NothingCounted ==
    ASSUME AiCounts, Uncounted' \subseteq Uncounted, UNCHANGED <<outcomes, askedFor>>
    PROVE  /\ askedFor' \in 0..MaxAsked /\ outcomes' \in [Counters -> Nat]
           /\ IsFiniteSet(Uncounted')
           /\ outcomes'["success"] + outcomes'["error"] + outcomes'["timeout"] + Cardinality(Uncounted')
                 <= askedFor'
<1>1. IsFiniteSet(Uncounted) /\ Cardinality(Uncounted) \in Nat
    BY FS_CardinalityType DEF AiCounts
<1>2. IsFiniteSet(Uncounted') /\ Cardinality(Uncounted') <= Cardinality(Uncounted)
    BY <1>1, FS_Subset
<1>3. Cardinality(Uncounted') \in Nat
    BY <1>2, FS_CardinalityType
<1>4. /\ outcomes["success"] \in Nat /\ outcomes["error"] \in Nat /\ outcomes["timeout"] \in Nat
      /\ askedFor \in Int
    BY AiInsightsAssumption DEF AiInsightsAssumption, AiCounts, Counters
<1> HIDE DEF Uncounted
<1> QED
    BY <1>1, <1>2, <1>3, <1>4 DEF AiCounts

\* One is counted, who was left to count.
LEMMA OneCounted ==
    ASSUME AiCounts, NEW p \in Uncounted, Uncounted' \subseteq Uncounted \ {p},
           NEW o \in Counters, Count(o), UNCHANGED askedFor
    PROVE  /\ askedFor' \in 0..MaxAsked /\ outcomes' \in [Counters -> Nat]
           /\ IsFiniteSet(Uncounted')
           /\ outcomes'["success"] + outcomes'["error"] + outcomes'["timeout"] + Cardinality(Uncounted')
                 <= askedFor'
<1>1. IsFiniteSet(Uncounted) /\ Cardinality(Uncounted) \in Nat
    BY FS_CardinalityType DEF AiCounts
<1>2. /\ IsFiniteSet(Uncounted \ {p})
      /\ Cardinality(Uncounted \ {p}) = Cardinality(Uncounted) - 1
    BY <1>1, FS_RemoveElement
<1>3. IsFiniteSet(Uncounted') /\ Cardinality(Uncounted') <= Cardinality(Uncounted \ {p})
    BY <1>2, FS_Subset
<1>4. Cardinality(Uncounted') \in Nat
    BY <1>3, FS_CardinalityType
<1>5. /\ outcomes["success"] \in Nat /\ outcomes["error"] \in Nat /\ outcomes["timeout"] \in Nat
      /\ outcomes \in [Counters -> Nat] /\ askedFor \in Int
    BY AiInsightsAssumption DEF AiInsightsAssumption, AiCounts, Counters
<1>6. /\ outcomes' \in [Counters -> Nat]
      /\ outcomes'["success"] + outcomes'["error"] + outcomes'["timeout"]
            = outcomes["success"] + outcomes["error"] + outcomes["timeout"] + 1
    <2>1. outcomes' = [outcomes EXCEPT ![o] = outcomes[o] + 1]
        BY DEF Count
    <2>2. outcomes' \in [Counters -> Nat]
        BY <1>5, <2>1
    <2>3. CASE o = "success"
        BY <1>5, <2>1, <2>3 DEF Counters
    <2>4. CASE o = "error"
        BY <1>5, <2>1, <2>4 DEF Counters
    <2>5. CASE o = "timeout"
        BY <1>5, <2>1, <2>5 DEF Counters
    <2> QED
        BY <2>2, <2>3, <2>4, <2>5 DEF Counters
<1>7. /\ outcomes'["success"] \in Nat /\ outcomes'["error"] \in Nat /\ outcomes'["timeout"] \in Nat
    BY <1>6 DEF Counters
<1> HIDE DEF Uncounted
<1> QED
    BY <1>1, <1>2, <1>3, <1>4, <1>5, <1>6, <1>7 DEF AiCounts

\* A request whose state changes has rested, been answered or joined another.
Rests(q) == reader'[q] = reader[q] \/ reader'[q].at \in {"none", "answered", "join"}

\* Where no request goes on, those left to count are fewer and the hashes are those there were.
LEMMA RestIsTyped ==
    ASSUME AiCounts, \A q \in Readers : Rests(q)
    PROVE  /\ Uncounted' \subseteq Uncounted
           /\ \A q \in Readers : Hashed(reader'[q]) => reader'[q].hash \in 1..MaxEvidence
BY DEF AiCounts, Rests, Uncounted, Hashed

\* A run that settles leaves its request, and those that joined it, at rest.
LEMMA SettledRest ==
    ASSUME NEW p \in Readers, NEW answer, answer.at \in {"none", "answered"}, RunSettles(p, answer)
    PROVE  (\A q \in Readers : Rests(q)) /\ reader'[p].at \in {"none", "answered"}
<1>1. ASSUME NEW q \in Readers
      PROVE  Rests(q) /\ (q = p => reader'[q].at \in {"none", "answered"})
    <2>1. \/ q = p /\ reader'[q] = answer
          \/ q # p /\ reader'[q] = reader[q]
          \/ q # p /\ reader'[q] = NotReading
          \/ q # p /\ reader'[q] = Answered(q, answer.shows)
        BY DEF RunSettles
    <2>2. NotReading.at = "none" /\ Answered(q, answer.shows).at = "answered"
        BY DEF NotReading, Answered
    <2> QED
        BY <2>1, <2>2 DEF Rests
<1> QED
    BY <1>1

\* After the lookup a request waits for another's run or asks the provider.
LEMMA JoinOrRunIsTyped ==
    ASSUME AiInv, AiCounts, NEW p \in Readers, JoinOrRun(p)
    PROVE  /\ Uncounted' \subseteq Uncounted
           /\ \A q \in Readers : Hashed(reader'[q]) => reader'[q].hash \in 1..MaxEvidence
<1>1. \A q \in Readers \ {p} : reader'[q] = reader[q]
    BY DEF AiInv, JoinOrRun
<1>2. /\ reader[p] = [at |-> reader[p].at, force |-> reader[p].force, hash |-> reader[p].hash]
      /\ reader[p].at = "run"
    BY DEF AiInv, ReaderOk, NotReading, JoinOrRun, ReaderAt
<1>3. \/ reader'[p].at = "join"
      \/ reader'[p].at = "interpret" /\ reader'[p].hash = reader[p].hash
    <2>1. \/ reader' = [reader EXCEPT ![p] = [at |-> "join", hash |-> @.hash,
                                              owner |-> inFlight[FlightKey(reader[p].hash)]]]
          \/ reader' = [reader EXCEPT ![p] = [@ EXCEPT !.at = "interpret"]]
        BY DEF JoinOrRun
    <2> QED
        BY <1>2, <2>1 DEF AiInv
<1>4. reader[p].hash \in 1..MaxEvidence /\ p \in Uncounted
    BY <1>2 DEF AiCounts, Hashed, Uncounted
<1> QED
    BY <1>1, <1>3, <1>4 DEF AiCounts, Uncounted, Hashed

\* Every step of a request keeps the hashes and the counts.
LEMMA RequestCounts ==
    ASSUME AiInv, AiCounts, NEW p \in Readers,
           \/ AskInsight(p) \/ LoadEvidence(p) \/ LookUp(p) \/ JoinOrRun(p)
           \/ ProviderFails(p) \/ ProviderAnswers(p) \/ SaveInsight(p) \/ FindConcurrent(p)
           \/ StatementBreaks(p) \/ SendInsight(p)
    PROVE  AiCounts'
<1> DEFINE HashesOk == \A q \in Readers : Hashed(reader'[q]) => reader'[q].hash \in 1..MaxEvidence
           RowsOk == \A i \in DOMAIN insights' : insights'[i].hash \in 0..MaxEvidence
<1>1. /\ facts \in 1..MaxEvidence /\ MaxEvidence \in Nat /\ MaxAsked \in Nat
      /\ ReaderOk(reader[p])
      /\ \A i \in DOMAIN insights : insights[i].hash \in 0..MaxEvidence
    BY AiInsightsAssumption DEF AiInsightsAssumption, AiCounts, AiInv
<1>2. CASE AskInsight(p)
    <2>1. PICK force \in BOOLEAN : reader' = [reader EXCEPT ![p] = [at |-> "load", force |-> force]]
        BY <1>2 DEF AskInsight
    <2>2. reader'[p].at = "load" /\ \A q \in Readers \ {p} : reader'[q] = reader[q]
        BY <2>1 DEF AiInv
    <2>3. Uncounted' = Uncounted \cup {p} /\ p \notin Uncounted /\ HashesOk
        BY <1>2, <2>2 DEF AskInsight, ReaderAt, Uncounted, Hashed, AiCounts
    <2>4. IsFiniteSet(Uncounted') /\ Cardinality(Uncounted') = Cardinality(Uncounted) + 1
        BY <2>3, FS_AddElement DEF AiCounts
    <2>5. Cardinality(Uncounted) \in Nat
        BY FS_CardinalityType DEF AiCounts
    <2>6. /\ outcomes["success"] \in Nat /\ outcomes["error"] \in Nat /\ outcomes["timeout"] \in Nat
        BY DEF AiCounts, Counters
    <2>7. /\ askedFor < MaxAsked /\ askedFor' = askedFor + 1
          /\ UNCHANGED <<facts, insights, outcomes>>
        BY <1>2 DEF AskInsight
    <2> HIDE DEF Uncounted
    <2>8. /\ askedFor' \in 0..MaxAsked
          /\ outcomes'["success"] + outcomes'["error"] + outcomes'["timeout"]
                + Cardinality(Uncounted') <= askedFor'
        BY <1>1, <2>4, <2>5, <2>6, <2>7 DEF AiCounts
    <2> QED
        BY <2>3, <2>4, <2>7, <2>8 DEF AiCounts
<1>3. ASSUME Uncounted' \subseteq Uncounted, HashesOk, RowsOk, UNCHANGED <<facts, outcomes, askedFor>>
      PROVE  AiCounts'
    <2>1. facts' \in 1..MaxEvidence
        BY <1>1, <1>3
    <2> HIDE DEF Uncounted
    <2> QED
        BY <1>3, <2>1, NothingCounted DEF AiCounts
<1>4. ASSUME \A q \in Readers : Rests(q), RowsOk, UNCHANGED <<facts, outcomes, askedFor>>
      PROVE  AiCounts'
    BY <1>3, <1>4, RestIsTyped
<1>5. ASSUME UNCHANGED insights
      PROVE  RowsOk
    BY <1>1, <1>5
<1>6. CASE LoadEvidence(p)
    <2>1. reader[p].at = "load"
        BY <1>6 DEF LoadEvidence, ReaderAt
    <2> DEFINE at == IF reader[p].force THEN "run" ELSE "lookup"
    <2>2. reader' = [reader EXCEPT ![p] = [at |-> at, force |-> reader[p].force, hash |-> facts]]
        BY <1>6 DEF LoadEvidence
    <2>3. at \in {"run", "lookup"}
        OBVIOUS
    <2> HIDE DEF at
    <2>5. /\ reader'[p].hash = facts /\ reader'[p].at \in {"run", "lookup"}
          /\ \A q \in Readers \ {p} : reader'[q] = reader[q]
        BY <2>2, <2>3 DEF AiInv
    <2>4. Uncounted' \subseteq Uncounted /\ HashesOk
        BY <1>1, <2>1, <2>5 DEF Uncounted, Hashed, AiCounts
    <2> QED
        BY <1>3, <1>5, <1>6, <2>4 DEF LoadEvidence
<1>7. CASE LookUp(p)
    <2>1. reader[p].at = "lookup" /\ UNCHANGED <<facts, insights, outcomes, askedFor>>
        BY <1>7 DEF LookUp, ReaderAt
    <2>2. CASE reader' = [reader EXCEPT ![p] = Answered(p, @.hash)]
        <3>1. reader'[p].at = "answered" /\ \A q \in Readers \ {p} : reader'[q] = reader[q]
            BY <2>2 DEF Answered, AiInv
        <3> QED
            BY <1>4, <1>5, <2>1, <3>1 DEF Rests
    <2>3. CASE reader' = [reader EXCEPT ![p] = [@ EXCEPT !.at = "run"]]
        <3>1. reader[p] = [at |-> reader[p].at, force |-> reader[p].force, hash |-> reader[p].hash]
            BY <2>1, BeforeRun
        <3>2. /\ reader'[p].hash = reader[p].hash /\ reader'[p].at = "run"
              /\ \A q \in Readers \ {p} : reader'[q] = reader[q]
            BY <2>3, <3>1 DEF AiInv
        <3>3. Uncounted' \subseteq Uncounted /\ HashesOk
            BY <2>1, <3>2 DEF Uncounted, Hashed, AiCounts
        <3> QED
            BY <1>3, <1>5, <2>1, <3>3
    <2> QED
        BY <1>7, <2>2, <2>3 DEF LookUp
<1>8. CASE JoinOrRun(p)
    <2>1. UNCHANGED <<facts, insights, outcomes, askedFor>>
        BY <1>8 DEF JoinOrRun
    <2> QED
        BY <1>3, <1>5, <1>8, <2>1, JoinOrRunIsTyped
<1>9. CASE ProviderFails(p)
    <2>1. p \in Uncounted
        BY <1>9 DEF ProviderFails, ReaderAt, Uncounted
    <2>2. PICK o \in Counters : Count(o)
        BY <1>9 DEF ProviderFails, Counters
    <2>3. RunSettles(p, NotReading) /\ NotReading.at = "none"
        BY <1>9 DEF ProviderFails, NotReading
    <2>4. (\A q \in Readers : Rests(q)) /\ reader'[p].at \in {"none", "answered"}
        BY <2>3, SettledRest
    <2>5. Uncounted' \subseteq Uncounted \ {p} /\ HashesOk
        BY <2>4, RestIsTyped DEF Uncounted
    <2>6. UNCHANGED <<facts, insights, askedFor>>
        BY <1>9 DEF ProviderFails
    <2> HIDE DEF Uncounted
    <2> QED
        BY <1>1, <2>1, <2>2, <2>5, <2>6, OneCounted DEF AiCounts
<1>10. CASE ProviderAnswers(p)
    <2>1. reader[p].at = "interpret" /\ p \in Uncounted /\ reader[p].hash \in 1..MaxEvidence
        BY <1>10 DEF ProviderAnswers, ReaderAt, Uncounted, AiCounts, Hashed
    <2>2. "success" \in Counters /\ Count("success") /\ UNCHANGED <<facts, insights, askedFor>>
        BY <1>10 DEF ProviderAnswers, Counters
    <2>3. PICK m \in Named : reader' = [reader EXCEPT ![p] =
             [at |-> "save", force |-> @.force, hash |-> @.hash, model |-> m]]
        BY <1>10 DEF ProviderAnswers
    <2>4. /\ reader'[p].at = "save" /\ reader'[p].hash = reader[p].hash
          /\ \A q \in Readers \ {p} : reader'[q] = reader[q]
        BY <2>3 DEF AiInv
    <2>5. Uncounted' \subseteq Uncounted \ {p} /\ HashesOk
        BY <2>1, <2>4 DEF Uncounted, Hashed, AiCounts
    <2> HIDE DEF Uncounted
    <2> QED
        BY <1>1, <2>1, <2>2, <2>5, OneCounted DEF AiCounts
<1>11. CASE SaveInsight(p)
    <2> DEFINE r == reader[p]
               row == [model |-> r.model, shows |-> r.hash, hash |-> IF r.force THEN NoHash ELSE r.hash]
    <2>1. r.at = "save" /\ r.hash \in 1..MaxEvidence /\ UNCHANGED <<facts, outcomes, askedFor>>
        BY <1>11 DEF SaveInsight, ReaderAt, AiCounts, Hashed
    <2>2. \/ reader' = [reader EXCEPT ![p].at = "found"] /\ UNCHANGED insights
          \/ insights' = Append(insights, row) /\ RunSettles(p, Answered(p, r.hash))
        BY <1>11 DEF SaveInsight
    <2>3. CASE reader' = [reader EXCEPT ![p].at = "found"] /\ UNCHANGED insights
        <3>1. r = [at |-> r.at, force |-> r.force, hash |-> r.hash, model |-> r.model]
            BY <1>1, <2>1 DEF ReaderOk, NotReading
        <3>2. /\ reader'[p].at = "found" /\ reader'[p].hash = r.hash
              /\ \A q \in Readers \ {p} : reader'[q] = reader[q]
            BY <2>3, <3>1 DEF AiInv
        <3>3. Uncounted' \subseteq Uncounted /\ HashesOk
            BY <2>1, <3>2 DEF Uncounted, Hashed, AiCounts
        <3> QED
            BY <1>3, <1>5, <2>1, <2>3, <3>3
    <2>4. CASE insights' = Append(insights, row) /\ RunSettles(p, Answered(p, r.hash))
        <3>1. Answered(p, r.hash).at = "answered"
            BY DEF Answered
        <3>2. \A q \in Readers : Rests(q)
            BY <2>4, <3>1, SettledRest
        <3>3. row.hash \in 0..MaxEvidence
            BY <1>1, <2>1 DEF NoHash
        <3>4. insights \in Seq([model : Named, shows : Hashes, hash : Nat])
            BY DEF AiInv
        <3> HIDE DEF row
        <3>5. RowsOk
            BY <1>1, <2>4, <3>3, <3>4
        <3> QED
            BY <1>4, <2>1, <3>2, <3>5
    <2> QED
        BY <2>2, <2>3, <2>4
<1>12. CASE FindConcurrent(p)
    <2>1. PICK shows : RunSettles(p, Answered(p, shows))
        BY <1>12 DEF FindConcurrent
    <2>2. Answered(p, shows).at = "answered"
        BY DEF Answered
    <2>3. \A q \in Readers : Rests(q)
        BY <2>1, <2>2, SettledRest
    <2> QED
        BY <1>4, <1>5, <1>12, <2>3 DEF FindConcurrent
<1>13. CASE StatementBreaks(p)
    <2>1. RunSettles(p, NotReading) /\ NotReading.at = "none"
        BY <1>13 DEF StatementBreaks, NotReading
    <2>2. \A q \in Readers : Rests(q)
        BY <2>1, SettledRest
    <2> QED
        BY <1>4, <1>5, <1>13, <2>2 DEF StatementBreaks
<1>14. CASE SendInsight(p)
    <2>1. reader'[p].at = "none" /\ \A q \in Readers \ {p} : reader'[q] = reader[q]
        BY <1>14 DEF SendInsight, NotReading, AiInv
    <2> QED
        BY <1>4, <1>5, <1>14, <2>1 DEF SendInsight, Rests
<1> QED
    BY <1>2, <1>6, <1>7, <1>8, <1>9, <1>10, <1>11, <1>12, <1>13, <1>14

\* What is true of the flights and what is counted.
AiTyped == AiInv /\ AiCounts

LEMMA AiTypedInit == AiInit => AiTyped
<1> SUFFICES ASSUME AiInit PROVE AiTyped
    OBVIOUS
<1>1. /\ facts = 1 /\ insights = <<>> /\ askedFor = 0
      /\ reader = [p \in Readers |-> NotReading] /\ outcomes = [o \in Counters |-> 0]
    BY DEF AiInit
<1>2. \A p \in Readers : reader[p].at = "none"
    BY <1>1 DEF NotReading
<1>3. Uncounted = {}
    BY <1>2 DEF Uncounted
<1>4. IsFiniteSet(Uncounted) /\ Cardinality(Uncounted) = 0
    BY <1>3, FS_EmptySet
<1>5. /\ outcomes \in [Counters -> Nat]
      /\ outcomes["success"] = 0 /\ outcomes["error"] = 0 /\ outcomes["timeout"] = 0
    BY <1>1 DEF Counters
<1>6. /\ facts \in 1..MaxEvidence /\ askedFor \in 0..MaxAsked
      /\ \A p \in Readers : ~Hashed(reader[p])
    BY <1>1, <1>2, AiInsightsAssumption DEF AiInsightsAssumption, Hashed
<1> HIDE DEF Uncounted
<1>7. AiCounts
    BY <1>1, <1>4, <1>5, <1>6 DEF AiCounts
<1> QED
    BY <1>7, AiStart DEF AiTyped

LEMMA AiTypedStep == AiTyped /\ [AiNext]_aiVars => AiTyped'
<1> SUFFICES ASSUME AiInv, AiCounts, [AiNext]_aiVars PROVE AiInv' /\ AiCounts'
    BY DEF AiTyped
<1>1. AiInv'
    BY AiStep
<1>2. AiCounts'
    <2>1. CASE FactsChange \/ UNCHANGED aiVars
        <3>1. UNCHANGED <<insights, reader, outcomes, askedFor>>
            BY <2>1 DEF FactsChange, aiVars
        <3>2. facts' \in 1..MaxEvidence
            BY <2>1, AiInsightsAssumption DEF FactsChange, aiVars, AiInsightsAssumption, AiCounts
        <3>3. Uncounted' = Uncounted
            BY <3>1 DEF Uncounted
        <3> HIDE DEF Uncounted
        <3> QED
            BY <3>1, <3>2, <3>3 DEF AiCounts
    <2>2. ASSUME NEW p \in Readers,
                 \/ AskInsight(p) \/ LoadEvidence(p) \/ LookUp(p) \/ JoinOrRun(p)
                 \/ ProviderFails(p) \/ ProviderAnswers(p) \/ SaveInsight(p) \/ FindConcurrent(p)
                 \/ StatementBreaks(p) \/ SendInsight(p)
          PROVE  AiCounts'
        BY <2>2, RequestCounts
    <2> QED
        BY <2>1, <2>2 DEF AiNext
<1> QED
    BY <1>1, <1>2

LEMMA AiTypedType == AiTyped => AiTypeOK
<1> SUFFICES ASSUME AiInv, AiCounts PROVE AiTypeOK
    BY DEF AiTyped
<1>1. \A i \in DOMAIN insights : insights[i].model \in Named /\ insights[i].hash \in 0..MaxEvidence
    <2> DEFINE R == [model : Named, shows : Hashes, hash : Nat]
    <2>1. insights \in Seq(R)
        BY DEF AiInv
    <2> HIDE DEF R
    <2>2. \A i \in DOMAIN insights : insights[i] \in R
        BY <2>1
    <2>3. \A i \in DOMAIN insights : insights[i].model \in Named
        BY <2>2 DEF R
    <2> QED
        BY <2>3 DEF AiCounts
<1>2. \A p \in Readers : reader[p].at \in {"none", "load", "lookup", "run", "join", "interpret",
                                           "save", "found", "answered"}
    BY DEF AiInv, ReaderOk, NotReading
<1>3. \A o \in Counters : outcomes[o] \in 0..MaxAsked
    <2>1. Cardinality(Uncounted) \in Nat
        BY FS_CardinalityType DEF AiCounts
    <2>2. /\ outcomes["success"] \in Nat /\ outcomes["error"] \in Nat /\ outcomes["timeout"] \in Nat
          /\ askedFor \in Int /\ askedFor <= MaxAsked /\ MaxAsked \in Nat
          /\ outcomes["success"] + outcomes["error"] + outcomes["timeout"] + Cardinality(Uncounted)
                <= askedFor
        BY AiInsightsAssumption DEF AiInsightsAssumption, AiCounts, Counters
    <2> HIDE DEF Uncounted
    <2>3. /\ outcomes["success"] \in 0..MaxAsked /\ outcomes["error"] \in 0..MaxAsked
          /\ outcomes["timeout"] \in 0..MaxAsked
        BY <2>1, <2>2
    <2> QED
        BY <2>3 DEF Counters
<1> QED
    BY <1>1, <1>2, <1>3 DEF AiCounts, AiTypeOK

\* A request is at one await of generate(), every version of the evidence is one there
\* was, and no request is counted twice (interpret() of openAiInsights.ts).
THEOREM AiTypes == AiSpec => []AiTypeOK
BY AiTypedInit, AiTypedStep, AiTypedType, PTL DEF AiSpec

-----------------------------------------------------------------------------
(***************************************************************************)
(* Generation, for every set of requests, seeds, selections and targets.   *)
(* The invariant has three parts.  Plans: what the cache, the flights and  *)
(* the requests hold for a key is the plan of that key, and the places     *)
(* taken are the plans in flight.  Rows: a preview carries in its id the   *)
(* games and the target it shows, and batches carry those of their         *)
(* preview.  Calls: what a request has read so far, for each await.        *)
(***************************************************************************)

(* The inductive invariant                                                 *)

IsSeq(q) == q \in Seq(Range(q))

PastDraws == Seq({0, 1})

FullAsks == [kind : {"plan", "preview", "save"}, target : Targets,
             config : Configs, seed : Seeds]
LegacyAsks == [kind : {"legacy"}, target : Targets]

\* The plan that a key of the cache stands for.
PlanFor(key) ==
    [history |-> key[1], target |-> TargetOf(key[1], key[2]), selection |-> key[3]]

\* A row of generation_previews: its id holds what it shows.
PreviewOk(row) ==
    /\ row = [id |-> row.id, target |-> row.target, games |-> row.games, alive |-> row.alive]
    /\ row.id # NoKey
    /\ row.games = row.id.games
    /\ row.target = row.id.target
    /\ row.alive \in BOOLEAN

\* A row of generated_game_batches: its key, if it has one, is what it holds.
BatchOk(row) ==
    /\ row = [key |-> row.key, target |-> row.target, games |-> row.games, hidden |-> row.hidden]
    /\ row.hidden \in BOOLEAN
    /\ row.key # NoKey => row.games = row.key.games /\ row.target = row.key.target

\* What a request has read when it stands at each await.
CallOk(r) ==
    \/ r = Idle
    \/ /\ r.pc = "history"
       /\ r = [pc |-> "history", ask |-> r.ask]
       /\ r.ask \in FullAsks \cup LegacyAsks
    \/ /\ r.pc = "plan"
       /\ r = [pc |-> "plan", ask |-> r.ask, snap |-> r.snap, key |-> r.key]
       /\ r.ask \in FullAsks /\ r.snap \in PastDraws
       /\ r.key = PlanKey(r.snap, r.ask.target, r.ask.config.selection)
    \/ /\ r.pc \in {"generate", "store"}
       /\ r = [pc |-> r.pc, ask |-> r.ask, snap |-> r.snap, plan |-> r.plan]
       /\ r.ask \in FullAsks /\ r.snap \in PastDraws
       /\ r.plan = PlanOf(r.snap, r.ask.target, r.ask.config.selection)
    \/ /\ r.pc = "preview"
       /\ r = [pc |-> "preview", ask |-> r.ask, snap |-> r.snap]
       /\ r.ask \in FullAsks
    \/ /\ r.pc = "save"
       /\ r = [pc |-> "save", found |-> r.found]
       /\ PreviewOk(r.found)
    \/ /\ r.pc = "insert"
       /\ r = [pc |-> "insert", target |-> r.target, games |-> r.games]
    \/ /\ r.pc \in {"find", "hide"}
       /\ r = [pc |-> r.pc, batch |-> r.batch, hidden |-> r.hidden]
       /\ r.hidden \in BOOLEAN

CallsInv ==
    /\ DOMAIN call = Callers
    /\ \A c \in Callers : CallOk(call[c])
    /\ calls \in 0..MaxCalls

RowsInv ==
    /\ contests \in PastDraws /\ Len(contests) <= MaxContest
    /\ DOMAIN previews = Seeds
    /\ \A s \in Seeds : previews[s] = None \/ PreviewOk(previews[s])
    /\ IsSeq(batches)
    /\ \A b \in DOMAIN batches : BatchOk(batches[b])
    /\ \A b, d \in DOMAIN batches : batches[b].key = batches[d].key /\ batches[b].key # NoKey => b = d
    /\ \A c \in Callers : call[c].pc \in {"find", "hide"} => call[c].batch \in DOMAIN batches

PlansInv ==
    /\ IsSeq(planCache) /\ Len(planCache) <= PlanCacheLimit
    /\ \A i \in DOMAIN planCache : planCache[i].plan = PlanFor(planCache[i].key)
    /\ \A k \in DOMAIN flights : flights[k] = PlanFor(k) /\ Cached(k) = {}
    /\ IsFiniteSet(DOMAIN flights)
    /\ activePlans = Cardinality(DOMAIN flights)
    /\ activePlans <= MaxPlans
    /\ settledWorkers \in Nat
    /\ \A c \in Callers : call[c].pc = "plan" => call[c].key \in DOMAIN flights

GenInv == CallsInv /\ RowsInv /\ PlansInv

-----------------------------------------------------------------------------
(* Sequences whose elements have no type of their own                      *)

LEMMA SeqOfElements ==
    ASSUME NEW S, NEW q \in Seq(S), NEW T, \A i \in 1..Len(q) : q[i] \in T
    PROVE  q \in Seq(T)
OBVIOUS

LEMMA AppendFacts ==
    ASSUME NEW q, IsSeq(q), NEW e
    PROVE  /\ IsSeq(Append(q, e))
           /\ Len(Append(q, e)) = Len(q) + 1 /\ Len(q) \in Nat
           /\ DOMAIN q = 1..Len(q)
           /\ DOMAIN Append(q, e) = DOMAIN q \cup {Len(q) + 1}
           /\ \A i \in DOMAIN q : Append(q, e)[i] = q[i]
           /\ Append(q, e)[Len(q) + 1] = e
<1> DEFINE S == Range(q) \cup {e}
           r == Append(q, e)
<1>1. q \in Seq(Range(q)) /\ Len(q) \in Nat /\ DOMAIN q = 1..Len(q)
    BY DEF IsSeq
<1>2. q \in Seq(S)
    <2>1. \A i \in 1..Len(q) : q[i] \in S
        BY <1>1 DEF Range
    <2> QED
        BY <1>1, <2>1
<1>3. r \in Seq(S) /\ Len(r) = Len(q) + 1
    BY <1>2
<1>4. DOMAIN r = 1..(Len(q) + 1) /\ \A i \in 1..Len(q) : r[i] = q[i]
    BY <1>1, <1>2, <1>3
<1>5. r[Len(q) + 1] = e
    BY <1>1, <1>2
<1>6. \A i \in 1..Len(r) : r[i] \in Range(r)
    BY <1>3, <1>4 DEF Range
<1>7. r \in Seq(Range(r))
    BY <1>3, <1>6, SeqOfElements
<1> QED
    BY <1>1, <1>3, <1>4, <1>5, <1>7 DEF IsSeq

LEMMA TailFacts ==
    ASSUME NEW q, IsSeq(q), q # <<>>
    PROVE  /\ IsSeq(Tail(q))
           /\ Len(Tail(q)) = Len(q) - 1 /\ Len(q) \in Nat
           /\ DOMAIN q = 1..Len(q) /\ DOMAIN Tail(q) = 1..(Len(q) - 1)
           /\ \A i \in DOMAIN Tail(q) : Tail(q)[i] = q[i + 1] /\ i + 1 \in DOMAIN q
<1> DEFINE r == Tail(q)
<1>1. q \in Seq(Range(q)) /\ Len(q) \in Nat /\ DOMAIN q = 1..Len(q)
    BY DEF IsSeq
<1>2. r \in Seq(Range(q)) /\ Len(r) = Len(q) - 1
    BY <1>1
<1>3. DOMAIN r = 1..(Len(q) - 1) /\ \A i \in 1..(Len(q) - 1) : r[i] = q[i + 1]
    BY <1>1, <1>2
<1>4. \A i \in 1..Len(r) : r[i] \in Range(r)
    BY <1>2, <1>3 DEF Range
<1>5. r \in Seq(Range(r))
    <2> HIDE DEF r
    <2> QED
        BY <1>2, <1>4, SeqOfElements
<1> QED
    BY <1>1, <1>2, <1>3, <1>5 DEF IsSeq

\* An update of one element keeps the length.
LEMMA ExceptFacts ==
    ASSUME NEW q, IsSeq(q), NEW i \in DOMAIN q, NEW e
    PROVE  /\ IsSeq([q EXCEPT ![i] = e])
           /\ DOMAIN [q EXCEPT ![i] = e] = DOMAIN q
           /\ \A j \in DOMAIN q : [q EXCEPT ![i] = e][j] = IF j = i THEN e ELSE q[j]
<1> DEFINE r == [q EXCEPT ![i] = e]
<1>1. q \in Seq(Range(q)) /\ Len(q) \in Nat /\ DOMAIN q = 1..Len(q)
    BY DEF IsSeq
<1>2. DOMAIN r = 1..Len(q) /\ \A j \in 1..Len(q) : r[j] = IF j = i THEN e ELSE q[j]
    BY <1>1
<1>3. r = [j \in 1..Len(q) |-> r[j]] /\ \A j \in 1..Len(q) : r[j] \in Range(r)
    BY <1>1, <1>2 DEF Range
<1>4. r \in Seq(Range(r))
    <2>1. r \in [1..Len(q) -> Range(r)]
        <3> HIDE DEF r
        <3> QED
            BY <1>3
    <2> HIDE DEF r
    <2> QED
        BY <1>1, <2>1
<1> QED
    BY <1>1, <1>2, <1>4 DEF IsSeq

-----------------------------------------------------------------------------
(* Plans and keys                                                          *)

\* Two requests that share a key of the cache share its plan: the key holds
\* the history in full, and for a request that names no target its length is
\* the target (planCacheKey() against scopeGenerationHistory()).
LEMMA KeyOfPlan ==
    ASSUME NEW h \in PastDraws, NEW t \in Targets, NEW s
    PROVE  PlanFor(PlanKey(h, t, s)) = PlanOf(h, t, s)
<1> DEFINE scoped == Scoped(h, t)
<1>1. PlanKey(h, t, s)[1] = scoped /\ PlanKey(h, t, s)[2] = t /\ PlanKey(h, t, s)[3] = s
    BY DEF PlanKey
<1>2. TargetOf(scoped, t) = TargetOf(h, t)
    <2>1. CASE t # Latest
        BY <2>1 DEF TargetOf
    <2>2. CASE t = Latest
        <3>1. Len(h) \in Nat /\ DOMAIN h = 1..Len(h) /\ h = [n \in 1..Len(h) |-> h[n]]
            BY DEF PastDraws
        <3>2. {n \in DOMAIN h : n < Len(h) + 1} = 1..Len(h)
            BY <3>1
        <3>3. scoped = [n \in 1..Len(h) |-> h[n]]
            BY <2>2, <3>2 DEF Scoped, TargetOf, LatestNumber, Restrict
        <3> QED
            BY <3>1, <3>3
    <2> QED
        BY <2>1, <2>2
<1> QED
    BY <1>1, <1>2 DEF PlanFor, PlanOf

\* What putPlanCache() leaves in the cache for a key that was not in it: the
\* new entry and entries that were there, no more of them than the limit.
LEMMA PutFacts ==
    ASSUME IsSeq(planCache), Len(planCache) <= PlanCacheLimit,
           NEW key, Cached(key) = {}, NEW plan
    PROVE  LET new == PutPlanCache(key, plan)
           IN  /\ IsSeq(new)
               /\ Len(new) <= PlanCacheLimit
               /\ \A i \in DOMAIN new : \/ new[i] = [key |-> key, plan |-> plan]
                                       \/ \E j \in DOMAIN planCache : new[i] = planCache[j]
<1> DEFINE e == [key |-> key, plan |-> plan]
           all == Append(planCache, e)
<1>1. /\ IsSeq(all) /\ Len(all) = Len(planCache) + 1 /\ Len(planCache) \in Nat
      /\ DOMAIN all = DOMAIN planCache \cup {Len(planCache) + 1}
      /\ \A i \in DOMAIN planCache : all[i] = planCache[i]
      /\ all[Len(planCache) + 1] = e
    <2> HIDE DEF e
    <2> QED
        BY AppendFacts
<1>2. PutPlanCache(key, plan) = IF Len(all) > PlanCacheLimit THEN Tail(all) ELSE all
    BY DEF PutPlanCache
<1>3. PlanCacheLimit \in Nat
    BY GenerationAssumption DEF GenerationAssumption
<1>4. \A i \in DOMAIN all : all[i] = e \/ \E j \in DOMAIN planCache : all[i] = planCache[j]
    <2> HIDE DEF all, e
    <2> QED
        BY <1>1
<1>5. CASE Len(all) > PlanCacheLimit
    <2>1. all # <<>>
        <3> HIDE DEF all, e
        <3> QED
            BY <1>1, <1>3, <1>5
    <2>2. /\ IsSeq(Tail(all)) /\ Len(Tail(all)) = Len(all) - 1
          /\ \A i \in DOMAIN Tail(all) : Tail(all)[i] = all[i + 1] /\ i + 1 \in DOMAIN all
        <3> HIDE DEF all, e
        <3> QED
            BY <1>1, <2>1, TailFacts
    <2>3. Len(Tail(all)) <= PlanCacheLimit
        <3> HIDE DEF all, e
        <3> QED
            BY <1>1, <1>3, <2>2
    <2>4. \A i \in DOMAIN Tail(all) :
             Tail(all)[i] = e \/ \E j \in DOMAIN planCache : Tail(all)[i] = planCache[j]
        <3> HIDE DEF all, e
        <3> QED
            BY <1>4, <2>2
    <2> HIDE DEF all
    <2> QED
        BY <1>2, <1>5, <2>2, <2>3, <2>4
<1>6. CASE ~(Len(all) > PlanCacheLimit)
    <2>1. Len(all) <= PlanCacheLimit
        <3> HIDE DEF all, e
        <3> QED
            BY <1>1, <1>3, <1>6
    <2> HIDE DEF all
    <2> QED
        BY <1>1, <1>2, <1>4, <1>6, <2>1
<1> QED
    BY <1>5, <1>6

\* The id of a preview holds the games and the target it shows (previewId()).
LEMMA RowsShow ==
    ASSUME NEW ask, NEW snap, NEW plan
    PROVE  PreviewOk(PreviewRow(ask, snap, plan))
<1> DEFINE row == PreviewRow(ask, snap, plan)
<1>1. "seed" \in DOMAIN row.id
    BY DEF PreviewRow
<1>2. DOMAIN NoKey = {}
    BY DEF NoKey
<1>3. row.id # NoKey
    <2> HIDE DEF row
    <2> QED
        BY <1>1, <1>2
<1> QED
    BY <1>3 DEF PreviewOk, PreviewRow

-----------------------------------------------------------------------------
(* The initial states                                                      *)

LEMMA InitInv ==
    ASSUME GenInit
    PROVE  GenInv
<1> USE DEF GenInit
<1>1. CallsInv
    BY GenerationAssumption DEF CallsInv, CallOk, GenerationAssumption
<1>2. ASSUME NEW s \in Seeds, NEW r \in LeftBehind(s)
      PROVE  PreviewOk(r)
    <2>1. PICK g : r = PreviewRow([seed |-> s, config |-> g, target |-> Latest], <<0>>,
                                  PlanOf(<<0>>, Latest, g.selection))
        BY <1>2 DEF LeftBehind
    <2> QED
        BY <2>1, RowsShow
<1>3. RowsInv
    <2>1. contests \in PastDraws /\ Len(contests) <= MaxContest
        BY GenerationAssumption DEF PastDraws, GenerationAssumption
    <2>2. DOMAIN previews = Seeds /\ \A s \in Seeds : previews[s] = None \/ PreviewOk(previews[s])
        BY <1>2
    <2>3. IsSeq(batches) /\ DOMAIN batches = {}
        BY DEF IsSeq, Range
    <2> QED
        BY <2>1, <2>2, <2>3 DEF RowsInv, Idle
<1>4. PlansInv
    <2>1. IsSeq(planCache) /\ DOMAIN planCache = {} /\ Len(planCache) = 0
        BY DEF IsSeq, Range
    <2>2. DOMAIN flights = {} /\ IsFiniteSet(DOMAIN flights) /\ Cardinality(DOMAIN flights) = 0
        BY FS_EmptySet
    <2> QED
        BY <2>1, <2>2, GenerationAssumption DEF PlansInv, Idle, GenerationAssumption
<1> QED
    BY <1>1, <1>3, <1>4 DEF GenInv

-----------------------------------------------------------------------------
(* Steps that change one request                                           *)

LEMMA OneCall ==
    ASSUME CallsInv, NEW c \in Callers, NEW x, CallOk(x),
           call' = [call EXCEPT ![c] = x], calls' \in 0..MaxCalls
    PROVE  /\ CallsInv'
           /\ \A d \in Callers : call'[d] = IF d = c THEN x ELSE call[d]
<1>1. DOMAIN call' = Callers
    BY DEF CallsInv
<1>2. \A d \in Callers : call'[d] = IF d = c THEN x ELSE call[d]
    BY DEF CallsInv
<1>3. \A d \in Callers : CallOk(call'[d])
    BY <1>2 DEF CallsInv
<1> QED
    BY <1>1, <1>2, <1>3 DEF CallsInv

\* The tables keep their invariant when only a request changes.
LEMMA RowsStay ==
    ASSUME RowsInv, UNCHANGED tables,
           \A d \in Callers : call'[d].pc \in {"find", "hide"} =>
              call'[d].batch \in DOMAIN batches
    PROVE  RowsInv'
BY DEF RowsInv, tables

LEMMA PlansStay ==
    ASSUME PlansInv, UNCHANGED memory,
           \A d \in Callers : call'[d].pc = "plan" => call'[d].key \in DOMAIN flights
    PROVE  PlansInv'
BY DEF PlansInv, memory, Cached

\* A request goes on, or is answered, with what it read.
LEMMA Reply ==
    ASSUME GenInv, NEW c \in Callers, NEW x, CallOk(x),
           call' = [call EXCEPT ![c] = x], calls' \in 0..MaxCalls,
           UNCHANGED <<tables, memory>>,
           x.pc = "plan" => x.key \in DOMAIN flights,
           x.pc \in {"find", "hide"} => x.batch \in DOMAIN batches
    PROVE  GenInv'
<1>1. CallsInv' /\ \A d \in Callers : call'[d] = IF d = c THEN x ELSE call[d]
    BY OneCall DEF GenInv
<1>2. RowsInv'
    <2>1. \A d \in Callers : call'[d].pc \in {"find", "hide"} => call'[d].batch \in DOMAIN batches
        BY <1>1 DEF GenInv, RowsInv
    <2> QED
        BY <2>1, RowsStay DEF GenInv
<1>3. PlansInv'
    <2>1. \A d \in Callers : call'[d].pc = "plan" => call'[d].key \in DOMAIN flights
        BY <1>1 DEF GenInv, PlansInv
    <2> QED
        BY <2>1, PlansStay DEF GenInv
<1> QED
    BY <1>1, <1>2, <1>3 DEF GenInv

\* A request is answered while the tables change.
LEMMA CallAnswered ==
    ASSUME GenInv, NEW c \in Callers, Answer(c), UNCHANGED <<memory, calls>>
    PROVE  /\ CallsInv' /\ PlansInv'
           /\ \A d \in Callers : call'[d] = IF d = c THEN Idle ELSE call[d]
<1>1. CallOk(Idle)
    BY DEF CallOk
<1>2. CallsInv' /\ \A d \in Callers : call'[d] = IF d = c THEN Idle ELSE call[d]
    BY <1>1, OneCall DEF GenInv, CallsInv, Answer
<1>3. \A d \in Callers : call'[d].pc = "plan" => call'[d].key \in DOMAIN flights
    BY <1>2 DEF Idle, GenInv, PlansInv
<1> QED
    BY <1>2, <1>3, PlansStay DEF GenInv

LEMMA Refused ==
    ASSUME GenInv, NEW c \in Callers, Answer(c), UNCHANGED <<tables, memory, calls>>
    PROVE  GenInv'
<1>1. CallOk(Idle) /\ Idle.pc = "idle"
    BY DEF CallOk, Idle
<1>2. calls' \in 0..MaxCalls
    BY DEF GenInv, CallsInv
<1> QED
    BY <1>1, <1>2, Reply DEF Answer

-----------------------------------------------------------------------------
(* The steps of a request                                                  *)

LEMMA ArriveStep ==
    ASSUME GenInv, NEW c \in Callers, Arrive(c)
    PROVE  GenInv'
<1> USE DEF Arrive
<1>1. calls' \in 0..MaxCalls
    BY GenerationAssumption DEF GenerationAssumption, GenInv, CallsInv
<1>2. ASSUME NEW ask \in FullAsks \cup LegacyAsks, Reading(c, ask)
      PROVE  GenInv'
    <2> DEFINE x == [pc |-> "history", ask |-> ask]
    <2>1. CallOk(x) /\ x.pc = "history"
        BY DEF CallOk
    <2>2. call' = [call EXCEPT ![c] = x]
        BY <1>2 DEF Reading
    <2> HIDE DEF x
    <2> QED
        BY <1>1, <2>1, <2>2, Reply
<1>3. CASE \E kind \in {"plan", "preview", "save"}, t \in Targets, g \in Configs, s \in Seeds :
              Reading(c, [kind |-> kind, target |-> t, config |-> g, seed |-> s])
    <2>1. PICK kind \in {"plan", "preview", "save"}, t \in Targets, g \in Configs, s \in Seeds :
              Reading(c, [kind |-> kind, target |-> t, config |-> g, seed |-> s])
        BY <1>3
    <2>2. [kind |-> kind, target |-> t, config |-> g, seed |-> s] \in FullAsks
        BY DEF FullAsks
    <2> QED
        BY <1>2, <2>1, <2>2
<1>4. CASE \E t \in Targets : Reading(c, [kind |-> "legacy", target |-> t])
    <2>1. PICK t \in Targets : Reading(c, [kind |-> "legacy", target |-> t])
        BY <1>4
    <2>2. [kind |-> "legacy", target |-> t] \in LegacyAsks
        BY DEF LegacyAsks
    <2> QED
        BY <1>2, <2>1, <2>2
<1>5. ASSUME NEW b \in DOMAIN batches, NEW hidden \in BOOLEAN,
             call' = [call EXCEPT ![c] = [pc |-> "find", batch |-> b, hidden |-> hidden]]
      PROVE  GenInv'
    <2> DEFINE x == [pc |-> "find", batch |-> b, hidden |-> hidden]
    <2>1. CallOk(x) /\ x.pc = "find" /\ x.batch = b
        BY DEF CallOk
    <2> HIDE DEF x
    <2> QED
        BY <1>1, <1>5, <2>1, Reply DEF x
<1> QED
    BY <1>3, <1>4, <1>5

\* What a request that has read nothing yet asks for.
LEMMA AskOf ==
    ASSUME GenInv, NEW c \in Callers
    PROVE  /\ Asks(c, {"save"}) \/ Asks(c, {"plan", "preview"}) => call[c].ask \in FullAsks
           /\ contests \in PastDraws
           /\ calls \in 0..MaxCalls
BY DEF GenInv, CallsInv, RowsInv, CallOk, Asks, FullAsks, LegacyAsks, Idle

LEMMA ReadHistoryToSaveStep ==
    ASSUME GenInv, NEW c \in Callers, ReadHistoryToSave(c)
    PROVE  GenInv'
<1> DEFINE x == [pc |-> "preview", ask |-> call[c].ask, snap |-> contests]
<1>1. CallOk(x) /\ x.pc = "preview"
    BY AskOf DEF CallOk, ReadHistoryToSave
<1>2. call' = [call EXCEPT ![c] = x] /\ UNCHANGED <<tables, memory, calls>>
    BY DEF ReadHistoryToSave
<1> HIDE DEF x
<1> QED
    BY <1>1, <1>2, AskOf, Reply

\* The plan and the key of a request for a plan.
LEMMA PlanOfAsk ==
    ASSUME GenInv, NEW c \in Callers, AsksPlan(c)
    PROVE  PlanFor(KeyOf(c, contests)) =
              PlanOf(contests, call[c].ask.target, call[c].ask.config.selection)
BY AskOf, KeyOfPlan DEF AsksPlan, KeyOf, FullAsks

LEMMA WithPlanOk ==
    ASSUME NEW ask \in FullAsks, NEW snap \in PastDraws
    PROVE  LET x == WithPlan(ask, snap, PlanOf(snap, ask.target, ask.config.selection))
           IN  CallOk(x) /\ x.pc \in {"idle", "generate"}
BY DEF WithPlan, CallOk, Idle

LEMMA PlanCachedStep ==
    ASSUME GenInv, NEW c \in Callers, PlanCached(c)
    PROVE  GenInv'
<1>1. AsksPlan(c) /\ UNCHANGED <<tables, memory, calls>>
    BY DEF PlanCached
<1>2. PICK i \in Cached(KeyOf(c, contests)) :
         call' = [call EXCEPT ![c] = WithPlan(call[c].ask, contests, planCache[i].plan)]
    BY DEF PlanCached
<1>3. planCache[i].plan = PlanOf(contests, call[c].ask.target, call[c].ask.config.selection)
    BY <1>1, PlanOfAsk DEF GenInv, PlansInv, Cached
<1>4. call[c].ask \in FullAsks
    BY <1>1, AskOf DEF AsksPlan
<1> DEFINE x == WithPlan(call[c].ask, contests, planCache[i].plan)
<1>5. CallOk(x) /\ x.pc \in {"idle", "generate"}
    BY <1>3, <1>4, AskOf, WithPlanOk
<1> HIDE DEF x
<1> QED
    BY <1>1, <1>2, <1>5, AskOf, Reply DEF x

\* A request that awaits a plan in flight.
LEMMA WaitingFacts ==
    ASSUME GenInv, NEW c \in Callers, AsksPlan(c), Waiting(c)
    PROVE  LET x == [pc |-> "plan", ask |-> call[c].ask, snap |-> contests,
                     key |-> KeyOf(c, contests)]
           IN  call' = [call EXCEPT ![c] = x] /\ CallOk(x)
<1>1. call[c].ask \in FullAsks
    BY AskOf DEF AsksPlan
<1> QED
    BY <1>1, AskOf DEF CallOk, Waiting, KeyOf

LEMMA PlanJoinedStep ==
    ASSUME GenInv, NEW c \in Callers, PlanJoined(c)
    PROVE  GenInv'
<1> DEFINE x == [pc |-> "plan", ask |-> call[c].ask, snap |-> contests,
                 key |-> KeyOf(c, contests)]
<1>1. /\ call' = [call EXCEPT ![c] = x] /\ CallOk(x)
      /\ KeyOf(c, contests) \in DOMAIN flights
      /\ UNCHANGED <<tables, memory, calls>>
    BY WaitingFacts DEF PlanJoined
<1>2. x.pc = "plan" /\ x.key = KeyOf(c, contests)
    OBVIOUS
<1> HIDE DEF x
<1> QED
    BY <1>1, <1>2, AskOf, Reply

LEMMA PlanStartedStep ==
    ASSUME GenInv, NEW c \in Callers, PlanStarted(c)
    PROVE  GenInv'
<1> DEFINE key == KeyOf(c, contests)
           x == [pc |-> "plan", ask |-> call[c].ask, snap |-> contests, key |-> key]
<1>1. /\ AsksPlan(c) /\ Cached(key) = {} /\ key \notin DOMAIN flights
      /\ activePlans < MaxPlans /\ activePlans' = activePlans + 1
      /\ flights' = [k \in DOMAIN flights \cup {key} |->
                       IF k \in DOMAIN flights THEN flights[k]
                       ELSE PlanOf(contests, call[c].ask.target, call[c].ask.config.selection)]
      /\ call' = [call EXCEPT ![c] = x] /\ CallOk(x)
      /\ UNCHANGED <<tables, planCache, settledWorkers, calls>>
    BY WaitingFacts DEF PlanStarted
<1>2. x.pc = "plan" /\ x.key = key
    OBVIOUS
<1>3. CallsInv' /\ \A d \in Callers : call'[d] = IF d = c THEN x ELSE call[d]
    <2> HIDE DEF x
    <2> QED
        BY <1>1, AskOf, OneCall DEF GenInv
<1>4. RowsInv'
    <2>1. \A d \in Callers : call'[d].pc \in {"find", "hide"} => call'[d].batch \in DOMAIN batches
        <3> HIDE DEF x
        <3> QED
            BY <1>2, <1>3 DEF GenInv, RowsInv
    <2> QED
        BY <1>1, <2>1, RowsStay DEF GenInv
<1>5. PlansInv'
    <2>1. DOMAIN flights' = DOMAIN flights \cup {key}
        BY <1>1
    <2>2. \A k \in DOMAIN flights' : flights'[k] = PlanFor(k) /\ Cached(k)' = {}
        <3> HIDE DEF key, x
        <3>1. flights'[key] = PlanFor(key)
            BY <1>1, PlanOfAsk DEF key
        <3>2. \A k : Cached(k)' = Cached(k)
            BY <1>1 DEF Cached
        <3> QED
            BY <1>1, <2>1, <3>1, <3>2 DEF GenInv, PlansInv
    <2>3. /\ IsFiniteSet(DOMAIN flights')
          /\ Cardinality(DOMAIN flights') = Cardinality(DOMAIN flights) + 1
        BY <1>1, <2>1, FS_AddElement DEF GenInv, PlansInv
    <2>4. activePlans' = Cardinality(DOMAIN flights') /\ activePlans' <= MaxPlans
        <3>1. activePlans \in Nat /\ MaxPlans \in Nat
            BY GenerationAssumption, FS_CardinalityType DEF GenInv, PlansInv, GenerationAssumption
        <3> QED
            BY <1>1, <2>3, <3>1 DEF GenInv, PlansInv
    <2>5. \A d \in Callers : call'[d].pc = "plan" => call'[d].key \in DOMAIN flights'
        <3> HIDE DEF x, key
        <3> QED
            BY <1>2, <1>3, <2>1 DEF GenInv, PlansInv
    <2>6. /\ IsSeq(planCache)' /\ Len(planCache') <= PlanCacheLimit
          /\ \A i \in DOMAIN planCache' : planCache'[i].plan = PlanFor(planCache'[i].key)
          /\ settledWorkers' \in Nat
        <3>1. UNCHANGED <<planCache, settledWorkers>>
            BY <1>1
        <3> QED
            BY <3>1 DEF GenInv, PlansInv
    <2>7. IsFiniteSet(DOMAIN flights')
        BY <2>3
    <2> HIDE DEF key, x
    <2> QED
        BY <2>2, <2>4, <2>5, <2>6, <2>7 DEF PlansInv
<1> QED
    BY <1>3, <1>4, <1>5 DEF GenInv

LEMMA GenerateSteps ==
    ASSUME GenInv, NEW c \in Callers, PruneExpired(c) \/ StorePreview(c)
    PROVE  GenInv'
<1>1. CASE PruneExpired(c)
    <2> USE DEF PruneExpired
    <2> DEFINE x == [call[c] EXCEPT !.pc = "store"]
    <2>1. CallOk(x) /\ x.pc = "store"
        BY <1>1 DEF GenInv, CallsInv, CallOk, Idle
    <2>2. call' = [call EXCEPT ![c] = x]
        BY <1>1 DEF Goto
    <2>3. CallsInv' /\ \A d \in Callers : call'[d] = IF d = c THEN x ELSE call[d]
        <3> HIDE DEF x
        <3> QED
            BY <1>1, <2>1, <2>2, AskOf, OneCall DEF GenInv
    <2>4. RowsInv'
        <3>1. /\ DOMAIN previews' = Seeds
              /\ \A s \in Seeds : previews'[s] = None \/ PreviewOk(previews'[s])
            BY <1>1 DEF GenInv, RowsInv
        <3>2. \A d \in Callers : call'[d].pc \in {"find", "hide"} => call'[d].batch \in DOMAIN batches
            <4> HIDE DEF x
            <4> QED
                BY <2>1, <2>3 DEF GenInv, RowsInv
        <3> QED
            BY <1>1, <3>1, <3>2 DEF GenInv, RowsInv
    <2>5. PlansInv'
        <3>1. \A d \in Callers : call'[d].pc = "plan" => call'[d].key \in DOMAIN flights
            <4> HIDE DEF x
            <4> QED
                BY <2>1, <2>3 DEF GenInv, PlansInv
        <3> QED
            BY <1>1, <3>1, PlansStay DEF GenInv
    <2> QED
        BY <2>3, <2>4, <2>5 DEF GenInv
<1>2. CASE StorePreview(c)
    <2> DEFINE row == PreviewRow(call[c].ask, call[c].snap, call[c].plan)
    <2>1. /\ call[c].pc = "store" /\ Answer(c)
          /\ previews' = [previews EXCEPT ![call[c].ask.seed] = row]
          /\ UNCHANGED <<contests, batches, memory, calls>>
        BY <1>2 DEF StorePreview
    <2>2. PreviewOk(row)
        BY RowsShow
    <2>3. /\ DOMAIN previews' = Seeds
          /\ \A s \in Seeds : previews'[s] = None \/ PreviewOk(previews'[s])
        <3> HIDE DEF row
        <3> QED
            BY <2>1, <2>2 DEF GenInv, RowsInv
    <2>4. /\ CallsInv' /\ PlansInv'
          /\ \A d \in Callers : call'[d] = IF d = c THEN Idle ELSE call[d]
        BY <2>1, CallAnswered
    <2>5. RowsInv'
        BY <2>1, <2>3, <2>4 DEF GenInv, RowsInv, Idle
    <2> QED
        BY <2>4, <2>5 DEF GenInv
<1> QED
    BY <1>1, <1>2

LEMMA FindPreviewStep ==
    ASSUME GenInv, NEW c \in Callers, FindPreview(c)
    PROVE  GenInv'
<1>1. call[c].pc = "preview" /\ UNCHANGED <<tables, memory, calls>>
    BY DEF FindPreview
<1>2. CASE StillShows(previews[call[c].ask.seed], c)
    <2> DEFINE x == [pc |-> "save", found |-> previews[call[c].ask.seed]]
    <2>1. call' = [call EXCEPT ![c] = x]
        BY <1>2 DEF FindPreview
    <2>2. call[c].ask.seed \in Seeds
        BY <1>1 DEF GenInv, CallsInv, CallOk, Idle, FullAsks
    <2>3. PreviewOk(previews[call[c].ask.seed])
        BY <1>2, <2>2 DEF GenInv, RowsInv, StillShows
    <2>4. CallOk(x) /\ x.pc = "save"
        BY <2>3 DEF CallOk
    <2> HIDE DEF x
    <2> QED
        BY <1>1, <2>1, <2>4, AskOf, Reply
<1>3. CASE ~StillShows(previews[call[c].ask.seed], c)
    BY <1>1, <1>3, Refused DEF FindPreview
<1> QED
    BY <1>2, <1>3

\* A new batch is well formed and, if it has a key, the only one with it.
LEMMA BatchAdded ==
    ASSUME RowsInv, NEW row, BatchOk(row),
           row.key = NoKey \/ ~Taken(row.key),
           batches' = Append(batches, row), UNCHANGED <<contests, previews>>,
           \A d \in Callers : call'[d].pc \in {"find", "hide"} =>
              call'[d].batch \in DOMAIN batches
    PROVE  RowsInv'
<1>1. /\ IsSeq(batches') /\ Len(batches) \in Nat
      /\ DOMAIN batches = 1..Len(batches)
      /\ DOMAIN batches' = DOMAIN batches \cup {Len(batches) + 1}
      /\ \A i \in DOMAIN batches : batches'[i] = batches[i]
      /\ batches'[Len(batches) + 1] = row
    BY AppendFacts DEF RowsInv
<1>2. \A b \in DOMAIN batches' : BatchOk(batches'[b])
    BY <1>1 DEF RowsInv
<1>3. \A b, d \in DOMAIN batches' :
         batches'[b].key = batches'[d].key /\ batches'[b].key # NoKey => b = d
    BY <1>1 DEF RowsInv, Taken
<1> QED
    BY <1>1, <1>2, <1>3 DEF RowsInv

LEMMA BatchSteps ==
    ASSUME GenInv, NEW c \in Callers, SaveBatch(c) \/ InsertBatch(c) \/ HideBatch(c)
    PROVE  GenInv'
<1>1. Answer(c) /\ UNCHANGED <<contests, previews, memory, calls>>
    BY DEF SaveBatch, InsertBatch, HideBatch
<1>2. /\ CallsInv' /\ PlansInv'
      /\ \A d \in Callers : call'[d] = IF d = c THEN Idle ELSE call[d]
    BY <1>1, CallAnswered
<1>3. \A d \in Callers : call'[d].pc \in {"find", "hide"} => call'[d].batch \in DOMAIN batches
    BY <1>2 DEF GenInv, RowsInv, Idle
<1>4. CASE SaveBatch(c) /\ Taken(call[c].found.id)
    <2>1. UNCHANGED tables
        BY <1>1, <1>4 DEF SaveBatch, tables
    <2> QED
        BY <1>2, <1>3, <2>1, RowsStay DEF GenInv
<1>5. CASE SaveBatch(c) /\ ~Taken(call[c].found.id)
    <2>1. batches' = Append(batches, SavedRow(c)) /\ call[c].pc = "save"
        BY <1>5 DEF SaveBatch
    <2>2. PreviewOk(call[c].found)
        BY <2>1 DEF GenInv, CallsInv, CallOk, Idle
    <2>3. BatchOk(SavedRow(c)) /\ SavedRow(c).key = call[c].found.id
        BY <2>2 DEF SavedRow, BatchRow, BatchOk, PreviewOk
    <2>4. RowsInv'
        <3> HIDE DEF SavedRow
        <3> QED
            BY <1>1, <1>3, <1>5, <2>1, <2>3, BatchAdded DEF GenInv
    <2> QED
        BY <1>2, <2>4 DEF GenInv
<1>6. CASE InsertBatch(c)
    <2> DEFINE row == BatchRow(NoKey, call[c].target, call[c].games)
    <2>1. batches' = Append(batches, row) /\ BatchOk(row) /\ row.key = NoKey
        BY <1>6 DEF InsertBatch, BatchRow, BatchOk
    <2>2. RowsInv'
        <3> HIDE DEF row
        <3> QED
            BY <1>1, <1>3, <2>1, BatchAdded DEF GenInv
    <2> QED
        BY <1>2, <2>2 DEF GenInv
<1>7. CASE HideBatch(c)
    <2> DEFINE b == call[c].batch
               row == [batches[b] EXCEPT !.hidden = call[c].hidden]
    <2>1. call[c].pc = "hide" /\ batches' = [batches EXCEPT ![b] = row]
        BY <1>7 DEF HideBatch
    <2>2. b \in DOMAIN batches /\ BatchOk(batches[b]) /\ call[c].hidden \in BOOLEAN
        BY <2>1 DEF GenInv, RowsInv, CallsInv, CallOk, Idle
    <2>3. BatchOk(row) /\ row.key = batches[b].key
        BY <2>2 DEF BatchOk
    <2>4. /\ IsSeq(batches') /\ DOMAIN batches' = DOMAIN batches
          /\ \A d \in DOMAIN batches : batches'[d] = IF d = b THEN row ELSE batches[d]
        <3> HIDE DEF row, b
        <3> QED
            BY <2>1, <2>2, ExceptFacts DEF GenInv, RowsInv
    <2>5. RowsInv'
        <3> HIDE DEF row, b
        <3>1. \A d \in DOMAIN batches' : BatchOk(batches'[d]) /\ batches'[d].key = batches[d].key
            BY <2>3, <2>4 DEF GenInv, RowsInv
        <3> QED
            BY <1>1, <1>3, <2>4, <3>1 DEF GenInv, RowsInv
    <2> QED
        BY <1>2, <2>5 DEF GenInv
<1> QED
    BY <1>4, <1>5, <1>6, <1>7

LEMMA ReadRecentStep ==
    ASSUME GenInv, NEW c \in Callers, ReadRecent(c)
    PROVE  GenInv'
<1>1. UNCHANGED <<tables, memory, calls>>
    BY DEF ReadRecent
<1>2. CASE Answer(c)
    BY <1>1, <1>2, Refused
<1>3. CASE \E target, games : call' = [call EXCEPT ![c] = [pc |-> "insert", target |-> target,
                                                          games |-> games]]
    <2>1. PICK target, games : call' = [call EXCEPT ![c] = [pc |-> "insert", target |-> target,
                                                          games |-> games]]
        BY <1>3
    <2> DEFINE x == [pc |-> "insert", target |-> target, games |-> games]
    <2>2. CallOk(x) /\ x.pc = "insert"
        BY DEF CallOk
    <2>3. call' = [call EXCEPT ![c] = x]
        BY <2>1
    <2> HIDE DEF x
    <2> QED
        BY <1>1, <2>2, <2>3, AskOf, Reply
<1> QED
    BY <1>2, <1>3 DEF ReadRecent

LEMMA FindBatchStep ==
    ASSUME GenInv, NEW c \in Callers, FindBatch(c)
    PROVE  GenInv'
<1>1. call[c].pc = "find" /\ UNCHANGED <<tables, memory, calls>>
    BY DEF FindBatch
<1>2. CASE Answer(c)
    BY <1>1, <1>2, Refused
<1>3. CASE Goto(c, "hide")
    <2> DEFINE x == [call[c] EXCEPT !.pc = "hide"]
    <2>1. CallOk(x) /\ x.pc = "hide" /\ x.batch = call[c].batch
        BY <1>1 DEF GenInv, CallsInv, CallOk, Idle
    <2>2. call' = [call EXCEPT ![c] = x] /\ x.batch \in DOMAIN batches
        BY <1>1, <1>3, <2>1 DEF Goto, GenInv, RowsInv
    <2> HIDE DEF x
    <2> QED
        BY <1>1, <2>1, <2>2, AskOf, Reply
<1> QED
    BY <1>2, <1>3 DEF FindBatch

-----------------------------------------------------------------------------
(* The other steps                                                         *)

LEMMA PlanSettlesStep ==
    ASSUME GenInv, NEW key \in DOMAIN flights, NEW outcome, PlanSettles(key, outcome)
    PROVE  GenInv'
<1>1. /\ activePlans' = IF activePlans > 0 THEN activePlans - 1 ELSE 0
      /\ settledWorkers' = settledWorkers + 1
      /\ planCache' = IF outcome = "plan" THEN PutPlanCache(key, flights[key]) ELSE planCache
      /\ flights' = Restrict(flights, DOMAIN flights \ {key})
      /\ call' = [c \in Callers |->
                    IF ~WaitsFor(c, key) THEN call[c]
                    ELSE IF outcome = "plan"
                    THEN WithPlan(call[c].ask, call[c].snap, flights[key]) ELSE Idle]
      /\ UNCHANGED <<tables, calls>>
    BY DEF PlanSettles
<1>2. flights[key] = PlanFor(key) /\ Cached(key) = {}
    BY DEF GenInv, PlansInv
<1>3. /\ DOMAIN flights' = DOMAIN flights \ {key}
      /\ \A k \in DOMAIN flights' : flights'[k] = flights[k]
    BY <1>1 DEF Restrict
<1>4. ASSUME NEW c \in Callers
      PROVE  /\ CallOk(call'[c])
             /\ \/ call'[c] = call[c] /\ ~WaitsFor(c, key)
                \/ call'[c].pc \in {"idle", "generate"}
    <2>1. CASE ~WaitsFor(c, key)
        BY <1>1, <2>1 DEF GenInv, CallsInv
    <2>2. CASE WaitsFor(c, key)
        <3>1. /\ call[c].pc = "plan" /\ call[c].ask \in FullAsks /\ call[c].snap \in PastDraws
              /\ key = PlanKey(call[c].snap, call[c].ask.target, call[c].ask.config.selection)
            BY <2>2 DEF WaitsFor, GenInv, CallsInv, CallOk, Idle
        <3>2. call[c].ask.target \in Targets
            BY <3>1 DEF FullAsks
        <3>3. flights[key] = PlanOf(call[c].snap, call[c].ask.target, call[c].ask.config.selection)
            BY <1>2, <3>1, <3>2, KeyOfPlan
        <3>4. CallOk(Idle) /\ Idle.pc = "idle"
            BY DEF CallOk, Idle
        <3>5. \/ call'[c] = Idle
              \/ call'[c] = WithPlan(call[c].ask, call[c].snap, flights[key])
            BY <1>1, <2>2
        <3> QED
            BY <3>1, <3>3, <3>4, <3>5, WithPlanOk
    <2> QED
        BY <2>1, <2>2
<1>5. CallsInv'
    BY <1>1, <1>4 DEF GenInv, CallsInv
<1>6. RowsInv'
    <2>1. \A d \in Callers : call'[d].pc \in {"find", "hide"} => call'[d].batch \in DOMAIN batches
        BY <1>4 DEF GenInv, RowsInv
    <2> QED
        BY <1>1, <2>1, RowsStay DEF GenInv
<1>7. PlansInv'
    <2>1. /\ IsSeq(planCache') /\ Len(planCache') <= PlanCacheLimit
          /\ \A i \in DOMAIN planCache' :
                \/ planCache'[i] = [key |-> key, plan |-> flights[key]]
                \/ \E j \in DOMAIN planCache : planCache'[i] = planCache[j]
        <3>1. CASE outcome = "plan"
            BY <1>1, <1>2, <3>1, PutFacts DEF GenInv, PlansInv
        <3>2. CASE outcome # "plan"
            BY <1>1, <3>2 DEF GenInv, PlansInv
        <3> QED
            BY <3>1, <3>2
    <2>2. \A i \in DOMAIN planCache' : planCache'[i].plan = PlanFor(planCache'[i].key)
        BY <1>2, <2>1 DEF GenInv, PlansInv
    <2>3. \A k \in DOMAIN flights' : flights'[k] = PlanFor(k) /\ Cached(k)' = {}
        BY <1>3, <2>1 DEF GenInv, PlansInv, Cached
    <2>4. /\ IsFiniteSet(DOMAIN flights')
          /\ Cardinality(DOMAIN flights') = Cardinality(DOMAIN flights) - 1
        BY <1>3, FS_RemoveElement DEF GenInv, PlansInv
    <2>5. activePlans' = Cardinality(DOMAIN flights') /\ activePlans' <= MaxPlans
        <3>1. activePlans \in Nat /\ MaxPlans \in Nat /\ activePlans # 0
            BY GenerationAssumption, FS_CardinalityType, FS_EmptySet
            DEF GenInv, PlansInv, GenerationAssumption
        <3> QED
            BY <1>1, <2>4, <3>1 DEF GenInv, PlansInv
    <2>6. settledWorkers' \in Nat
        BY <1>1 DEF GenInv, PlansInv
    <2>7. \A d \in Callers : call'[d].pc = "plan" => call'[d].key \in DOMAIN flights'
        BY <1>3, <1>4 DEF GenInv, PlansInv, WaitsFor
    <2> QED
        BY <2>1, <2>2, <2>3, <2>4, <2>5, <2>6, <2>7 DEF PlansInv
<1> QED
    BY <1>5, <1>6, <1>7 DEF GenInv

LEMMA LateEventStep ==
    ASSUME GenInv, LateEvent
    PROVE  GenInv'
<1>1. CallsInv' /\ RowsInv'
    BY DEF GenInv, CallsInv, RowsInv, LateEvent, tables
<1>2. PlansInv'
    <2>1. settledWorkers' \in Nat
        BY DEF GenInv, PlansInv, LateEvent
    <2> QED
        BY <2>1 DEF GenInv, PlansInv, LateEvent, PlaceAfterSettled, Cached
<1> QED
    BY <1>1, <1>2 DEF GenInv

LEMMA HistoryChangesStep ==
    ASSUME GenInv, HistoryChanges
    PROVE  GenInv'
<1>1. CallsInv'
    BY DEF GenInv, CallsInv, HistoryChanges
<1>2. contests' \in PastDraws /\ Len(contests') <= MaxContest
    <2>1. contests \in Seq({0, 1}) /\ Len(contests) <= MaxContest /\ MaxContest \in Nat
        BY GenerationAssumption DEF GenInv, RowsInv, PastDraws, GenerationAssumption
    <2>2. CASE /\ LatestNumber(contests) < MaxContest
               /\ contests' = Append(contests, 0)
        BY <2>1, <2>2 DEF PastDraws, LatestNumber
    <2>3. ASSUME NEW n \in DOMAIN contests, contests' = [contests EXCEPT ![n] = 1]
          PROVE  contests' \in PastDraws /\ Len(contests') <= MaxContest
        BY <2>1, <2>3 DEF PastDraws
    <2> QED
        BY <2>2, <2>3 DEF HistoryChanges
<1>3. RowsInv'
    BY <1>2 DEF GenInv, RowsInv, HistoryChanges
<1>4. PlansInv'
    BY PlansStay DEF GenInv, PlansInv, HistoryChanges, memory
<1> QED
    BY <1>1, <1>3, <1>4 DEF GenInv

LEMMA PreviewExpiresStep ==
    ASSUME GenInv, PreviewExpires
    PROVE  GenInv'
<1>1. PICK s \in Seeds : previews[s] # None /\ previews' = [previews EXCEPT ![s].alive = FALSE]
    BY DEF PreviewExpires
<1>2. UNCHANGED <<contests, batches, memory, call, calls>>
    BY DEF PreviewExpires
<1>3. /\ DOMAIN previews' = Seeds
      /\ \A r \in Seeds : previews'[r] = None \/ PreviewOk(previews'[r])
    <2>1. PreviewOk([previews[s] EXCEPT !.alive = FALSE])
        <3> DEFINE row == previews[s]
        <3>1. PreviewOk(row)
            BY <1>1 DEF GenInv, RowsInv
        <3>2. [row EXCEPT !.alive = FALSE] =
                 [id |-> row.id, target |-> row.target, games |-> row.games, alive |-> FALSE]
            <4>1. row = [id |-> row.id, target |-> row.target, games |-> row.games,
                         alive |-> row.alive]
                BY <3>1 DEF PreviewOk
            <4>2. \A i, t, g, a, b :
                     [[id |-> i, target |-> t, games |-> g, alive |-> a] EXCEPT !.alive = b]
                        = [id |-> i, target |-> t, games |-> g, alive |-> b]
                OBVIOUS
            <4>3. \A b : [row EXCEPT !.alive = b] =
                     [id |-> row.id, target |-> row.target, games |-> row.games, alive |-> b]
                <5> HIDE DEF row
                <5> QED
                    BY <4>1, <4>2
            <4> HIDE DEF row
            <4> QED
                BY <4>3, Zenon
        <3>3. PreviewOk([id |-> row.id, target |-> row.target, games |-> row.games,
                         alive |-> FALSE])
            BY <3>1 DEF PreviewOk
        <3> HIDE DEF row
        <3> QED
            BY <3>2, <3>3 DEF row
    <2> QED
        BY <1>1, <2>1 DEF GenInv, RowsInv
<1>4. RowsInv'
    BY <1>2, <1>3 DEF GenInv, RowsInv
<1>5. CallsInv'
    BY <1>2 DEF GenInv, CallsInv
<1>6. PlansInv'
    BY <1>2, PlansStay DEF GenInv, PlansInv
<1> QED
    BY <1>4, <1>5, <1>6 DEF GenInv

LEMMA ProcessRestartsStep ==
    ASSUME GenInv, ProcessRestarts
    PROVE  GenInv'
<1>1. \A c \in Callers : call'[c] = Idle /\ CallOk(Idle) /\ Idle.pc = "idle"
    BY DEF ProcessRestarts, CallOk, Idle
<1>2. CallsInv'
    BY <1>1 DEF GenInv, CallsInv, ProcessRestarts
<1>3. RowsInv'
    BY <1>1, RowsStay DEF GenInv, ProcessRestarts
<1>4. PlansInv'
    <2>1. IsSeq(planCache') /\ DOMAIN planCache' = {} /\ Len(planCache') = 0
        BY DEF IsSeq, Range, ProcessRestarts
    <2>2. DOMAIN flights' = {} /\ IsFiniteSet(DOMAIN flights') /\ Cardinality(DOMAIN flights') = 0
        BY FS_EmptySet DEF ProcessRestarts
    <2> QED
        BY <1>1, <2>1, <2>2, GenerationAssumption
        DEF PlansInv, GenerationAssumption, ProcessRestarts
<1> QED
    BY <1>2, <1>3, <1>4 DEF GenInv

-----------------------------------------------------------------------------
(* The theorems                                                            *)

\* Each step of a request, of a worker, of a synchronization and of the process
\* keeps the invariant.
LEMMA GenStep == GenInv /\ [GenNext]_genVars => GenInv'
<1> SUFFICES ASSUME GenInv, [GenNext]_genVars PROVE GenInv'
    OBVIOUS
<1>1. CASE UNCHANGED genVars
    BY <1>1 DEF genVars, GenInv, CallsInv, RowsInv, PlansInv, Cached
<1>2. ASSUME NEW c \in Callers, Arrive(c)
      PROVE  GenInv'
    BY <1>2, ArriveStep
<1>3. ASSUME NEW c \in Callers, Serve(c)
      PROVE  GenInv'
    <2>1. CASE TooLittleHistory(c) \/ PlanRefused(c) \/ GenerationFails(c)
        BY <2>1, Refused DEF TooLittleHistory, PlanRefused, GenerationFails
    <2>2. CASE ReadHistoryToSave(c) \/ ReadRecent(c) \/ FindBatch(c) \/ FindPreview(c)
        BY <2>2, ReadHistoryToSaveStep, ReadRecentStep, FindBatchStep, FindPreviewStep
    <2>3. CASE PlanCached(c) \/ PlanJoined(c) \/ PlanStarted(c)
        BY <2>3, PlanCachedStep, PlanJoinedStep, PlanStartedStep
    <2>4. CASE PruneExpired(c) \/ StorePreview(c)
        BY <2>4, GenerateSteps
    <2>5. CASE SaveBatch(c) \/ InsertBatch(c) \/ HideBatch(c)
        BY <2>5, BatchSteps
    <2> QED
        BY <1>3, <2>1, <2>2, <2>3, <2>4, <2>5 DEF Serve
<1>4. ASSUME NEW c \in Callers, StatementFails(c)
      PROVE  GenInv'
    BY <1>4, Refused DEF StatementFails
<1>5. CASE WorkerSettles
    BY <1>5, PlanSettlesStep DEF WorkerSettles
<1>6. CASE LateEvent
    BY <1>6, LateEventStep
<1>7. CASE HistoryChanges
    BY <1>7, HistoryChangesStep
<1>8. CASE PreviewExpires
    BY <1>8, PreviewExpiresStep
<1>9. CASE ProcessRestarts
    BY <1>9, ProcessRestartsStep
<1> QED
    BY <1>1, <1>2, <1>3, <1>4, <1>5, <1>6, <1>7, <1>8, <1>9 DEF GenNext

\* GenInv holds in every state.
THEOREM GenInvHolds == GenSpec => []GenInv
BY InitInv, GenStep, PTL DEF GenSpec

LEMMA GenInvType == GenInv => GenTypeOK
<1> SUFFICES ASSUME GenInv PROVE GenTypeOK
    OBVIOUS
<1>1. \A c \in Callers : call[c].pc \in {"idle", "history", "plan", "generate", "store",
                         "preview", "save", "insert", "find", "hide"}
    BY DEF GenInv, CallsInv, CallOk, Idle
<1>2. activePlans \in 0..MaxPlans
    BY GenerationAssumption, FS_CardinalityType DEF GenInv, PlansInv, GenerationAssumption
<1>3. \A s \in Seeds : previews[s] = None \/ previews[s].alive \in BOOLEAN
    BY DEF GenInv, RowsInv, PreviewOk
<1>4. \A b \in DOMAIN batches : batches[b].hidden \in BOOLEAN
    BY DEF GenInv, RowsInv, BatchOk
<1>5. /\ Len(contests) <= MaxContest /\ Len(planCache) <= PlanCacheLimit
      /\ settledWorkers \in Nat /\ calls \in 0..MaxCalls
    BY DEF GenInv, CallsInv, RowsInv, PlansInv
<1> QED
    BY <1>1, <1>2, <1>3, <1>4, <1>5 DEF GenTypeOK

\* Rows, requests and counters of the generator have their types, the cache and
\* the planner stay within their limits.
THEOREM GenerationTypes == GenSpec => []GenTypeOK
BY GenInvHolds, GenInvType, PTL

\* Every request works with its own plan, the places of the planner are given
\* back exactly once, and a preview is saved once, as it was shown.
THEOREM GenerationIsSafe == GenSpec => []GenerationSafe
<1>1. GenInv => PlansAreTheirs
    BY DEF GenInv, CallsInv, CallOk, Idle, PlansAreTheirs
<1>2. GenInv => PlacesInBalance
    BY DEF GenInv, PlansInv, PlacesInBalance
<1>3. GenInv => SavedAsShown
    BY DEF GenInv, RowsInv, BatchOk, SavedAsShown
<1> QED
    BY <1>1, <1>2, <1>3, GenInvHolds, PTL DEF GenerationSafe

-----------------------------------------------------------------------------
(***************************************************************************)
(* Migrations.  The deploy that holds the lock is the only one between its *)
(* lock and its release; the ledger has the files that were applied and no *)
(* other, and what that deploy has looked up has its own text.             *)
(***************************************************************************)

\* The places at which a deploy holds the migration lock.
Holding == {"looking", "applying", "recording", "finishing", "failing", "crashed"}
DeployPlaces == Holding \cup {"down", "waiting", "refused", "migrated"}

DeployRecords == [at : DeployPlaces, release : Releases, next : 1 .. NumFiles + 1]
DeploysOK == deploys \in [Deploys -> DeployRecords]

\* One deploy holds the lock at a time: only it may be inside.
HolderOK == \A d \in Deploys : deploys[d].at \in Holding => lockHolder = d

\* The files are applied in order, and the ledger has exactly those.
LedgerOK ==
    /\ Len(effects) <= NumFiles
    /\ \A i \in 1 .. Len(effects) : effects[i] = i
    /\ \A f \in Files : ledger[f] # NotApplied <=> f <= Len(effects)

OwnText(d, f) == ledger[f] = TextIn(deploys[d].release, f)

\* What a deploy has looked up: the files before its next one have its text.  The
\* file of an open transaction is the first that is not applied.
Looked(d) ==
    /\ deploys[d].at \in {"looking", "applying", "recording"} =>
         /\ deploys[d].next <= deploys[d].release.files + 1
         /\ \A f \in Files : f < deploys[d].next => OwnText(d, f)
    /\ deploys[d].at \in {"applying", "recording"} =>
         /\ deploys[d].next = Len(effects) + 1
         /\ deploys[d].next <= deploys[d].release.files
    /\ deploys[d].at \in {"finishing", "migrated"} =>
         \A f \in Files : f <= deploys[d].release.files => OwnText(d, f)

MigrationsInv ==
    /\ MigrationsTypeOK /\ DeploysOK /\ HolderOK /\ LedgerOK
    /\ \A d \in Deploys : Looked(d)
LEMMA MigrationsStarts == MigrationsInit => MigrationsInv
<1> SUFFICES ASSUME MigrationsInit PROVE MigrationsInv
  OBVIOUS
<1> USE DeploysAssumption DEF DeploysAssumption
<1>1. PICK before \in 0 .. NumFiles, sum \in {"released", NoChecksum} :
        /\ effects = [i \in 1 .. before |-> i]
        /\ ledger = [f \in Files |-> IF f <= before THEN sum ELSE NotApplied]
  BY DEF MigrationsInit
<1>2. Len(effects) = before /\ effects \in Seq(Files) /\ \A i \in 1 .. before : effects[i] = i
  BY <1>1 DEF Files
<1>3. MigrationsTypeOK
  <2>1. ledger \in [Files -> Texts \cup {NotApplied, NoChecksum}]
    BY <1>1 DEF Texts, NoChecksum, NotApplied
  <2>2. lockHolder = "nobody" /\ deployFaults = 0
    BY DEF MigrationsInit
  <2> QED BY <1>2, <2>1, <2>2 DEF MigrationsTypeOK
<1>4. deploys \in [Deploys -> {[at |-> "down", release |-> r, next |-> 1] : r \in Releases}]
  BY DEF MigrationsInit
<1>5. ASSUME NEW d \in Deploys
      PROVE  deploys[d] \in DeployRecords /\ deploys[d].at = "down"
  <2>1. PICK r \in Releases : deploys[d] = [at |-> "down", release |-> r, next |-> 1]
    BY <1>4
  <2> QED BY <2>1 DEF DeployRecords, DeployPlaces
<1>6. DeploysOK
  BY <1>4, <1>5 DEF DeploysOK
<1>8. HolderOK /\ \A d \in Deploys : Looked(d)
  BY <1>5 DEF HolderOK, Looked, Holding
<1>7. LedgerOK
  <2>1. \A f \in Files : ledger[f] = IF f <= before THEN sum ELSE NotApplied
    BY <1>1
  <2>2. sum # NotApplied
    BY DEF NoChecksum, NotApplied
  <2>3. \A f \in Files : ledger[f] # NotApplied <=> f <= before
    BY <2>1, <2>2
  <2> QED BY <1>2, <2>3 DEF LedgerOK
<1> QED BY <1>3, <1>6, <1>7, <1>8 DEF MigrationsInv

\* What a process has looked up stays so when only missing texts are written down.
LEMMA OwnTextStays ==
  ASSUME MigrationsTypeOK, NEW d \in Deploys, NEW f \in Files, OwnText(d, f),
         deploys'[d].release = deploys[d].release,
         ledger[f] \in Texts => ledger'[f] = ledger[f]
  PROVE  OwnText(d, f)'
BY DEF OwnText, TextIn, Texts

LEMMA FilesOfARelease ==
  ASSUME NEW r \in Releases
  PROVE  r.files \in 1 .. NumFiles /\ \A f \in Files : TextIn(r, f) \in Texts
BY DEF Releases, Files, TextIn, Texts

\* A step of one deploy that leaves the ledger alone.
LEMMA PlaceStep ==
  ASSUME MigrationsInv, NEW d \in Deploys, NEW place \in DeployPlaces, NEW r \in Releases,
         NEW file \in 1 .. NumFiles + 1, deployFaults' \in 0 .. MaxDeployFaults,
         deploys' = [deploys EXCEPT ![d] = [at |-> place, release |-> r, next |-> file]],
         effects' = effects, ledger' = ledger,
         \/ place \in Holding /\ lockHolder' = d /\ lockHolder \in {d, "nobody"}
         \/ place \notin Holding /\ deploys[d].at \notin Holding /\ lockHolder' = lockHolder
         \/ place \notin Holding /\ deploys[d].at \in Holding /\ lockHolder' = "nobody",
         Looked(d)'
  PROVE  MigrationsInv'
<1> USE DeploysAssumption DEF DeploysAssumption
<1>1. MigrationsTypeOK /\ DeploysOK /\ HolderOK /\ LedgerOK /\ \A e \in Deploys : Looked(e)
  BY DEF MigrationsInv
<1>2. \A e \in Deploys : e # d => deploys'[e] = deploys[e]
  BY <1>1 DEF DeploysOK
<1>3. deploys'[d] = [at |-> place, release |-> r, next |-> file]
  BY <1>1 DEF DeploysOK
<1>4. MigrationsTypeOK'
  BY <1>1 DEF MigrationsTypeOK
<1>5. DeploysOK'
  <2>1. [at |-> place, release |-> r, next |-> file] \in DeployRecords
    BY DEF DeployRecords
  <2> HIDE DEF DeployRecords
  <2> QED BY <1>1, <2>1 DEF DeploysOK
<1>6. HolderOK'
  <2> SUFFICES ASSUME NEW e \in Deploys, deploys'[e].at \in Holding PROVE lockHolder' = e
    BY DEF HolderOK
  <2>1. CASE e = d
    BY <2>1, <1>3
  <2>2. CASE e # d
    BY <2>2, <1>1, <1>2 DEF HolderOK
  <2> QED BY <2>1, <2>2
<1>7. LedgerOK'
  BY <1>1 DEF LedgerOK
<1>8. ASSUME NEW e \in Deploys PROVE Looked(e)'
  <2>1. CASE e = d
    BY <2>1
  <2>2. CASE e # d
    <3>1. Looked(e) /\ deploys'[e] = deploys[e]
      BY <1>1, <1>2, <2>2
    <3> QED BY <3>1 DEF Looked, OwnText
  <2> QED BY <2>1, <2>2
<1> QED BY <1>4, <1>5, <1>6, <1>7, <1>8 DEF MigrationsInv

\* A step of the deploy that holds the lock and writes the row of its next file.
LEMMA TextStep ==
  ASSUME MigrationsInv, NEW d \in Deploys, deploys[d].at \in {"looking", "recording"},
         NEW place \in {"looking", "failing"}, NEW file \in 1 .. NumFiles + 1,
         NEW f \in Files, f = deploys[d].next, f <= deploys[d].release.files,
         file \in {f, f + 1},
         Moves(d, place, file), ledger' = [ledger EXCEPT ![f] = TextIn(deploys[d].release, f)],
         \/ ledger[f] = NoChecksum /\ effects' = effects
         \/ ledger[f] = NotApplied /\ f = Len(effects) + 1 /\ effects' = Append(effects, f),
         lockHolder' = lockHolder, deployFaults' \in 0 .. MaxDeployFaults
  PROVE  MigrationsInv'
<1> USE DeploysAssumption DEF DeploysAssumption
<1>1. MigrationsTypeOK /\ DeploysOK /\ HolderOK /\ LedgerOK /\ \A e \in Deploys : Looked(e)
  BY DEF MigrationsInv
<1> DEFINE r == deploys[d].release
<1>2. r \in Releases /\ lockHolder = d
  BY <1>1 DEF DeploysOK, DeployRecords, HolderOK, Holding
<1>3. \A e \in Deploys : e # d => deploys'[e] = deploys[e]
  BY <1>1 DEF DeploysOK, Moves
<1>4. deploys'[d] = [at |-> place, release |-> r, next |-> file]
  BY <1>1 DEF DeploysOK, Moves
<1>5. TextIn(r, f) \in Texts
  BY <1>2, FilesOfARelease
<1>6. \A g \in Files : ledger'[g] = IF g = f THEN TextIn(r, f) ELSE ledger[g]
  BY <1>1 DEF MigrationsTypeOK
<1>7. NotApplied \notin Texts /\ NoChecksum \notin Texts
  BY DEF NotApplied, NoChecksum, Texts
<1>8. MigrationsTypeOK'
  <2>1. effects' \in Seq(Files)
    <3>1. effects \in Seq(Files)
      BY <1>1 DEF MigrationsTypeOK
    <3>2. Append(effects, f) \in Seq(Files)
      BY <3>1
    <3> QED BY <3>1, <3>2
  <2>2. ledger' \in [Files -> Texts \cup {NotApplied, NoChecksum}]
    BY <1>1, <1>5 DEF MigrationsTypeOK
  <2> QED BY <2>1, <2>2, <1>1 DEF MigrationsTypeOK
<1>9. DeploysOK'
  <2>1. [at |-> place, release |-> r, next |-> file] \in DeployRecords
    BY <1>2 DEF DeployRecords, DeployPlaces, Holding
  <2> HIDE DEF DeployRecords
  <2> QED BY <1>1, <2>1 DEF DeploysOK, Moves
<1>10. HolderOK'
  <2> SUFFICES ASSUME NEW e \in Deploys, deploys'[e].at \in Holding PROVE lockHolder' = e
    BY DEF HolderOK
  <2>1. CASE e = d
    BY <2>1, <1>2
  <2>2. CASE e # d
    BY <2>2, <1>1, <1>3 DEF HolderOK
  <2> QED BY <2>1, <2>2
<1>11. LedgerOK'
  <2>1. CASE ledger[f] = NoChecksum /\ effects' = effects
    <3>1. \A g \in Files : ledger'[g] # NotApplied <=> ledger[g] # NotApplied
      BY <2>1, <1>5, <1>6, <1>7 DEF NoChecksum, NotApplied
    <3> QED BY <2>1, <3>1, <1>1 DEF LedgerOK
  <2>2. CASE ledger[f] = NotApplied /\ f = Len(effects) + 1 /\ effects' = Append(effects, f)
    <3>1. Len(effects') = f /\ \A i \in 1 .. f : effects'[i] = i
      BY <2>2, <1>1 DEF LedgerOK, MigrationsTypeOK, Files
    <3>2. \A g \in Files : ledger'[g] # NotApplied <=> g <= f
      BY <2>2, <1>1, <1>5, <1>6, <1>7 DEF LedgerOK, Files, MigrationsTypeOK
    <3> QED BY <3>1, <3>2 DEF LedgerOK, Files
  <2> QED BY <2>1, <2>2
<1>12. ASSUME NEW g \in Files, ledger[g] \in Texts PROVE ledger'[g] = ledger[g]
  BY <1>6, <1>7, <1>12
<1>13. ASSUME NEW e \in Deploys PROVE Looked(e)'
  <2>1. CASE e = d
    <3>1. \A g \in Files : g < deploys[d].next => OwnText(d, g)
      BY <1>1 DEF Looked
    <3>2. ASSUME NEW g \in Files, g < deploys[d].next PROVE OwnText(d, g)'
      BY <3>1, <3>2, <1>1, <1>4, <1>12, OwnTextStays
    <3>3. OwnText(d, f)'
      BY <1>4, <1>6 DEF OwnText
    <3>4. ASSUME NEW g \in Files, g < file PROVE OwnText(d, g)'
      BY <3>2, <3>3, <3>4 DEF Files
    <3> QED BY <2>1, <3>4, <1>4, <1>2, FilesOfARelease, SMTT(30) DEF Looked, Files
  <2>2. CASE e # d
    <3>1. Looked(e) /\ deploys'[e] = deploys[e] /\ deploys[e].at \notin Holding
      BY <1>1, <1>2, <1>3, <2>2 DEF HolderOK
    <3>2. ASSUME deploys[e].at = "migrated", NEW g \in Files, g <= deploys[e].release.files
          PROVE  OwnText(e, g)'
      <4>1. OwnText(e, g)
        BY <3>1, <3>2 DEF Looked
      <4> QED BY <4>1, <3>1, <1>1, <1>12, OwnTextStays
    <3> QED BY <3>1, <3>2 DEF Looked, Holding
  <2> QED BY <2>1, <2>2
<1> QED BY <1>8, <1>9, <1>10, <1>11, <1>13 DEF MigrationsInv

LEMMA MigrationsKeep == MigrationsInv /\ [MigrationsNext]_migrationVars => MigrationsInv'
<1> SUFFICES ASSUME MigrationsInv, [MigrationsNext]_migrationVars PROVE MigrationsInv'
  OBVIOUS
<1> USE DeploysAssumption DEF DeploysAssumption
<1>1. MigrationsTypeOK /\ DeploysOK /\ HolderOK /\ LedgerOK /\ \A e \in Deploys : Looked(e)
  BY DEF MigrationsInv
<1>2. CASE UNCHANGED migrationVars
  BY <1>2, <1>1 DEF migrationVars, MigrationsInv, MigrationsTypeOK, DeploysOK, HolderOK, LedgerOK,
     Looked, OwnText
<1>3. ASSUME NEW d \in Deploys,
             \/ StartDeploy(d) \/ AcquireMigrationLock(d) \/ LockWaitEnds(d) \/ LookUpFile(d)
             \/ RunSql(d) \/ CommitFile(d) \/ FileFails(d) \/ CommitUnanswered(d) \/ FilesEnd(d)
             \/ ReleaseMigrationLock(d) \/ DeployCrashes(d) \/ SessionIsDropped(d) \/ Redeploy(d)
      PROVE  MigrationsInv'
  <2> DEFINE r == deploys[d].release
             f == deploys[d].next
  <2>1. /\ deploys[d] \in DeployRecords /\ r \in Releases /\ f \in 1 .. NumFiles + 1
        /\ deploys[d].at \in DeployPlaces
    BY <1>1 DEF DeploysOK, DeployRecords
  <2>2. Looked(d) /\ deployFaults \in 0 .. MaxDeployFaults
    BY <1>1 DEF MigrationsTypeOK
  <2>3. r.files \in 1 .. NumFiles /\ \A g \in Files : TextIn(r, g) \in Texts
    BY <2>1, FilesOfARelease
  <2>4. ASSUME NEW place, NEW file, Moves(d, place, file)
        PROVE  deploys'[d].at = place /\ deploys'[d].release = r /\ deploys'[d].next = file
    BY <2>4, <1>1 DEF DeploysOK, Moves
  <2>5. \A place \in DeployPlaces : Goes(d, place) => Moves(d, place, f)
    BY DEF Goes
  <2>6. deploys[d].at \in Holding => lockHolder = d
    BY <1>1 DEF HolderOK
  <2> HIDE DEF r, f
  <2> USE DEF Holding, DeployPlaces
  <2>10. CASE StartDeploy(d)
    <3>1. Moves(d, "waiting", f)
      BY <2>10, <2>5 DEF StartDeploy
    <3>2. Looked(d)'
      BY <3>1, <2>4 DEF Looked
    <3> QED BY <2>10, <3>1, <3>2, <2>1, <2>2, PlaceStep DEF StartDeploy, Moves, r
  <2>11. CASE AcquireMigrationLock(d)
    <3>1. Moves(d, "looking", 1) /\ lockHolder' = d
      BY <2>11 DEF AcquireMigrationLock
    <3>2. Looked(d)'
      BY <3>1, <2>3, <2>4 DEF Looked, Files
    <3>3. UNCHANGED <<effects, ledger, deployFaults>> /\ lockHolder = "nobody"
      BY <2>11 DEF AcquireMigrationLock
    <3>4. 1 \in 1 .. NumFiles + 1 /\ "looking" \in Holding
      OBVIOUS
    <3>5. deploys' = [deploys EXCEPT ![d] = [at |-> "looking", release |-> r, next |-> 1]]
      BY <3>1 DEF Moves, r
    <3> QED BY <3>1, <3>2, <3>3, <3>4, <3>5, <2>1, <2>2, PlaceStep
  <2>12. CASE LockWaitEnds(d)
    <3>1. Moves(d, "refused", f)
      BY <2>12, <2>5 DEF LockWaitEnds
    <3>2. Looked(d)'
      BY <3>1, <2>4 DEF Looked
    <3> QED BY <2>12, <3>1, <3>2, <2>1, <2>2, PlaceStep DEF LockWaitEnds, Moves, r
  <2>13. CASE LookUpFile(d)
    <3>1. deploys[d].at = "looking" /\ f <= r.files /\ f \in Files
      BY <2>13, <2>1, <2>3 DEF LookUpFile, Files, f, r
    <3>2. UNCHANGED <<effects, lockHolder, deployFaults>>
      BY <2>13 DEF LookUpFile
    <3>3. f <= r.files + 1 /\ \A g \in Files : g < f => OwnText(d, g)
      BY <2>2, <3>1 DEF Looked, f, r
    <3>4. CASE ledger[f] = NotApplied
      <4>1. Moves(d, "applying", f) /\ ledger' = ledger
        BY <2>13, <3>4, <2>5 DEF LookUpFile, f
      <4>2. f = Len(effects) + 1
        <5>1. ~(f <= Len(effects))
          BY <3>4, <3>1, <1>1 DEF LedgerOK
        <5>2. \A g \in Files : g < f => g <= Len(effects)
          BY <3>3, <2>3, <1>1 DEF LedgerOK, OwnText, Texts, NotApplied, r
        <5> DEFINE n == Len(effects)
        <5>3. n \in Nat /\ f \in 1 .. NumFiles /\ NumFiles \in Nat
          BY <3>1, <1>1, DeploysAssumption DEF Files, MigrationsTypeOK, DeploysAssumption
        <5> HIDE DEF n
        <5>4. f > n /\ (n + 1 < f => n + 1 \in Files)
          BY <5>1, <5>3 DEF n, Files
        <5>5. ~(n + 1 < f)
          BY <5>2, <5>3, <5>4 DEF n
        <5> QED BY <5>3, <5>4, <5>5 DEF n
      <4>3. Looked(d)'
        BY <4>1, <4>2, <3>1, <3>2, <3>3, <2>4 DEF Looked, OwnText, r
      <4> QED BY <4>1, <4>3, <3>1, <3>2, <2>1, <2>2, <2>6, PlaceStep DEF Moves, r
    <3>5. CASE ledger[f] = NoChecksum
      <4>1. Moves(d, "looking", f + 1) /\ ledger' = [ledger EXCEPT ![f] = TextIn(r, f)]
        BY <2>13, <3>5 DEF LookUpFile, f, r, NoChecksum, NotApplied
      <4>2. f + 1 \in 1 .. NumFiles + 1
        BY <3>1 DEF Files
      <4> QED BY <4>1, <4>2, <3>1, <3>2, <3>5, <2>2, TextStep DEF f, r
    <3>6. CASE ledger[f] \notin {NotApplied, NoChecksum} /\ ledger[f] = TextIn(r, f)
      <4>1. Moves(d, "looking", f + 1) /\ ledger' = ledger
        BY <2>13, <3>6 DEF LookUpFile, f, r
      <4>2. \A g \in Files : g < f + 1 => OwnText(d, g)
        BY <3>3, <3>6, <3>1 DEF Files, OwnText, r
      <4>3. Looked(d)'
        <5>1. deploys'[d].at = "looking" /\ deploys'[d].next = f + 1 /\ deploys'[d].release = r
          BY <4>1, <2>4
        <5>2. f + 1 <= r.files + 1
          BY <3>1, <2>3 DEF Files
        <5>3. ASSUME NEW g \in Files, g < f + 1 PROVE OwnText(d, g)'
          BY <4>1, <4>2, <5>1, <5>3 DEF OwnText, r
        <5> QED BY <5>1, <5>2, <5>3 DEF Looked
      <4>4. f + 1 \in 1 .. NumFiles + 1
        BY <3>1 DEF Files
      <4>5. deploys' = [deploys EXCEPT ![d] = [at |-> "looking", release |-> r, next |-> f + 1]]
        BY <4>1 DEF Moves, r
      <4> QED BY <4>1, <4>3, <4>4, <4>5, <3>1, <3>2, <2>1, <2>2, <2>6, PlaceStep
    <3>7. CASE ledger[f] \notin {NotApplied, NoChecksum} /\ ledger[f] # TextIn(r, f)
      <4>1. Moves(d, "failing", f) /\ ledger' = ledger
        BY <2>13, <3>7, <2>5 DEF LookUpFile, f, r
      <4>2. Looked(d)'
        BY <4>1, <2>4 DEF Looked
      <4> QED BY <4>1, <4>2, <3>1, <3>2, <2>1, <2>2, <2>6, PlaceStep DEF Moves, r
    <3> QED BY <3>4, <3>5, <3>6, <3>7
  <2>14. CASE RunSql(d)
    <3>1. Moves(d, "recording", f) /\ deploys[d].at = "applying"
      BY <2>14, <2>5 DEF RunSql
    <3>2. UNCHANGED <<effects, ledger, lockHolder, deployFaults>>
      BY <2>14 DEF RunSql
    <3>3. Looked(d)'
      BY <3>1, <3>2, <2>2, <2>4 DEF Looked, OwnText, r, f
    <3> QED BY <3>1, <3>2, <3>3, <2>1, <2>2, <2>6, PlaceStep DEF Moves, r
  <2>15. CASE CommitFile(d) \/ CommitUnanswered(d)
    <3>1. deploys[d].at = "recording" /\ ledger[f] = NotApplied /\ lockHolder' = lockHolder
      BY <2>15 DEF CommitFile, CommitUnanswered, f
    <3>2. f = Len(effects) + 1 /\ f <= r.files /\ f \in Files
      BY <3>1, <2>1, <2>2, <2>3 DEF Looked, f, r, Files
    <3>3. ledger' = [ledger EXCEPT ![f] = TextIn(r, f)] /\ effects' = Append(effects, f)
      BY <2>15 DEF CommitFile, CommitUnanswered, Committed, f, r
    <3>4. deployFaults' \in 0 .. MaxDeployFaults
      BY <2>15, <2>2 DEF CommitFile, CommitUnanswered, Fault
    <3>5. Moves(d, "looking", f + 1) \/ Moves(d, "failing", f)
      BY <2>15, <2>5 DEF CommitFile, CommitUnanswered, f
    <3>6. f + 1 \in 1 .. NumFiles + 1 /\ f \in 1 .. NumFiles + 1
      BY <3>2 DEF Files
    <3>7. CASE Moves(d, "looking", f + 1)
      BY <3>1, <3>2, <3>3, <3>4, <3>6, <3>7, TextStep DEF f, r
    <3>8. CASE Moves(d, "failing", f)
      BY <3>1, <3>2, <3>3, <3>4, <3>6, <3>8, TextStep DEF f, r
    <3> QED BY <3>5, <3>7, <3>8
  <2>16. CASE FileFails(d)
    <3>1. Moves(d, "failing", f) /\ deploys[d].at \in Holding
      BY <2>16, <2>5 DEF FileFails
    <3>2. UNCHANGED <<effects, ledger, lockHolder>> /\ deployFaults' \in 0 .. MaxDeployFaults
      BY <2>16, <2>2 DEF FileFails, Fault
    <3>3. Looked(d)'
      BY <3>1, <2>4 DEF Looked
    <3> QED BY <3>1, <3>2, <3>3, <2>1, <2>6, PlaceStep DEF Moves, r
  <2>17. CASE FilesEnd(d)
    <3>1. Moves(d, "finishing", f) /\ deploys[d].at = "looking" /\ f > r.files
      BY <2>17, <2>5 DEF FilesEnd, f, r
    <3>2. UNCHANGED <<effects, ledger, lockHolder, deployFaults>>
      BY <2>17 DEF FilesEnd
    <3>3. \A g \in Files : g <= r.files => OwnText(d, g)
      BY <3>1, <2>1, <2>2, <2>3 DEF Looked, Files, r, f
    <3>4. Looked(d)'
      BY <3>1, <3>2, <3>3, <2>4 DEF Looked, OwnText, r
    <3> QED BY <3>1, <3>2, <3>4, <2>1, <2>2, <2>6, PlaceStep DEF Moves, r
  <2>18. CASE ReleaseMigrationLock(d)
    <3>1. UNCHANGED <<effects, ledger, deployFaults>> /\ lockHolder' = "nobody"
      BY <2>18 DEF ReleaseMigrationLock
    <3>2. CASE deploys[d].at = "finishing"
      <4>1. Moves(d, "migrated", f)
        BY <2>18, <3>2, <2>5 DEF ReleaseMigrationLock
      <4>2. Looked(d)'
        BY <4>1, <3>1, <3>2, <2>2, <2>4 DEF Looked, OwnText, r
      <4> QED BY <4>1, <4>2, <3>1, <3>2, <2>1, <2>2, PlaceStep DEF Moves, r
    <3>3. CASE deploys[d].at = "failing"
      <4>1. Moves(d, "refused", f)
        BY <2>18, <3>3, <2>5 DEF ReleaseMigrationLock
      <4>2. Looked(d)'
        BY <4>1, <2>4 DEF Looked
      <4> QED BY <4>1, <4>2, <3>1, <3>3, <2>1, <2>2, PlaceStep DEF Moves, r
    <3> QED BY <3>2, <3>3, <2>18 DEF ReleaseMigrationLock
  <2>19. CASE DeployCrashes(d)
    <3>1. UNCHANGED <<effects, ledger, lockHolder>> /\ deployFaults' \in 0 .. MaxDeployFaults
      BY <2>19, <2>2 DEF DeployCrashes, Fault
    <3>2. CASE lockHolder = d
      <4>1. Moves(d, "crashed", f)
        BY <2>19, <3>2, <2>5 DEF DeployCrashes
      <4>2. Looked(d)'
        BY <4>1, <2>4 DEF Looked
      <4> QED BY <4>1, <4>2, <3>1, <3>2, <2>1, PlaceStep DEF Moves, r
    <3>3. CASE lockHolder # d
      <4>1. Moves(d, "refused", f)
        BY <2>19, <3>3, <2>5 DEF DeployCrashes
      <4>2. Looked(d)'
        BY <4>1, <2>4 DEF Looked
      <4> QED BY <4>1, <4>2, <3>1, <3>3, <2>1, <2>6, PlaceStep DEF Moves, r
    <3> QED BY <3>2, <3>3
  <2>20. CASE SessionIsDropped(d)
    <3>1. Moves(d, "refused", f) /\ deploys[d].at = "crashed"
      BY <2>20, <2>5 DEF SessionIsDropped
    <3>2. UNCHANGED <<effects, ledger, deployFaults>> /\ lockHolder' = "nobody"
      BY <2>20 DEF SessionIsDropped
    <3>3. Looked(d)'
      BY <3>1, <2>4 DEF Looked
    <3> QED BY <3>1, <3>2, <3>3, <2>1, <2>2, PlaceStep DEF Moves, r
  <2>21. CASE Redeploy(d)
    <3>1. PICK q \in Releases :
            deploys' = [deploys EXCEPT ![d] = [at |-> "down", release |-> q, next |-> 1]]
      BY <2>21 DEF Redeploy
    <3>2. UNCHANGED <<effects, ledger, lockHolder, deployFaults>> /\ deploys[d].at \notin Holding
      BY <2>21 DEF Redeploy
    <3>3. Looked(d)'
      BY <3>1, <1>1 DEF Looked, DeploysOK
    <3>4. 1 \in 1 .. NumFiles + 1 /\ "down" \in DeployPlaces \ Holding
      OBVIOUS
    <3> QED BY <3>1, <3>2, <3>3, <3>4, <2>1, <2>2, PlaceStep
  <2> QED BY <1>3, <2>10, <2>11, <2>12, <2>13, <2>14, <2>15, <2>16, <2>17, <2>18, <2>19, <2>20, <2>21
<1> QED BY <1>2, <1>3 DEF MigrationsNext

LEMMA AppliedOnceFollows == MigrationsInv => AppliedOnce
<1> SUFFICES ASSUME MigrationsInv PROVE AppliedOnce
  OBVIOUS
<1>1. MigrationsTypeOK /\ DeploysOK /\ LedgerOK /\ \A d \in Deploys : Looked(d)
  BY DEF MigrationsInv
<1>2. DOMAIN effects = 1 .. Len(effects) /\ Len(effects) \in Nat
  BY <1>1 DEF MigrationsTypeOK
<1>3. \A i \in DOMAIN effects : effects[i] = i
  BY <1>1, <1>2 DEF LedgerOK
<1>4. \A f \in Files : ledger[f] # NotApplied <=> f \in DOMAIN effects
  BY <1>1, <1>2 DEF LedgerOK, Files
<1>5. ASSUME NEW d \in Deploys, deploys[d].at = "migrated",
             NEW f \in 1 .. deploys[d].release.files
      PROVE  ledger[f] = TextIn(deploys[d].release, f)
  <2>1. deploys[d].release \in Releases
    BY <1>1 DEF DeploysOK, DeployRecords
  <2>2. f \in Files /\ f <= deploys[d].release.files
    BY <2>1, FilesOfARelease, DeploysAssumption DEF Files, DeploysAssumption
  <2> QED BY <1>1, <1>5, <2>2 DEF Looked, OwnText
<1> QED BY <1>3, <1>4, <1>5 DEF AppliedOnce

\* runMigrations(): one process at a time holds the lock, applies the files in
\* order and compares or writes the checksum of each before the next.
THEOREM MigrationsInvHolds == MigrationsSpec => []MigrationsInv
BY MigrationsStarts, MigrationsKeep, PTL DEF MigrationsSpec

\* The tables and processes of runMigrations() keep their types.
THEOREM MigrationsTypes == MigrationsSpec => []MigrationsTypeOK
<1>1. MigrationsInv => MigrationsTypeOK
  BY DEF MigrationsInv
<1> QED BY <1>1, MigrationsInvHolds, PTL

\* Each file is applied exactly once and in order, it is recorded exactly when it
\* was applied, and a process that goes on runs on the files it knows
\* (runMigrations() of migrations.ts), for any number of processes, files and faults.
THEOREM FilesAreAppliedOnce == MigrationsSpec => []AppliedOnce
BY MigrationsInvHolds, AppliedOnceFollows, PTL

-----------------------------------------------------------------------------
(***************************************************************************)
(* Bootstrap.  What was stored before, what is left to fetch and what      *)
(* failed do not overlap; the other numbers are the ones that were         *)
(* fetched; and a contest that is not in the table is still to be fetched  *)
(* or has failed.                                                          *)
(***************************************************************************)

BootFields == {"at", "tries", "latest", "existing", "left", "tried", "got", "fetched",
               "failures", "total"}

\* Past listContestNumbers(): what is missing was decided.
Listed == {"saving latest", "fetching", "counting", "reported"}

\* What was there before, what is still to be fetched and what failed do not
\* overlap, but for the numbers of the open wave; fetched counts the others.
Apart(boot) ==
    /\ boot.left \subseteq 1 .. boot.latest
    /\ boot.existing \cap (boot.left \cup boot.failures) = {}
    /\ boot.fetched =
         Cardinality((1 .. boot.latest) \ (boot.existing \cup boot.left \cup boot.failures))

WaveOK(boot) ==
    /\ DOMAIN boot.tried \subseteq boot.left
    /\ boot.left \cap boot.failures \subseteq DOMAIN boot.tried
    /\ boot.got \subseteq DOMAIN boot.tried /\ boot.got \cap boot.failures = {}

\* The contests up to the latest one that a table does not have.
Holes(boot, stored) == (1 .. boot.latest) \ stored

\* One bootstrap, against the table and the last contest that is published.
BootOK(boot, stored, last) ==
    /\ DOMAIN boot = BootFields
    /\ boot.latest \in 0 .. last
    /\ boot.existing \cup boot.failures \cup boot.got \subseteq 1 .. boot.latest
    /\ boot.at \in {"idle", "discovering"} =>
         boot.failures = {} /\ boot.got = {} /\ boot.existing = {}
    /\ boot.at \in {"listing", "saving latest"} =>
         boot.latest >= 1 /\ boot.got = {} /\ boot.failures = {}
    /\ boot.at \in Listed => Apart(boot)
    /\ boot.at = "saving latest" =>
         boot.latest \notin boot.left /\ Holes(boot, stored) \subseteq boot.left \cup {boot.latest}
    /\ boot.at \in {"fetching", "counting", "reported"} =>
         Holes(boot, stored) \subseteq boot.left \cup boot.failures
    /\ boot.at = "fetching" => WaveOK(boot)
    /\ boot.at \in {"counting", "reported"} => boot.left = {}
    /\ boot.at = "reported" =>
         \E known \in SUBSET (1 .. boot.latest) :
           (1 .. boot.latest) \ known \subseteq boot.failures /\ boot.total = Cardinality(known)

BootInv ==
    /\ published \in 1 .. MaxPublished /\ storedNumbers \subseteq 1 .. published
    /\ breaks \in 0 .. MaxBreaks
    /\ DOMAIN boots = Bootstraps
    /\ \A b \in Bootstraps : BootOK(boots[b], storedNumbers, published)

LEMMA UpToIsFinite ==
  ASSUME NEW n \in Nat, NEW S, S \subseteq 1 .. n
  PROVE  IsFiniteSet(S) /\ Cardinality(S) \in Nat /\ Cardinality(1 .. n) = n
<1>1. IsFiniteSet(1 .. n) /\ Cardinality(1 .. n) = n
  BY FS_Interval
<1>2. IsFiniteSet(S)
  BY <1>1, FS_Subset
<1> QED BY <1>1, <1>2, FS_CardinalityType

LEMMA DisjointCount ==
  ASSUME NEW n \in Nat, NEW S, NEW T, S \subseteq 1 .. n, T \subseteq 1 .. n, S \cap T = {}
  PROVE  Cardinality(S \cup T) = Cardinality(S) + Cardinality(T)
<1>1. IsFiniteSet(S) /\ IsFiniteSet(T) /\ Cardinality(S) \in Nat /\ Cardinality(T) \in Nat
  BY UpToIsFinite
<1>2. Cardinality(S \cap T) = 0
  BY FS_EmptySet
<1> QED BY <1>1, <1>2, FS_Union

LEMMA UnionCount ==
  ASSUME NEW n \in Nat, NEW S, NEW T, S \subseteq 1 .. n, T \subseteq 1 .. n
  PROVE  Cardinality(S \cup T) <= Cardinality(S) + Cardinality(T)
<1>1. /\ IsFiniteSet(S) /\ IsFiniteSet(T) /\ Cardinality(S) \in Nat /\ Cardinality(T) \in Nat
      /\ Cardinality(S \cap T) \in Nat
  BY UpToIsFinite
<1>2. Cardinality(S \cup T) = Cardinality(S) + Cardinality(T) - Cardinality(S \cap T)
  BY <1>1, FS_Union
<1> DEFINE s == Cardinality(S)
           t == Cardinality(T)
           c == Cardinality(S \cap T)
<1>3. s \in Nat /\ t \in Nat /\ c \in Nat /\ Cardinality(S \cup T) = s + t - c
  BY <1>1, <1>2
<1> HIDE DEF s, t, c
<1>4. Cardinality(S \cup T) <= s + t
  BY <1>3
<1> QED BY <1>4 DEF s, t

\* The table only grows, and CAIXA only publishes.
LEMMA BootStaysOK ==
  ASSUME NEW boot, NEW stored, NEW more, NEW last \in Nat, NEW later \in Nat,
         stored \subseteq more, last <= later, BootOK(boot, stored, last)
  PROVE  BootOK(boot, more, later)
<1>1. Holes(boot, more) \subseteq Holes(boot, stored)
  BY DEF Holes
<1>2. boot.latest \in 0 .. later
  <2>1. boot.latest \in 0 .. last
    BY Zenon DEF BootOK
  <2> QED BY <2>1
<1>3. boot.at = "saving latest" => Holes(boot, more) \subseteq boot.left \cup {boot.latest}
  BY <1>1 DEF BootOK
<1>4. boot.at \in {"fetching", "counting", "reported"} =>
        Holes(boot, more) \subseteq boot.left \cup boot.failures
  BY <1>1 DEF BootOK
<1> QED BY <1>2, <1>3, <1>4 DEF BootOK

LEMMA OneBoot ==
  ASSUME BootInv, NEW b \in Bootstraps, NEW x, boots' = [boots EXCEPT ![b] = x],
         storedNumbers \subseteq storedNumbers', storedNumbers' \subseteq 1 .. published,
         published' = published, breaks' \in 0 .. MaxBreaks,
         BootOK(x, storedNumbers', published)
  PROVE  BootInv'
<1>1. published \in Nat
  BY OptionsAssumption DEF OptionsAssumption, BootInv
<1>2. ASSUME NEW c \in Bootstraps PROVE BootOK(boots'[c], storedNumbers', published')
  <2>1. CASE c = b
    BY <2>1 DEF BootInv
  <2>2. CASE c # b
    <3>1. boots'[c] = boots[c] /\ BootOK(boots[c], storedNumbers, published)
      BY <2>2 DEF BootInv
    <3>2. published' \in Nat /\ published <= published'
      BY <1>1
    <3>3. BootOK(boots[c], storedNumbers', published')
      BY <3>1, <3>2, <1>1, BootStaysOK
    <3> QED BY <3>1, <3>3
  <2> QED BY <2>1, <2>2
<1>3. DOMAIN boots' = Bootstraps
  BY DEF BootInv
<1> HIDE DEF BootOK
<1> QED BY <1>2, <1>3 DEF BootInv

LEMMA BootStarts == BootInit => BootInv
<1> SUFFICES ASSUME BootInit PROVE BootInv
  OBVIOUS
<1>1. published \in 1 .. MaxPublished /\ published \in Nat
  BY OptionsAssumption DEF OptionsAssumption, BootInit
<1>2. BootOK(NoBoot, storedNumbers, published)
  BY <1>1 DEF BootOK, NoBoot, BootFields, Listed
<1> QED BY <1>1, <1>2, OptionsAssumption DEF BootInit, BootInv, OptionsAssumption

LEMMA ChunkOfLeft == \A left : Chunk(left) \subseteq left /\ DOMAIN FirstTries(left) = Chunk(left)
BY DEF Chunk, FirstTries

\* The head of the loop, after the latest contest or a wave was stored.
LEMMA NextWaveOK ==
  ASSUME NEW boot, NEW stored, NEW last \in Nat,
         DOMAIN boot = BootFields, boot.latest \in 0 .. last,
         boot.existing \cup boot.failures \cup boot.got \subseteq 1 .. boot.latest,
         Apart(boot), boot.left \cap boot.failures = {},
         Holes(boot, stored) \subseteq boot.left \cup boot.failures
  PROVE  BootOK(NextWave(boot), stored, last)
<1> DEFINE x == NextWave(boot)
           tries == FirstTries(boot.left)
<1>1. CASE boot.left = {}
  <2>1. x = [boot EXCEPT !.at = "counting"]
    BY <1>1 DEF NextWave
  <2>2. /\ DOMAIN x = BootFields /\ x.at = "counting" /\ x.latest = boot.latest
        /\ x.existing = boot.existing /\ x.left = boot.left /\ x.got = boot.got
        /\ x.fetched = boot.fetched /\ x.failures = boot.failures
    BY <2>1 DEF BootFields
  <2> HIDE DEF x
  <2> QED BY <1>1, <2>2 DEF BootOK, Apart, Holes, x
<1>2. CASE boot.left # {}
  <2>1. x = [boot EXCEPT !.at = "fetching", !.got = {}, !.tried = tries]
    BY <1>2 DEF NextWave
  <2> HIDE DEF tries
  <2>2. /\ DOMAIN x = BootFields /\ x.at = "fetching" /\ x.latest = boot.latest
        /\ x.existing = boot.existing /\ x.left = boot.left /\ x.got = {} /\ x.tried = tries
        /\ x.fetched = boot.fetched /\ x.failures = boot.failures
    BY <2>1 DEF BootFields
  <2>3. DOMAIN tries \subseteq boot.left
    BY ChunkOfLeft DEF tries
  <2> HIDE DEF x
  <2> QED BY <2>2, <2>3 DEF BootOK, Apart, WaveOK, Holes, x
<1> QED BY <1>1, <1>2

LEMMA BreaksAreBounded == breaks \in 0 .. MaxBreaks /\ Breaks => breaks' \in 0 .. MaxBreaks
BY OptionsAssumption DEF Breaks, OptionsAssumption

LEMMA BootKeeps == BootInv /\ [BootNext]_bootVars => BootInv'
<1> SUFFICES ASSUME BootInv, [BootNext]_bootVars PROVE BootInv'
  OBVIOUS
<1>1. /\ published \in Nat /\ published \in 1 .. MaxPublished
      /\ storedNumbers \subseteq 1 .. published /\ breaks \in 0 .. MaxBreaks
  BY OptionsAssumption DEF OptionsAssumption, BootInv
<1>2. CASE UNCHANGED bootVars
  BY <1>2 DEF bootVars, BootInv
<1>3. CASE CaixaPublishes
  <2>1. published' = published + 1 /\ published < MaxPublished /\ UNCHANGED <<storedNumbers, boots, breaks>>
    BY <1>3 DEF CaixaPublishes
  <2>2. ASSUME NEW b \in Bootstraps PROVE BootOK(boots'[b], storedNumbers', published')
    <3>1. BootOK(boots[b], storedNumbers, published) /\ published <= published + 1 /\ published + 1 \in Nat
      BY <1>1 DEF BootInv
    <3>2. BootOK(boots[b], storedNumbers, published + 1)
      BY <1>1, <3>1, BootStaysOK
    <3> QED BY <2>1, <3>2
  <2> QED BY <1>1, <2>1, <2>2, OptionsAssumption DEF BootInv, OptionsAssumption
<1>4. ASSUME NEW b \in Bootstraps,
             \/ StartBootstrap(b) \/ DiscoverFails(b) \/ Discover(b) \/ ListExisting(b)
             \/ SaveLatest(b) \/ FetchOk(b) \/ FetchFails(b) \/ SaveWave(b) \/ StoreBreaks(b)
             \/ ReportBootstrap(b) \/ ForgetBootstrap(b)
      PROVE  BootInv'
  <2> DEFINE boot == boots[b]
  <2>1. BootOK(boot, storedNumbers, published)
    BY DEF BootInv
  <2>2. /\ DOMAIN boot = BootFields /\ boot.latest \in 0 .. published
        /\ boot.existing \cup boot.failures \cup boot.got \subseteq 1 .. boot.latest
    BY <2>1 DEF BootOK
  <2>3. DOMAIN boots = Bootstraps
    BY DEF BootInv
  <2>10. CASE StartBootstrap(b)
    <3> DEFINE x == [boot EXCEPT !.at = "discovering"]
    <3>1. /\ boots' = [boots EXCEPT ![b] = x] /\ boot.at = "idle"
          /\ UNCHANGED <<published, storedNumbers, breaks>>
      BY <2>10, <2>3 DEF StartBootstrap
    <3>2. /\ DOMAIN x = BootFields /\ x.at = "discovering" /\ x.latest = boot.latest
          /\ x.existing = boot.existing /\ x.failures = boot.failures /\ x.got = boot.got
      BY <2>2 DEF BootFields
    <3> HIDE DEF x
    <3>3. BootOK(x, storedNumbers', published)
      BY <3>1, <3>2, <2>1 DEF BootOK, Listed
    <3> QED BY <1>1, <3>1, <3>3, OneBoot
  <2>11. CASE DiscoverFails(b)
    <3> DEFINE again == [boot EXCEPT !.tries = boot.tries + 1]
               given == [boot EXCEPT !.at = "rejected"]
               x == IF boot.tries = FetchRetries THEN given ELSE again
    <3>1. boots' = [boots EXCEPT ![b] = x]
      BY <2>11, <2>3 DEF DiscoverFails
    <3>2. /\ boot.at = "discovering" /\ UNCHANGED <<published, storedNumbers>>
          /\ breaks' \in 0 .. MaxBreaks
      BY <1>1, <2>11, BreaksAreBounded DEF DiscoverFails
    <3>3. /\ DOMAIN x = BootFields /\ x.at \in {"rejected", "discovering"}
          /\ x.latest = boot.latest
          /\ x.existing = boot.existing /\ x.failures = boot.failures /\ x.got = boot.got
      <4>1. /\ DOMAIN given = BootFields /\ given.at = "rejected" /\ given.latest = boot.latest
            /\ given.existing = boot.existing /\ given.failures = boot.failures
            /\ given.got = boot.got
        BY <2>2 DEF BootFields
      <4>2. /\ DOMAIN again = BootFields /\ again.at = boot.at /\ again.latest = boot.latest
            /\ again.existing = boot.existing /\ again.failures = boot.failures
            /\ again.got = boot.got
        BY <2>2 DEF BootFields
      <4> HIDE DEF given, again
      <4> QED BY <3>2, <4>1, <4>2
    <3> HIDE DEF x
    <3>4. BootOK(x, storedNumbers', published)
      BY <3>2, <3>3, <2>1 DEF BootOK, Listed
    <3> QED BY <1>1, <3>1, <3>2, <3>4, OneBoot
  <2>12. CASE Discover(b)
    <3> DEFINE x == [boot EXCEPT !.at = "listing", !.latest = published]
    <3>1. /\ boots' = [boots EXCEPT ![b] = x] /\ boot.at = "discovering"
          /\ UNCHANGED <<published, storedNumbers, breaks>>
      BY <2>12, <2>3 DEF Discover
    <3>2. /\ DOMAIN x = BootFields /\ x.at = "listing" /\ x.latest = published
          /\ x.existing = boot.existing /\ x.failures = boot.failures /\ x.got = boot.got
      BY <2>2 DEF BootFields
    <3> HIDE DEF x
    <3>3. BootOK(x, storedNumbers', published)
      BY <1>1, <3>1, <3>2, <2>1 DEF BootOK, Listed
    <3> QED BY <1>1, <3>1, <3>3, OneBoot
  <2>13. CASE ListExisting(b)
    <3> DEFINE latest == boot.latest
               existing == storedNumbers \cap 1 .. latest
               missing == (1 .. latest) \ existing
               first == IF latest \in missing THEN 1 ELSE 0
               x == [boot EXCEPT !.at = "saving latest", !.existing = existing,
                                 !.fetched = first, !.left = missing \ {latest}]
    <3>1. /\ boots' = [boots EXCEPT ![b] = x] /\ boot.at = "listing"
          /\ UNCHANGED <<published, storedNumbers, breaks>>
      BY <2>13, <2>3 DEF ListExisting
    <3>2. /\ DOMAIN x = BootFields /\ x.at = "saving latest" /\ x.latest = latest
          /\ x.existing = existing /\ x.left = missing \ {latest} /\ x.fetched = first
          /\ x.failures = boot.failures /\ x.got = boot.got
      BY <2>2 DEF BootFields
    <3>3. latest \in Nat /\ latest >= 1 /\ boot.failures = {} /\ boot.got = {}
      BY <1>1, <2>1, <2>2, <3>1 DEF BootOK
    <3>4. first = Cardinality((1 .. latest) \ (existing \cup (missing \ {latest}) \cup {}))
      <4>1. CASE latest \in missing
        <5>1. (1 .. latest) \ (existing \cup (missing \ {latest}) \cup {}) = {latest}
          BY <4>1
        <5> QED BY <4>1, <5>1, FS_Singleton
      <4>2. CASE latest \notin missing
        <5>1. (1 .. latest) \ (existing \cup (missing \ {latest}) \cup {}) = {}
          BY <4>2
        <5> QED BY <4>2, <5>1, FS_EmptySet
      <4> QED BY <4>1, <4>2
    <3>5. Holes(x, storedNumbers) \subseteq (missing \ {latest}) \cup {latest}
      BY <3>2 DEF Holes
    <3>6. Apart(x)
      BY <3>2, <3>3, <3>4 DEF Apart
    <3> HIDE DEF x, first
    <3>7. BootOK(x, storedNumbers', published)
      BY <2>2, <3>1, <3>2, <3>3, <3>5, <3>6 DEF BootOK, Listed
    <3> QED BY <1>1, <3>1, <3>7, OneBoot
  <2>14. CASE SaveLatest(b)
    <3> DEFINE x == NextWave(boot)
    <3>1. /\ boots' = [boots EXCEPT ![b] = x] /\ boot.at = "saving latest"
          /\ storedNumbers' = storedNumbers \cup {boot.latest} /\ UNCHANGED <<published, breaks>>
      BY <2>14, <2>3 DEF SaveLatest
    <3>2. boot.latest >= 1 /\ boot.failures = {} /\ Apart(boot)
      BY <2>1, <3>1 DEF BootOK, Listed
    <3>3. Holes(boot, storedNumbers') \subseteq boot.left \cup boot.failures
      BY <2>1, <3>1 DEF BootOK, Holes
    <3>4. storedNumbers' \subseteq 1 .. published
      <4>1. boot.latest \in 1 .. published
        BY <1>1, <2>2, <3>2
      <4> QED BY <1>1, <3>1, <4>1
    <3>5. BootOK(x, storedNumbers', published)
      BY <1>1, <2>2, <3>2, <3>3, NextWaveOK
    <3> HIDE DEF x
    <3> QED BY <1>1, <3>1, <3>4, <3>5, OneBoot
  <2>15. CASE FetchOk(b)
    <3>1. PICK n \in DOMAIN boot.tried \ (boot.got \cup boot.failures) :
            boots' = [boots EXCEPT ![b] = [boot EXCEPT !.got = boot.got \cup {n}]]
      BY <2>15 DEF FetchOk
    <3> DEFINE x == [boot EXCEPT !.got = boot.got \cup {n}]
    <3>2. /\ boots' = [boots EXCEPT ![b] = x] /\ boot.at = "fetching"
          /\ UNCHANGED <<published, storedNumbers, breaks>>
      BY <2>15, <3>1 DEF FetchOk
    <3>3. /\ DOMAIN x = BootFields /\ x.at = boot.at /\ x.latest = boot.latest
          /\ x.existing = boot.existing /\ x.left = boot.left /\ x.got = boot.got \cup {n}
          /\ x.tried = boot.tried /\ x.fetched = boot.fetched /\ x.failures = boot.failures
      BY <2>2 DEF BootFields
    <3> HIDE DEF x
    <3>4. Apart(boot) /\ WaveOK(boot) /\ n \in 1 .. boot.latest
      BY <2>1, <3>1, <3>2 DEF BootOK, Listed, WaveOK, Apart
    <3>5. Apart(x) /\ WaveOK(x)
      BY <3>1, <3>3, <3>4 DEF Apart, WaveOK
    <3>6. Holes(x, storedNumbers') = Holes(boot, storedNumbers)
      BY <3>2, <3>3 DEF Holes
    <3>7. BootOK(x, storedNumbers', published)
      BY <2>1, <2>2, <3>2, <3>3, <3>4, <3>5, <3>6 DEF BootOK
    <3> QED BY <1>1, <3>2, <3>7, OneBoot
  <2>16. CASE FetchFails(b)
    <3>1. PICK n \in DOMAIN boot.tried \ (boot.got \cup boot.failures) :
            boots' = [boots EXCEPT ![b] =
              IF boot.tried[n] = FetchRetries
              THEN [boot EXCEPT !.failures = boot.failures \cup {n}]
              ELSE [boot EXCEPT !.tried = [boot.tried EXCEPT ![n] = boot.tried[n] + 1]]]
      BY <2>16 DEF FetchFails
    <3>2. /\ boot.at = "fetching" /\ UNCHANGED <<published, storedNumbers>>
          /\ breaks' \in 0 .. MaxBreaks
      BY <1>1, <2>16, BreaksAreBounded DEF FetchFails
    <3>3. Apart(boot) /\ WaveOK(boot) /\ n \in 1 .. boot.latest
      BY <2>1, <3>1, <3>2 DEF BootOK, Listed, WaveOK, Apart
    <3>4. CASE boot.tried[n] = FetchRetries
      <4> DEFINE x == [boot EXCEPT !.failures = boot.failures \cup {n}]
      <4>1. boots' = [boots EXCEPT ![b] = x]
        BY <3>1, <3>4
      <4>2. /\ DOMAIN x = BootFields /\ x.at = boot.at /\ x.latest = boot.latest
            /\ x.existing = boot.existing /\ x.left = boot.left /\ x.got = boot.got
            /\ x.tried = boot.tried /\ x.fetched = boot.fetched
            /\ x.failures = boot.failures \cup {n}
        BY <2>2 DEF BootFields
      <4> HIDE DEF x
      <4>3. n \in boot.left /\ n \notin boot.got
        BY <3>1, <3>3 DEF WaveOK
      <4>4. x.existing \cup x.left \cup x.failures = boot.existing \cup boot.left \cup boot.failures
        BY <4>2, <4>3
      <4>5. Apart(x) /\ WaveOK(x)
        BY <3>1, <3>3, <4>2, <4>3, <4>4, SMTT(30) DEF Apart, WaveOK
      <4>6. Holes(x, storedNumbers') = Holes(boot, storedNumbers)
        BY <3>2, <4>2 DEF Holes
      <4>7. BootOK(x, storedNumbers', published)
        BY <2>1, <2>2, <3>2, <3>3, <4>2, <4>5, <4>6 DEF BootOK
      <4> QED BY <1>1, <3>2, <4>1, <4>7, OneBoot
    <3>5. CASE boot.tried[n] # FetchRetries
      <4> DEFINE tries == [boot.tried EXCEPT ![n] = boot.tried[n] + 1]
                 x == [boot EXCEPT !.tried = tries]
      <4>1. boots' = [boots EXCEPT ![b] = x] /\ DOMAIN tries = DOMAIN boot.tried
        BY <3>1, <3>5
      <4> HIDE DEF tries
      <4>2. /\ DOMAIN x = BootFields /\ x.at = boot.at /\ x.latest = boot.latest
            /\ x.existing = boot.existing /\ x.left = boot.left /\ x.got = boot.got
            /\ x.tried = tries /\ x.fetched = boot.fetched /\ x.failures = boot.failures
        BY <2>2 DEF BootFields
      <4> HIDE DEF x
      <4>3. Apart(x) /\ WaveOK(x)
        BY <3>3, <4>1, <4>2 DEF Apart, WaveOK
      <4>4. Holes(x, storedNumbers') = Holes(boot, storedNumbers)
        BY <3>2, <4>2 DEF Holes
      <4>5. BootOK(x, storedNumbers', published)
        BY <2>1, <2>2, <3>2, <4>2, <4>3, <4>4 DEF BootOK
      <4> QED BY <1>1, <3>2, <4>1, <4>5, OneBoot
    <3> QED BY <3>4, <3>5
  <2>17. CASE SaveWave(b)
    <3> DEFINE wave == DOMAIN boot.tried
               left == boot.left \ wave
               fetched == boot.fetched + Cardinality(boot.got)
               y == [boot EXCEPT !.left = left, !.fetched = fetched]
               x == NextWave(y)
    <3>1. /\ boots' = [boots EXCEPT ![b] = x] /\ boot.at = "fetching"
          /\ wave \subseteq boot.got \cup boot.failures
          /\ storedNumbers' = storedNumbers \cup boot.got /\ UNCHANGED <<published, breaks>>
      BY <2>17 DEF SaveWave, WaveSettled
    <3>2. Apart(boot) /\ WaveOK(boot) /\ Holes(boot, storedNumbers) \subseteq boot.left \cup boot.failures
      BY <2>1, <3>1 DEF BootOK, Listed
    <3>3. /\ DOMAIN y = BootFields /\ y.at = boot.at /\ y.latest = boot.latest
          /\ y.existing = boot.existing /\ y.left = left /\ y.got = boot.got
          /\ y.fetched = fetched /\ y.failures = boot.failures
      BY <2>2 DEF BootFields
    <3> DEFINE before == (1 .. boot.latest) \ (boot.existing \cup boot.left \cup boot.failures)
               after == (1 .. boot.latest) \ (boot.existing \cup left \cup boot.failures)
    <3>4. after = before \cup boot.got /\ before \cap boot.got = {}
      BY <2>2, <3>1, <3>2 DEF Apart, WaveOK
    <3>5. fetched = Cardinality(after)
      <4>1. boot.latest \in Nat /\ before \subseteq 1 .. boot.latest /\ boot.got \subseteq 1 .. boot.latest
        BY <1>1, <2>2
      <4>2. Cardinality(before \cup boot.got) = Cardinality(before) + Cardinality(boot.got)
        BY <3>4, <4>1, DisjointCount
      <4> QED BY <3>2, <3>4, <4>2 DEF Apart
    <3> HIDE DEF y, fetched
    <3>6. Apart(y) /\ y.left \cap y.failures = {}
      BY <3>1, <3>2, <3>3, <3>5 DEF Apart, WaveOK
    <3>7. Holes(y, storedNumbers') \subseteq y.left \cup y.failures
      BY <3>1, <3>2, <3>3 DEF Holes, WaveOK
    <3>8. storedNumbers' \subseteq 1 .. published
      <4>1. boot.got \subseteq 1 .. boot.latest /\ boot.latest <= published
        BY <1>1, <2>2
      <4>2. 1 .. boot.latest \subseteq 1 .. published
        BY <1>1, <2>2
      <4> QED BY <1>1, <3>1, <4>1, <4>2
    <3>9. BootOK(x, storedNumbers', published)
      BY <1>1, <2>2, <3>3, <3>6, <3>7, NextWaveOK
    <3> HIDE DEF x
    <3> QED BY <1>1, <3>1, <3>8, <3>9, OneBoot
  <2>18. CASE StoreBreaks(b)
    <3> DEFINE x == [boot EXCEPT !.at = "rejected"]
    <3>1. /\ boots' = [boots EXCEPT ![b] = x] /\ UNCHANGED <<published, storedNumbers>>
          /\ breaks' \in 0 .. MaxBreaks
      BY <1>1, <2>18, BreaksAreBounded DEF StoreBreaks
    <3>2. /\ DOMAIN x = BootFields /\ x.at = "rejected" /\ x.latest = boot.latest
          /\ x.existing = boot.existing /\ x.failures = boot.failures /\ x.got = boot.got
      BY <2>2 DEF BootFields
    <3> HIDE DEF x
    <3>3. BootOK(x, storedNumbers', published)
      BY <2>2, <3>2 DEF BootOK, Listed
    <3> QED BY <1>1, <3>1, <3>3, OneBoot
  <2>19. CASE ReportBootstrap(b)
    <3> DEFINE known == storedNumbers \cap 1 .. boot.latest
               total == Cardinality(known)
               x == [boot EXCEPT !.at = "reported", !.total = total]
    <3>1. /\ boots' = [boots EXCEPT ![b] = x] /\ boot.at = "counting"
          /\ UNCHANGED <<published, storedNumbers, breaks>>
      BY <2>19 DEF ReportBootstrap
    <3>2. /\ DOMAIN x = BootFields /\ x.at = "reported" /\ x.latest = boot.latest
          /\ x.existing = boot.existing /\ x.left = boot.left /\ x.got = boot.got
          /\ x.fetched = boot.fetched /\ x.failures = boot.failures /\ x.total = total
      BY <2>2 DEF BootFields
    <3> HIDE DEF x
    <3>3. /\ Apart(boot) /\ boot.left = {}
          /\ Holes(boot, storedNumbers) \subseteq boot.left \cup boot.failures
      BY <2>1, <3>1 DEF BootOK, Listed
    <3>4. (1 .. boot.latest) \ known \subseteq boot.failures /\ known \subseteq 1 .. boot.latest
      BY <3>3 DEF Holes
    <3> HIDE DEF known
    <3>5. Apart(x)
      BY <3>2, <3>3 DEF Apart
    <3>6. Holes(x, storedNumbers) = Holes(boot, storedNumbers)
      BY <3>2 DEF Holes
    <3>7. BootOK(x, storedNumbers', published)
      BY <2>2, <3>1, <3>2, <3>3, <3>4, <3>5, <3>6 DEF BootOK
    <3> QED BY <1>1, <3>1, <3>7, OneBoot
  <2>20. CASE ForgetBootstrap(b)
    <3>1. BootOK(NoBoot, storedNumbers', published)
      BY <1>1 DEF BootOK, NoBoot, BootFields, Listed
    <3> QED BY <1>1, <2>20, <3>1, OneBoot DEF ForgetBootstrap
  <2> QED BY <1>4, <2>10, <2>11, <2>12, <2>13, <2>14, <2>15, <2>16, <2>17, <2>18, <2>19, <2>20
<1> QED BY <1>2, <1>3, <1>4 DEF BootNext

\* What a report says, of a bootstrap that is done.
LEMMA ReportIsTrue ==
  ASSUME NEW boot, NEW stored, NEW last \in Nat, BootOK(boot, stored, last), boot.at = "reported"
  PROVE  /\ (1 .. boot.latest) \ stored \subseteq boot.failures
         /\ Cardinality(boot.existing) + boot.fetched + Cardinality(boot.failures) = boot.latest
         /\ boot.total + Cardinality(boot.failures) >= boot.latest
<1> DEFINE all == 1 .. boot.latest
           rest == all \ (boot.existing \cup boot.failures)
<1>1. /\ boot.latest \in Nat /\ boot.existing \subseteq all /\ boot.failures \subseteq all
      /\ boot.left = {} /\ Apart(boot) /\ Holes(boot, stored) \subseteq boot.failures
  BY DEF BootOK, Listed
<1>2. boot.existing \cap boot.failures = {} /\ boot.fetched = Cardinality(rest)
  <2>1. boot.existing \cup boot.left \cup boot.failures = boot.existing \cup boot.failures
    BY <1>1
  <2> QED BY <1>1, <2>1 DEF Apart
<1>3. Cardinality(all) = boot.latest
  BY <1>1, UpToIsFinite
<1>4. Cardinality(boot.existing) + Cardinality(rest) + Cardinality(boot.failures) = boot.latest
  <2>1. Cardinality(boot.existing \cup boot.failures) = Cardinality(boot.existing) + Cardinality(boot.failures)
    BY <1>1, <1>2, DisjointCount
  <2>2. Cardinality((boot.existing \cup boot.failures) \cup rest)
          = Cardinality(boot.existing \cup boot.failures) + Cardinality(rest)
    BY <1>1, DisjointCount
  <2>3. (boot.existing \cup boot.failures) \cup rest = all
    BY <1>1
  <2>4. Cardinality(boot.existing) \in Nat /\ Cardinality(rest) \in Nat /\ Cardinality(boot.failures) \in Nat
    BY <1>1, UpToIsFinite
  <2>5. Cardinality(all) = Cardinality(boot.existing \cup boot.failures) + Cardinality(rest)
    BY <2>2, <2>3
  <2> DEFINE known == Cardinality(boot.existing)
             failed == Cardinality(boot.failures)
             others == Cardinality(rest)
  <2>6. boot.latest = (known + failed) + others /\ known \in Nat /\ failed \in Nat /\ others \in Nat
    BY <1>3, <2>1, <2>4, <2>5
  <2> HIDE DEF known, failed, others
  <2>7. known + others + failed = boot.latest
    BY <2>6
  <2> QED BY <2>7 DEF known, failed, others
<1>5. boot.total + Cardinality(boot.failures) >= boot.latest
  <2>1. PICK known \in SUBSET all : all \ known \subseteq boot.failures /\ boot.total = Cardinality(known)
    BY DEF BootOK
  <2>2. known \cup boot.failures = all
    BY <1>1, <2>1
  <2>3. Cardinality(all) <= Cardinality(known) + Cardinality(boot.failures)
    BY <1>1, <2>1, <2>2, UnionCount
  <2>4. Cardinality(known) \in Nat /\ Cardinality(boot.failures) \in Nat
    BY <1>1, <2>1, UpToIsFinite
  <2> QED BY <1>1, <1>3, <2>1, <2>3, <2>4
<1> QED BY <1>1, <1>2, <1>4, <1>5 DEF Holes

\* bootstrapLotteryHistory(): every number up to the latest one is stored, left
\* to fetch or failed, and the count of what was fetched is exact.
THEOREM BootInvHolds == BootSpec => []BootInv
BY BootStarts, BootKeeps, PTL DEF BootSpec

\* The table and the calls of bootstrapLotteryHistory() keep their types.
THEOREM BootTypes == BootSpec => []BootTypeOK
<1>1. BootInv => BootTypeOK
  BY DEF BootInv, BootOK, BootTypeOK
<1> QED BY <1>1, BootInvHolds, PTL

\* The result of a bootstrap is true of the table it leaves: what is missing is
\* among its failures and its counts add up (bootstrap.ts), for any number of calls,
\* contests, retries and waves.
THEOREM ReportsAreTrue == BootSpec => []HolesAreReported
<1>1. BootInv => HolesAreReported
  <2> SUFFICES ASSUME BootInv, NEW b \in Bootstraps, boots[b].at = "reported"
      PROVE  LET boot == boots[b]
             IN  /\ (1 .. boot.latest) \ storedNumbers \subseteq boot.failures
                 /\ Cardinality(boot.existing) + boot.fetched + Cardinality(boot.failures) = boot.latest
                 /\ boot.total + Cardinality(boot.failures) >= boot.latest
    BY DEF HolesAreReported
  <2>1. BootOK(boots[b], storedNumbers, published) /\ published \in Nat
    BY OptionsAssumption DEF BootInv, OptionsAssumption
  <2> QED BY <2>1, ReportIsTrue
<1> QED BY <1>1, BootInvHolds, PTL
=============================================================================
