---------------------------- MODULE PrizeTables ----------------------------
(***************************************************************************)
(* The prize table of one stored contest and the prize of a checked game.  *)
(*                                                                         *)
(* The table is what upsertMany() (src/persistence/contestRepository.ts)   *)
(* keeps of the snapshots CAIXA publishes, which may be incomplete.  The   *)
(* tiers a game is paid from are decided twice, by resolvePrizeValue()     *)
(* (src/finance/prizes.ts), which adds their values up, and by             *)
(* evaluateGame() (src/checker/evaluate.ts), which names them to the user. *)
(*                                                                         *)
(* A table is a function from the tiers it holds to their values.  A tier  *)
(* described twice where the code wants exactly one counts as missing.     *)
(* A total is the set of its addends, <<tier, value>>; totalPrizeValue,    *)
(* which may be undefined, is a set of at most one total.                  *)
(***************************************************************************)
EXTENDS Naturals, FiniteSets

CONSTANTS
    Lotteries,    \* the lotteries the contest may belong to
    Values,       \* the values a tier may pay
    MaxMissing,   \* bound on the tiers a published table leaves out
    MonthIsLate   \* may a Dia de Sorte contest be stored without its month?

Supported == {"mega-sena", "lotofacil", "dia-de-sorte", "quina", "lotomania",
              "dupla-sena", "mais-milionaria", "timemania", "super-sete"}

ASSUME LotteriesAssumption == Lotteries \subseteq Supported
ASSUME ValuesAssumption == Values \subseteq Nat
ASSUME MissingAssumption == MaxMissing \in Nat
ASSUME MonthAssumption == MonthIsLate \in BOOLEAN

VARIABLES
    lottery,   \* of the contest
    table,     \* its rows of contest_prize_tiers
    month      \* is its month of luck known?  TRUE where there is none

vars == <<lottery, table, month>>

-----------------------------------------------------------------------------
(* Tiers                                                                   *)

Hits(n, draw) == <<"acertos", n, draw>>
Faixa(i)      == <<"faixa", i, 1>>
MonthTier     == <<"mes da sorte", 0, 1>>
TeamTier      == <<"time do coracao", 0, 1>>

HitTiers(counts) == {Hits(n, 1) : n \in counts}

\* A schedule that forgets the prize for no hit at all.
ScheduleWithoutZero(l) ==
    CASE l = "mega-sena"       -> HitTiers(4..6)
      [] l = "lotofacil"       -> HitTiers(11..15)
      [] l = "dia-de-sorte"    -> HitTiers(4..7) \cup {MonthTier}
      [] l = "quina"           -> HitTiers(2..5)
      [] l = "lotomania"       -> HitTiers(15..20)
      [] l = "dupla-sena"      -> {Hits(n, d) : n \in 3..6, d \in 1..2}
      [] l = "mais-milionaria" -> {Faixa(i) : i \in 1..10}
      [] l = "timemania"       -> HitTiers(3..7) \cup {TeamTier}
      [] l = "super-sete"      -> HitTiers(3..7)

\* The tiers hasCompletePrizeSchedule() asks for.
Schedule(l) ==
    CASE l = "mega-sena"       -> HitTiers(4..6)
      [] l = "lotofacil"       -> HitTiers(11..15)
      [] l = "dia-de-sorte"    -> HitTiers(4..7) \cup {MonthTier}
      [] l = "quina"           -> HitTiers(2..5)
      [] l = "lotomania"       -> HitTiers({0} \cup 15..20)
      [] l = "dupla-sena"      -> {Hits(n, d) : n \in 3..6, d \in 1..2}
      [] l = "mais-milionaria" -> {Faixa(i) : i \in 1..10}
      [] l = "timemania"       -> HitTiers(3..7) \cup {TeamTier}
      [] l = "super-sete"      -> HitTiers(3..7)

Complete(l, t) == Schedule(l) \subseteq DOMAIN t

-----------------------------------------------------------------------------
(* The contest store                                                       *)

\* The tables CAIXA may publish.  normalizePrizeTiers() makes an empty one the
\* undefined prizeTiers of a contest.
Snapshots(l) ==
    UNION {[tiers -> Values] : tiers \in
              {s \in SUBSET Schedule(l) :
                  \/ s = {}
                  \/ Cardinality(Schedule(l) \ s) <= MaxMissing}}

\* upsertMany() that trusts the last table it is given.
LatestTable(l, old, new) == IF DOMAIN new = {} THEN old ELSE new

\* upsertMany() that commits in the middle of its INSERTs.
CutTable(l, old, new) ==
    LET first == {CHOOSE tier \in DOMAIN new : TRUE}
    IN  IF DOMAIN new = {} THEN old ELSE [tier \in first |-> new[tier]]

\* upsertMany(): a complete table only gives way to a complete one.
StoredTable(l, old, new) ==
    IF \/ DOMAIN new = {}
       \/ ~Complete(l, new) /\ Complete(l, old)
    THEN old
    ELSE new

Months(l) == IF l = "dia-de-sorte" /\ MonthIsLate THEN BOOLEAN ELSE {TRUE}

Init ==
    /\ lottery \in Lotteries
    /\ table \in Snapshots(lottery)
    /\ month \in Months(lottery)

\* A sync stores another snapshot of the contest; COALESCE keeps a known month.
Upsert ==
    /\ \E new \in Snapshots(lottery) :
          table' = StoredTable(lottery, table, new)
    /\ \E known \in Months(lottery) : month' = (month \/ known)
    /\ UNCHANGED lottery

Spec == Init /\ [][Upsert]_vars

-----------------------------------------------------------------------------
(* The result of a game against the contest                                *)

\* hits and hits2 are the numbers matched in the two draws, clovers the trevos
\* and side whether the month of luck or the favorite team is the drawn one.
Results(l) ==
    [hits    : CASE l = "lotofacil"    -> 5..15
                 [] l = "lotomania"    -> 0..20
                 [] l = "quina"        -> 0..5
                 [] l \in {"dia-de-sorte", "timemania", "super-sete"} -> 0..7
                 [] OTHER              -> 0..6,
     hits2   : IF l = "dupla-sena" THEN 0..6 ELSE {0},
     clovers : IF l = "mais-milionaria" THEN 0..2 ELSE {0},
     side    : IF l \in {"dia-de-sorte", "timemania"} THEN BOOLEAN ELSE {FALSE}]

\* The tier of mais-milionaria for h numbers and c trevos, as the index of
\* resolvePrizeValue() picks it; 0 is undefined.
TierIndex(h, c) ==
    CASE h \in 4..6          -> 2 * (6 - h) + (IF c = 2 THEN 1 ELSE 2)
      [] h = 3 /\ c \in 1..2 -> 9 - c
      [] h = 2 /\ c \in 1..2 -> 11 - c
      [] OTHER               -> 0

\* numberPrizeExpected()
NumberPrizeExpected(l, h) ==
    \/ l \in {"mega-sena", "dia-de-sorte"} /\ h >= 4
    \/ l = "lotofacil" /\ h >= 11
    \/ l = "quina" /\ h >= 2
    \/ l = "lotomania" /\ (h = 0 \/ h \in 15..20)
    \/ l \in {"dupla-sena", "timemania", "super-sete"} /\ h >= 3

\* The tiers resolvePrizeValue() adds up for one draw.
PaidTiers(l, h, c, side, draw) ==
    (CASE l = "mais-milionaria" /\ TierIndex(h, c) # 0 -> {Faixa(TierIndex(h, c))}
       [] NumberPrizeExpected(l, h) -> {Hits(h, draw)}
       [] OTHER -> {})
    \cup (IF l = "dia-de-sorte" /\ side THEN {MonthTier} ELSE {})
    \cup (IF l = "timemania" /\ side THEN {TeamTier} ELSE {})

Unknown == {}

Addends(t, tiers) == {<<tier, t[tier]>> : tier \in tiers}

\* resolvePrizeValue() that counts a missing tier as zero.
ResolveMissingAsZero(t, tiers) == {Addends(t, tiers \cap DOMAIN t)}

\* resolvePrizeValue(): the total is known only when every tier is.
Resolve(t, tiers) ==
    IF tiers \subseteq DOMAIN t THEN {Addends(t, tiers)} ELSE Unknown

\* evaluateGame() sees no month of luck where the contest has none yet.
SeenSide(l, r) == r.side /\ (l = "dia-de-sorte" => month)

\* totalPrizeValue as evaluateGame() returns it: the combined value of the two
\* draws of dupla-sena, or what the spread of the first draw's prize left there.
TotalPrizeValue(l, t, r) ==
    LET first    == Resolve(t, PaidTiers(l, r.hits, r.clovers, SeenSide(l, r), 1))
        second   == IF l = "dupla-sena"
                    THEN Resolve(t, PaidTiers(l, r.hits2, 0, FALSE, 2))
                    ELSE {{}}
        combined == {a \cup b : a \in first, b \in second}
    IN  IF combined # Unknown THEN combined ELSE first

-----------------------------------------------------------------------------
(* The tiers evaluateGame() names to the user                              *)

\* prizeTierFor(): "sena" and its kin, or "<hits>-acertos".
PrizeTierFor(l, h, draw) ==
    IF \/ l = "mega-sena" /\ h \in 4..6
       \/ l = "lotofacil" /\ h \in 11..15
       \/ l = "dia-de-sorte" /\ h \in 4..7
       \/ l = "quina" /\ h \in 2..5
       \/ l = "lotomania" /\ h \in {0} \cup 15..20
       \/ l = "dupla-sena" /\ h \in 3..6
       \/ l \in {"timemania", "super-sete"} /\ h \in 3..7
    THEN {Hits(h, draw)} ELSE {}

\* maisMilionariaPrizeTier()
MaisMilionariaPrizeTier(h, c) ==
    CASE h = 6 -> {Faixa(IF c = 2 THEN 1 ELSE 2)}
      [] h = 5 -> {Faixa(IF c = 2 THEN 3 ELSE 4)}
      [] h = 4 -> {Faixa(IF c = 2 THEN 5 ELSE 6)}
      [] h = 3 /\ c = 2 -> {Faixa(7)}
      [] h = 3 /\ c = 1 -> {Faixa(8)}
      [] h = 2 /\ c = 2 -> {Faixa(9)}
      [] h = 2 /\ c = 1 -> {Faixa(10)}
      [] OTHER -> {}

\* prizeTier, secondDrawPrizeTier, secondaryPrizeTier and luckyMonthHit.
NamedTiers(l, r) ==
    (IF l = "mais-milionaria" THEN MaisMilionariaPrizeTier(r.hits, r.clovers)
                              ELSE PrizeTierFor(l, r.hits, 1))
    \cup (IF l = "dupla-sena" THEN PrizeTierFor(l, r.hits2, 2) ELSE {})
    \cup (IF l = "timemania" /\ r.side THEN {TeamTier} ELSE {})
    \cup (IF l = "dia-de-sorte" /\ r.side THEN {MonthTier} ELSE {})

-----------------------------------------------------------------------------
(* Properties                                                              *)

\* Types. The code behaviour: the stored rows of a contest are rows of one of the
\* payout tables its lottery has (upsertMany()).
TypeOK ==
    /\ lottery \in Lotteries
    /\ table \in Snapshots(lottery)
    /\ month \in BOOLEAN

\* Once the whole payout table of a contest is stored, no later snapshot takes
\* a tier of it away (upsertMany() and its SELECT of the existing rows).
NeverDowngraded ==
    [][Complete(lottery, table) => Complete(lottery, table')]_vars

\* A complete table leaves no game with an unknown prize: the tiers
\* hasCompletePrizeSchedule() counts are all that resolvePrizeValue() looks up,
\* so a bet on a complete contest is always settled financially.
CompleteIsEnough ==
    Complete(lottery, table) =>
        \A r \in Results(lottery) : TotalPrizeValue(lottery, table, r) # Unknown

\* Missing data is never zero: a total evaluateGame() reports is made of the
\* values of exactly the tiers it names to the user, all of them stored.
TotalIsOwed ==
    \A r \in Results(lottery) :
        \A total \in TotalPrizeValue(lottery, table, r) :
            /\ NamedTiers(lottery, r) \subseteq DOMAIN table
            /\ total = Addends(table, NamedTiers(lottery, r))

\* What a bet is settled with: known as soon as the table is whole, and whatever
\* the table, nothing but what the tiers of the game owe.
SettlesWhatIsOwed == CompleteIsEnough /\ TotalIsOwed
=============================================================================
