----------------------------- MODULE Bootstrap -----------------------------
(***************************************************************************)
(* bootstrapLotteryHistory() of src/src/data/bootstrap.ts for one lottery: *)
(* the latest contest is discovered and stored, the numbers missing below  *)
(* it are fetched in waves, and what could not be fetched is reported.     *)
(* Several bootstraps (the command, the scheduler, a request) share the    *)
(* contests table while CAIXA publishes new contests.                      *)
(***************************************************************************)
EXTENDS Integers, FiniteSets

CONSTANTS
    Bootstraps,     \* calls of bootstrapLotteryHistory() that may overlap
    MaxPublished,   \* bound: the last contest CAIXA publishes
    Concurrency,    \* options.concurrency
    FetchRetries,   \* options.retries
    MaxBreaks       \* bound: requests and statements that fail

\* positiveInt(concurrency), and the check of retries.
ASSUME OptionsAssumption ==
    /\ Concurrency \in Nat \ {0} /\ FetchRetries \in Nat
    /\ MaxPublished \in Nat /\ MaxBreaks \in Nat

VARIABLES
    published,      \* the last contest CAIXA has published
    storedNumbers,  \* contest numbers in the contests table
    boots,          \* each call: where it is and its locals
    breaks          \* failures so far

bootVars == <<published, storedNumbers, boots, breaks>>

NoBoot == [at |-> "idle", tries |-> 0, latest |-> 0, existing |-> {}, left |-> {},
           tried |-> [n \in {} |-> 0], got |-> {}, fetched |-> 0, failures |-> {}, total |-> 0]

\* Any subset may have been stored by earlier commands and syncs.
BootInit ==
    /\ published \in 1 .. MaxPublished
    /\ storedNumbers \in SUBSET (1 .. published)
    /\ boots = [b \in Bootstraps |-> NoBoot]
    /\ breaks = 0

CaixaPublishes ==
    /\ published < MaxPublished
    /\ published' = published + 1
    /\ UNCHANGED <<storedNumbers, boots, breaks>>

Breaks == breaks < MaxBreaks /\ breaks' = breaks + 1

StartBootstrap(b) ==
    /\ boots[b].at = "idle"
    /\ boots' = [boots EXCEPT ![b] = [@ EXCEPT !.at = "discovering"]]
    /\ UNCHANGED <<published, storedNumbers, breaks>>

\* withRetry() around the discovery: the last failure rejects the bootstrap.
DiscoverFails(b) ==
    /\ boots[b].at = "discovering" /\ Breaks
    /\ boots' = [boots EXCEPT ![b] =
         IF boots[b].tries = FetchRetries THEN [boots[b] EXCEPT !.at = "rejected"]
         ELSE [boots[b] EXCEPT !.tries = boots[b].tries + 1]]
    /\ UNCHANGED <<published, storedNumbers>>

Discover(b) ==
    /\ boots[b].at = "discovering"
    /\ boots' = [boots EXCEPT ![b] = [@ EXCEPT !.at = "listing", !.latest = published]]
    /\ UNCHANGED <<published, storedNumbers, breaks>>

\* chunks(): of the numbers that are left, in ascending order, the first wave.
Chunk(left) == {n \in left : Cardinality({m \in left : m < n}) < Concurrency}

\* listContestNumbers(): what is missing is decided once, here.
ListExisting(b) ==
    /\ boots[b].at = "listing"
    /\ LET latest == boots[b].latest
           existing == storedNumbers \cap 1 .. latest
           missing == (1 .. latest) \ existing
       IN  boots' = [boots EXCEPT ![b] =
             [@ EXCEPT !.at = "saving latest", !.existing = existing,
                       !.fetched = IF latest \in missing THEN 1 ELSE 0,
                       !.left = missing \ {latest}]]
    /\ UNCHANGED <<published, storedNumbers, breaks>>

FirstTries(left) == [n \in Chunk(left) |-> 0]

\* A plausible slip (used by a mutant): the last, shorter wave is dropped.
NextFullWave(boot) ==
    IF Cardinality(boot.left) < Concurrency THEN [boot EXCEPT !.at = "counting"]
    ELSE [boot EXCEPT !.at = "fetching", !.got = {}, !.tried = FirstTries(boot.left)]

\* The head of the loop over the waves, with the first try of each number.
NextWave(boot) ==
    IF boot.left = {} THEN [boot EXCEPT !.at = "counting"]
    ELSE [boot EXCEPT !.at = "fetching", !.got = {}, !.tried = FirstTries(boot.left)]

\* The latest contest is written even when it was stored before.
SaveLatest(b) ==
    /\ boots[b].at = "saving latest"
    /\ storedNumbers' = storedNumbers \cup {boots[b].latest}
    /\ boots' = [boots EXCEPT ![b] = NextWave(@)]
    /\ UNCHANGED <<published, breaks>>

\* One number of the wave.  The requests of a wave are concurrent; each has its
\* own retries, and Promise.allSettled() waits for all of them.
FetchOk(b) ==
    /\ boots[b].at = "fetching"
    /\ \E n \in DOMAIN boots[b].tried \ (boots[b].got \cup boots[b].failures) :
         boots' = [boots EXCEPT ![b] = [boots[b] EXCEPT !.got = boots[b].got \cup {n}]]
    /\ UNCHANGED <<published, storedNumbers, breaks>>

FetchFails(b) ==
    /\ boots[b].at = "fetching" /\ Breaks
    /\ \E n \in DOMAIN boots[b].tried \ (boots[b].got \cup boots[b].failures) :
         LET boot == boots[b]
         IN  boots' = [boots EXCEPT ![b] =
               IF boot.tried[n] = FetchRetries
               THEN [boot EXCEPT !.failures = boot.failures \cup {n}]
               ELSE [boot EXCEPT !.tried = [boot.tried EXCEPT ![n] = boot.tried[n] + 1]]]
    /\ UNCHANGED <<published, storedNumbers>>

WaveSettled(b) ==
    /\ boots[b].at = "fetching"
    /\ DOMAIN boots[b].tried \subseteq boots[b].got \cup boots[b].failures

\* upsertMany(successful), when there is one, and the progress.
SaveWave(b) ==
    /\ WaveSettled(b)
    /\ storedNumbers' = storedNumbers \cup boots[b].got
    /\ LET boot == boots[b]
       IN  boots' = [boots EXCEPT ![b] =
             NextWave([boot EXCEPT !.left = boot.left \ DOMAIN boot.tried,
                                   !.fetched = boot.fetched + Cardinality(boot.got)])]
    /\ UNCHANGED <<published, breaks>>

\* A statement fails: upsertMany() rolls the whole wave back and rejects.
StoreBreaks(b) ==
    /\ \/ boots[b].at \in {"listing", "saving latest", "counting"}
       \/ WaveSettled(b) /\ boots[b].got # {}
    /\ Breaks
    /\ boots' = [boots EXCEPT ![b] = [@ EXCEPT !.at = "rejected"]]
    /\ UNCHANGED <<published, storedNumbers>>

\* The second listContestNumbers(), and the result.
ReportBootstrap(b) ==
    /\ boots[b].at = "counting"
    /\ boots' = [boots EXCEPT ![b] =
         [@ EXCEPT !.at = "reported",
                   !.total = Cardinality(storedNumbers \cap 1 .. boots[b].latest)]]
    /\ UNCHANGED <<published, storedNumbers, breaks>>

\* The process forgets the call; the caller may start another.
ForgetBootstrap(b) ==
    /\ boots[b].at \in {"reported", "rejected"}
    /\ boots' = [boots EXCEPT ![b] = NoBoot]
    /\ UNCHANGED <<published, storedNumbers, breaks>>

BootNext ==
    \/ CaixaPublishes
    \/ \E b \in Bootstraps :
         \/ StartBootstrap(b) \/ DiscoverFails(b) \/ Discover(b) \/ ListExisting(b)
         \/ SaveLatest(b) \/ FetchOk(b) \/ FetchFails(b) \/ SaveWave(b) \/ StoreBreaks(b)
         \/ ReportBootstrap(b) \/ ForgetBootstrap(b)

BootSpec == BootInit /\ [][BootNext]_bootVars

-----------------------------------------------------------------------------
BootTypeOK ==
    /\ published \in 1 .. MaxPublished
    /\ storedNumbers \subseteq 1 .. published
    /\ breaks \in 0 .. MaxBreaks
    /\ \A b \in Bootstraps :
         /\ boots[b].latest \in 0 .. published
         /\ boots[b].existing \cup boots[b].failures \cup boots[b].got \subseteq 1 .. boots[b].latest

\* The result of a bootstrap is true of the table it leaves (db:bootstrap exits
\* with success on it): every contest up to the latest one is stored or is among
\* the failures, and the counts add up even when another bootstrap, a failed
\* request or a new contest came in between.
HolesAreReported ==
    \A b \in Bootstraps : boots[b].at = "reported" =>
      LET boot == boots[b]
      IN  /\ (1 .. boot.latest) \ storedNumbers \subseteq boot.failures
          /\ Cardinality(boot.existing) + boot.fetched + Cardinality(boot.failures) = boot.latest
          /\ boot.total + Cardinality(boot.failures) >= boot.latest
=============================================================================
