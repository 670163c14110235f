---------------------------- MODULE WebGenerator ----------------------------
(***************************************************************************)
(* The generator page of the web client: the form, the plan recomputed     *)
(* after each change, the preview of the games, and the watch over a       *)
(* synchronization.  web/src/features/generationV2.ts,                     *)
(* web/src/features/generationV2/state.ts, web/src/features/generatorPage.ts *)
(*                                                                         *)
(* A form is the lottery, what the plan depends on (target and the filter  *)
(* of repeated numbers) and `rest`, what only the preview depends on       *)
(* (number of games, clovers, team, columns, coverage).  Requests are      *)
(* answered in any order; aborting a controller takes its requests away.   *)
(***************************************************************************)
EXTENDS Naturals, FiniteSets

CONSTANTS
    WebLotteries,       \* lotteries of the selector
    Offered,            \* those that /lotteries enables for simulation
    FormTargets,        \* target contests of the form, 0 the next one
    MaxLatest,          \* bound: contests drawn
    MaxEdits,           \* bound: changes of the form
    MaxMounts,          \* bound: mounts of the form
    MaxSyncs,           \* bound: synchronizations asked here or elsewhere
    MaxWebFaults        \* bound: requests that fail

ASSUME WebAssumption ==
    /\ Offered \subseteq WebLotteries /\ Offered # {}
    /\ FormTargets \subseteq Nat /\ 0 \in FormTargets
    /\ {MaxEdits, MaxMounts, MaxSyncs, MaxWebFaults} \subseteq Nat /\ MaxLatest \in Nat \ {0}

VARIABLES
    selected,       \* lottery of the selector
    form,           \* the form on screen, or NoForm
    mounting,       \* a mount waits for its answers
    preview,        \* the form the games on screen were made for, or NoForm
    revision,       \* GeneratorState.revision
    planPending,
    planTimer,      \* the 220 ms timer is set
    generating,
    asked,          \* requests of the form that are in flight
    recentOf,       \* lottery of the contests on screen, "loading" or "failed"
    watch,          \* the synchronization as the page follows it
    server,         \* newest contest and the synchronization on the server
    webTally        \* edits, mounts, synchronizations and faults so far

formVars == <<form, mounting, preview, revision, planPending, planTimer, generating, asked>>
webVars == <<selected, formVars, recentOf, watch, server, webTally>>

NoForm == [lottery |-> "none"]
Forms(l) == [lottery : {l}, target : FormTargets, repeated : BOOLEAN, rest : 0..1]
FirstForm(l) == [lottery |-> l, target |-> 0, repeated |-> FALSE, rest |-> 0]

OnPage == ~watch.hidden
Count(k) == webTally' = [webTally EXCEPT ![k] = @ + 1]
MayFail == webTally.faults < MaxWebFaults

WebInit ==
    /\ selected \in WebLotteries
    /\ form = NoForm /\ mounting = TRUE /\ preview = NoForm
    /\ revision = 0 /\ planPending = FALSE /\ planTimer = FALSE /\ generating = FALSE
    /\ asked = {}
    /\ recentOf = "loading"
    /\ watch = [hidden |-> FALSE, syncing |-> FALSE, watching |-> FALSE, timer |-> FALSE,
                poll |-> TRUE, post |-> FALSE]
    /\ server = [latest |-> 1, run |-> "none"]
    /\ webTally = [edits |-> 0, mounts |-> 0, syncs |-> 0, faults |-> 0]

-----------------------------------------------------------------------------
(* Mounting the form. *)

\* A mount takes the previous form and its requests away.
Mount ==
    /\ form' = NoForm /\ preview' = NoForm /\ mounting' = TRUE
    /\ revision' = 0 /\ planPending' = FALSE /\ planTimer' = FALSE /\ generating' = FALSE
    /\ asked' = {}
    /\ Count("mounts")

LotteryConfig(l) ==
    IF l \in Offered THEN l
    ELSE IF "mega-sena" \in Offered THEN "mega-sena" ELSE CHOOSE o \in Offered : TRUE

\* The catalogue and the first plan arrive: the form is bound.  A lottery that
\* is not offered is replaced, and the page follows.
MountEnds ==
    /\ OnPage /\ mounting
    /\ mounting' = FALSE
    /\ form' = FirstForm(LotteryConfig(selected))
    /\ selected' = LotteryConfig(selected)
    /\ recentOf' = IF selected' = selected THEN recentOf ELSE "loading"
    /\ UNCHANGED <<preview, revision, planPending, planTimer, generating, asked, watch, server,
                   webTally>>

MountFails ==
    /\ OnPage /\ mounting /\ MayFail
    /\ mounting' = FALSE
    /\ Count("faults")
    /\ UNCHANGED <<selected, form, preview, revision, planPending, planTimer, generating, asked,
                   recentOf, watch, server>>

\* The retry button, and the hash that leaves #generate.
Remount ==
    /\ OnPage /\ webTally.mounts < MaxMounts
    /\ Mount
    /\ UNCHANGED <<selected, recentOf, watch, server>>

SelectLottery ==
    /\ OnPage /\ webTally.mounts < MaxMounts
    /\ \E l \in WebLotteries \ {selected} : selected' = l
    /\ Mount
    /\ recentOf' = "loading"
    /\ UNCHANGED <<watch, server>>

-----------------------------------------------------------------------------
(* The form. *)

ClearPreviewOnly ==
    /\ preview' = NoForm
    /\ UNCHANGED revision

ClearPreview ==
    /\ preview' = NoForm
    /\ revision' = revision + 1

PlanCall(f) == [kind |-> "plan", ask |-> f, revision |-> revision, since |-> server.latest]

\* ++planSequence: an earlier plan is dropped when it arrives, so it is
\* forgotten here.
DropPlans == {r \in asked : r.kind # "plan"}

SchedulePlan ==
    /\ ClearPreview
    /\ planPending' = TRUE
    /\ planTimer' = TRUE
    /\ asked' = DropPlans

\* Bet size, fixed and excluded numbers, target, filters.
EditPlanned ==
    /\ \E f \in Forms(form.lottery) :
          /\ f.rest = form.rest /\ f # form
          /\ form' = f
    /\ SchedulePlan
    /\ UNCHANGED generating

\* Number of games, clovers, team, columns, core size, coverage.
EditRest ==
    /\ form' = [form EXCEPT !.rest = 1 - @]
    /\ ClearPreview
    /\ UNCHANGED <<planPending, planTimer, generating, asked>>

\* The purpose may change anything else with it; its plan is asked for at once.
ChangePurpose ==
    /\ form' \in Forms(form.lottery) \ {form}
    /\ ClearPreview
    /\ planPending' = TRUE
    /\ planTimer' = FALSE
    /\ asked' = DropPlans \cup {PlanCall(form')}
    /\ UNCHANGED generating

Edit ==
    /\ OnPage /\ form # NoForm /\ webTally.edits < MaxEdits
    /\ EditPlanned \/ EditRest \/ ChangePurpose
    /\ Count("edits")
    /\ UNCHANGED <<selected, mounting, recentOf, watch, server>>

PlanTimerFires ==
    /\ OnPage /\ planTimer
    /\ planTimer' = FALSE
    /\ asked' = DropPlans \cup {PlanCall(form)}
    /\ UNCHANGED <<selected, form, mounting, preview, revision, planPending, generating, recentOf,
                   watch, server, webTally>>

\* dataQuality.previousContestAvailable, of a history read at `latest`.
PreviousAvailable(f, latest) == f.target = 0 \/ f.target <= latest + 1

\* A plan arrives.  Without the previous contest the filter of repeated numbers
\* is switched off and the plan asked for again, no longer pending.
PlanAnswers(r) ==
    /\ planPending' = FALSE
    /\ \E known \in r.since..server.latest :
          IF form.repeated /\ ~PreviousAvailable(r.ask, known)
          THEN /\ form' = [form EXCEPT !.repeated = FALSE]
               /\ asked' = (asked \ {r}) \cup {PlanCall(form')}
          ELSE /\ asked' = asked \ {r}
               /\ UNCHANGED form
    /\ UNCHANGED <<preview, revision, planTimer, generating, webTally>>

PlanFails(r) ==
    /\ MayFail
    /\ planPending' = FALSE
    /\ asked' = asked \ {r}
    /\ Count("faults")
    /\ UNCHANGED <<form, preview, revision, planTimer, generating>>

GeneratePreview ==
    /\ OnPage /\ form # NoForm /\ ~generating /\ ~planPending
    /\ form.lottery = selected
    /\ generating' = TRUE
    /\ asked' = asked \cup {[kind |-> "preview", ask |-> form, revision |-> revision, since |-> server.latest]}
    /\ UNCHANGED <<selected, form, mounting, preview, revision, planPending, planTimer, recentOf,
                   watch, server, webTally>>

\* The games arrive: they are dropped when the form has changed since.  The
\* server refuses the filter of repeated numbers without the previous contest.
PreviewAnswers(r) ==
    /\ r.ask.repeated => PreviousAvailable(r.ask, server.latest)
    /\ generating' = FALSE
    /\ preview' = IF r.revision = revision THEN r.ask ELSE preview
    /\ asked' = asked \ {r}
    /\ UNCHANGED <<form, revision, planPending, planTimer, webTally>>

PreviewFails(r) ==
    /\ \/ MayFail /\ Count("faults")
       \/ r.ask.repeated /\ ~PreviousAvailable(r.ask, r.since) /\ UNCHANGED webTally
    /\ generating' = FALSE
    /\ asked' = asked \ {r}
    /\ UNCHANGED <<form, preview, revision, planPending, planTimer>>

FormAnswered ==
    /\ OnPage
    /\ \E r \in asked :
          \/ r.kind = "plan" /\ (PlanAnswers(r) \/ PlanFails(r))
          \/ r.kind = "preview" /\ (PreviewAnswers(r) \/ PreviewFails(r))
    /\ UNCHANGED <<selected, mounting, recentOf, watch, server>>

-----------------------------------------------------------------------------
(* Recent contests and the watch over a synchronization. *)

RecentEnds ==
    /\ OnPage /\ recentOf = "loading"
    /\ \/ recentOf' = selected /\ UNCHANGED webTally
       \/ MayFail /\ recentOf' = "failed" /\ Count("faults")
    /\ UNCHANGED <<selected, formVars, watch, server>>

RetryRecent ==
    /\ OnPage /\ recentOf = "failed"
    /\ recentOf' = "loading"
    /\ UNCHANGED <<selected, formVars, watch, server, webTally>>

\* loto-lab:data-synced reaches a bound form: its plan is asked for again and
\* its preview stays.
RefreshOnSync ==
    IF form = NoForm THEN UNCHANGED formVars
    ELSE /\ planTimer' = FALSE
         /\ planPending' = TRUE
         /\ asked' = DropPlans \cup {PlanCall(form)}
         /\ UNCHANGED <<form, mounting, preview, revision, generating>>

SyncFinished(refresh) ==
    IF server.run # "failed" /\ refresh
    THEN recentOf' = "loading" /\ RefreshOnSync
    ELSE UNCHANGED <<recentOf, formVars>>

\* readSyncStatus() gets its answer.
PollAnswers ==
    /\ OnPage /\ watch.poll
    /\ \/ /\ server.run = "running"
          /\ watch' = [watch EXCEPT !.poll = FALSE, !.syncing = TRUE, !.watching = TRUE, !.timer = TRUE]
          /\ UNCHANGED <<recentOf, formVars>>
       \/ /\ server.run \in {"ended", "failed"}
          /\ watch' = [watch EXCEPT !.poll = FALSE, !.syncing = FALSE, !.watching = FALSE]
          /\ SyncFinished(watch.watching)
       \/ /\ server.run = "none"
          /\ watch' = [watch EXCEPT !.poll = FALSE, !.syncing = FALSE]
          /\ UNCHANGED <<recentOf, formVars>>
    /\ UNCHANGED <<selected, server, webTally>>

\* It fails: the button is enabled again and nobody polls any more.
PollFails ==
    /\ OnPage /\ watch.poll /\ MayFail
    /\ watch' = [watch EXCEPT !.poll = FALSE, !.syncing = FALSE]
    /\ Count("faults")
    /\ UNCHANGED <<selected, formVars, recentOf, server>>

PollAgain ==
    /\ OnPage /\ watch.timer
    /\ watch' = [watch EXCEPT !.timer = FALSE, !.poll = TRUE]
    /\ UNCHANGED <<selected, formVars, recentOf, server, webTally>>

\* A poll in flight is superseded, its timer cleared.
ClickSync ==
    /\ OnPage /\ ~watch.syncing /\ webTally.syncs < MaxSyncs
    /\ watch' = [watch EXCEPT !.poll = FALSE, !.timer = FALSE, !.syncing = TRUE, !.post = TRUE]
    /\ server' = [server EXCEPT !.run = "running"]
    /\ Count("syncs")
    /\ UNCHANGED <<selected, formVars, recentOf>>

\* POST /operations/sync is answered: 409 when the server already runs one,
\* otherwise its end.
PostAnswers ==
    /\ OnPage /\ watch.post
    /\ \/ /\ server.run = "running"
          /\ watch' = [watch EXCEPT !.post = FALSE, !.watching = TRUE, !.poll = TRUE]
          /\ UNCHANGED <<recentOf, formVars, webTally>>
       \/ /\ server.run # "running"
          /\ watch' = [watch EXCEPT !.post = FALSE, !.syncing = FALSE]
          /\ SyncFinished(TRUE)
          /\ UNCHANGED webTally
       \/ /\ MayFail
          /\ watch' = [watch EXCEPT !.post = FALSE, !.syncing = FALSE]
          /\ Count("faults")
          /\ UNCHANGED <<recentOf, formVars>>
    /\ UNCHANGED <<selected, server>>

\* The page goes to the back-forward cache and comes back.
PageHide ==
    /\ OnPage /\ webTally.mounts < MaxMounts
    /\ watch' = [watch EXCEPT !.hidden = TRUE, !.poll = FALSE, !.timer = FALSE]
    /\ Count("mounts")
    /\ UNCHANGED <<selected, formVars, recentOf, server>>

PageShow ==
    /\ watch.hidden
    /\ watch' = [watch EXCEPT !.hidden = FALSE, !.poll = TRUE]
    /\ recentOf' = "loading"
    /\ UNCHANGED <<selected, formVars, server, webTally>>

\* External: the scheduler or another browser synchronizes; a run ends.
ServerSyncs ==
    /\ \/ /\ server.run # "running" /\ webTally.syncs < MaxSyncs
          /\ server' = [server EXCEPT !.run = "running"]
          /\ Count("syncs")
       \/ /\ server.run = "running"
          /\ \E l \in server.latest..MaxLatest, o \in {"ended", "failed"} :
                server' = [latest |-> l, run |-> o]
          /\ UNCHANGED webTally
    /\ UNCHANGED <<selected, formVars, recentOf, watch>>

WebNext ==
    \/ MountEnds \/ MountFails \/ Remount \/ SelectLottery
    \/ Edit \/ PlanTimerFires \/ GeneratePreview \/ FormAnswered
    \/ RecentEnds \/ RetryRecent
    \/ PollAnswers \/ PollFails \/ PollAgain \/ ClickSync \/ PostAnswers
    \/ PageHide \/ PageShow \/ ServerSyncs

\* Timers fire, requests are answered, and a synchronization ends.
WebFairness ==
    /\ WF_webVars(MountEnds) /\ WF_webVars(PlanTimerFires) /\ WF_webVars(FormAnswered)
    /\ WF_webVars(RecentEnds)
    /\ WF_webVars(PollAnswers) /\ WF_webVars(PollAgain) /\ WF_webVars(PostAnswers)
    /\ WF_webVars(server.run = "running" /\ ServerSyncs)

WebSpec == WebInit /\ [][WebNext]_webVars /\ WebFairness

-----------------------------------------------------------------------------
AllForms == UNION {Forms(l) : l \in WebLotteries}

WebTypeOK ==
    /\ selected \in WebLotteries
    /\ {form, preview} \subseteq AllForms \cup {NoForm}
    /\ {mounting, planPending, planTimer, generating} \subseteq BOOLEAN
    /\ revision \in 0..MaxEdits
    /\ \A r \in asked : r.kind \in {"plan", "preview"} /\ r.ask \in AllForms
    /\ recentOf \in WebLotteries \cup {"loading", "failed"}
    /\ server.latest \in 1..MaxLatest /\ server.run \in {"none", "running", "ended", "failed"}

\* The form as refreshPlan() leaves it: as it was, or with the filter of repeated
\* numbers switched off because the plan had no previous contest.
LeftOf(asks) ==
    {asks} \cup IF asks.repeated THEN {[asks EXCEPT !.repeated = FALSE]} ELSE {}

\* The games on screen were made for the form on screen: clearPreview() and the
\* revision that generatePreview() compares drop every other answer.  What a plan
\* switches off by itself changes no revision, so that the games may have been made
\* with the filter of repeated numbers and stand under the form without it.
PreviewFitsForm == preview # NoForm => form \in LeftOf(preview)

\* "Calculando" ends and so does "Sincronizando": a plan that is superseded, a
\* plan that fails and a synchronization that another process runs all leave the
\* page usable while it is on screen.
PageSettles ==
    /\ planPending ~> (~planPending \/ watch.hidden)
    /\ watch.syncing ~> (~watch.syncing \/ watch.hidden)
=============================================================================
