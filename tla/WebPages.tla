------------------------------ MODULE WebPages ------------------------------
(***************************************************************************)
(* The pages of the web client that load what the selector asks for: jobs, *)
(* strategies, AI insights and their history, agenda, dashboard, analysis, *)
(* backtests, games and laboratory.  web/src/features/*.ts,                *)
(* web/src/core/featureLoader.ts, web/src/features/myGames/state.ts        *)
(*                                                                         *)
(* Each page is described by the tests it makes when an answer arrives and *)
(* by what a change of its selector does; a behaviour is one page with its *)
(* requests answered in any order.                                         *)
(***************************************************************************)
EXTENDS Naturals, FiniteSets

CONSTANTS
    Options,        \* values of the selector (lotteries; all/unread on the agenda)
    MaxLoads,       \* bound: loads begun
    MaxPicks,       \* bound: changes of the selector
    MaxSwitches,    \* bound: changes of view or of the visibility of the tab
    MaxLoadFaults   \* bound: requests that fail

ASSUME PagesAssumption == {MaxLoads, MaxPicks, MaxSwitches, MaxLoadFaults} \subseteq Nat

VARIABLES
    page,       \* the page of this behaviour
    picked,     \* value of the selector
    there,      \* the page is the current view, its tab visible
    token,      \* loadToken, renderToken, requestToken...
    due,        \* the view-rendered event that reloads the page is on its way
    loads,      \* loads in flight
    shown,      \* what the page shows
    pollTimer,  \* the 1.8 s timer of the jobs page is set
    working,    \* some job of the server is queued or running
    pageTally   \* loads, picks, switches and faults so far

pagesVars == <<page, picked, there, token, due, loads, shown, pollTimer, working, pageTally>>

-----------------------------------------------------------------------------
(* The pages.  tests/errorTests: what an answer, a failure, must pass;      *)
(* aborts: a new load aborts the one before; pick: what a new value of the  *)
(* selector does; leave: leaving the view gives its load up; single: one    *)
(* load at a time; keeps: the old content stays while a load runs; main: a  *)
(* view of the main page; falls: a request that fails counts as empty.      *)

Page(tests, errorTests, pick) ==
    [tests |-> tests, errorTests |-> errorTests, pick |-> pick, aborts |-> FALSE,
     leave |-> FALSE, single |-> FALSE, keeps |-> FALSE, main |-> FALSE, falls |-> FALSE]

JobsPage == Page({"token", "picked"}, {"token", "picked"}, "load")
StrategiesPage == Page({"token", "picked"}, {"token", "picked"}, "load")
HistoryPage == Page({"token", "picked"}, {"token", "picked"}, "load")
InsightPage == [Page({"token", "picked"}, {"token", "picked"}, "bump") EXCEPT !.single = TRUE]
AgendaPage == [Page({"token"}, {"token"}, "load") EXCEPT !.aborts = TRUE, !.keeps = TRUE]

\* Mutant: the laboratory shows whatever arrives.
LabPageUnchecked == [Page({}, {}, "clear") EXCEPT !.single = TRUE]

LabPage == [Page({"picked"}, {"picked"}, "clear") EXCEPT !.single = TRUE]
DashboardPage ==
    [Page({"token", "view", "picked"}, {}, "load")
        EXCEPT !.aborts = TRUE, !.leave = TRUE, !.keeps = TRUE, !.main = TRUE, !.falls = TRUE]
AnalysisPage == [Page({"token", "view", "picked"}, {"token", "view"}, "event")
                    EXCEPT !.keeps = TRUE, !.main = TRUE]
BacktestsPage == [Page({"token", "view", "picked"}, {"token", "view", "picked"}, "event")
                    EXCEPT !.aborts = TRUE, !.leave = TRUE, !.keeps = TRUE, !.main = TRUE]
GamesPage == [Page({"token", "view", "picked"}, {"token", "view"}, "bump")
                    EXCEPT !.main = TRUE]

Pages == [jobs |-> JobsPage, strategies |-> StrategiesPage, history |-> HistoryPage,
          insight |-> InsightPage, agenda |-> AgendaPage, lab |-> LabPage,
          dashboard |-> DashboardPage, analysis |-> AnalysisPage,
          backtests |-> BacktestsPage, games |-> GamesPage]

Me == Pages[page]
Nothing == [is |-> "nothing"]
Loading == [is |-> "loading"]
Failed == [is |-> "failed"]
Spend(k) == pageTally' = [pageTally EXCEPT ![k] = @ + 1]

PagesInit ==
    /\ page \in DOMAIN Pages
    /\ picked \in Options
    /\ there = TRUE /\ token = 0 /\ due = Me.main
    /\ loads = {} /\ shown = Nothing /\ pollTimer = FALSE /\ working \in BOOLEAN
    /\ pageTally = [loads |-> 0, picks |-> 0, switches |-> 0, faults |-> 0]

-----------------------------------------------------------------------------
(* Loads. *)

Begin(choice, keeps) ==
    /\ token' = token + 1
    /\ loads' = (IF Me.aborts THEN {} ELSE loads) \cup {[token |-> token + 1, of |-> choice]}
    /\ shown' = IF keeps THEN shown ELSE Loading

\* The first load, a refresh, a submit, the answer to a click that changed something.
Ask ==
    /\ there /\ pageTally.loads < MaxLoads
    /\ ~due
    /\ Me.single => loads = {}
    /\ Begin(picked, Me.keeps)
    /\ Spend("loads")
    /\ UNCHANGED <<page, picked, there, due, pollTimer, working>>

\* emitWhenRendered(): the features of the view are loaded, and its event comes;
\* without them the view shows an error.
ViewRendered ==
    /\ there /\ due
    /\ due' = FALSE
    /\ \/ Begin(picked, Me.keeps) /\ UNCHANGED pageTally
       \/ /\ pageTally.faults < MaxLoadFaults
          /\ shown' = Failed
          /\ Spend("faults")
          /\ UNCHANGED <<token, loads>>
    /\ UNCHANGED <<page, picked, there, pollTimer, working>>

Passes(l, tests) ==
    /\ "token" \in tests => l.token = token
    /\ "picked" \in tests => l.of = picked
    /\ "view" \in tests => there

Show(l) ==
    IF Passes(l, Me.tests)
    THEN /\ shown' = [is |-> "data", of |-> l.of, pending |-> working]
         /\ pollTimer' = IF page = "jobs" THEN working /\ there ELSE pollTimer
    ELSE UNCHANGED <<shown, pollTimer>>

LoadAnswers ==
    /\ \E l \in loads : loads' = loads \ {l} /\ Show(l)
    /\ UNCHANGED <<page, picked, there, token, due, working, pageTally>>

LoadFails ==
    /\ pageTally.faults < MaxLoadFaults
    /\ \E l \in loads :
          /\ loads' = loads \ {l}
          /\ IF Me.falls THEN Show(l)
             ELSE /\ shown' = IF Passes(l, Me.errorTests) THEN Failed ELSE shown
                  /\ UNCHANGED pollTimer
    /\ Spend("faults")
    /\ UNCHANGED <<page, picked, there, token, due, working>>

PollDue ==
    /\ pollTimer
    /\ pageTally.loads < MaxLoads
    /\ pollTimer' = FALSE
    /\ Begin(picked, TRUE)
    /\ Spend("loads")
    /\ UNCHANGED <<page, picked, there, due, working>>

-----------------------------------------------------------------------------
(* The selector and the view. *)

Pick ==
    /\ there /\ pageTally.picks < MaxPicks
    /\ \E c \in Options \ {picked} : picked' = c
    /\ CASE Me.pick = "load" -> Begin(picked', Me.keeps) /\ due' = Me.main
         [] Me.pick = "bump" -> /\ token' = token + 1
                                /\ loads' = IF Me.single THEN {} ELSE loads
                                /\ shown' = IF Me.main THEN shown ELSE Nothing
                                /\ due' = Me.main
         [] Me.pick = "clear" -> shown' = Nothing /\ UNCHANGED <<token, loads, due>>
         [] Me.pick = "event" -> due' = TRUE /\ UNCHANGED <<token, loads, shown>>
    /\ Spend("picks")
    /\ UNCHANGED <<page, there, pollTimer, working>>

\* Another view takes the content, or the tab is hidden.
Leave ==
    /\ there /\ pageTally.switches < MaxSwitches
    /\ there' = FALSE
    /\ IF Me.leave THEN token' = token + 1 /\ loads' = {} ELSE UNCHANGED <<token, loads>>
    /\ IF Me.main THEN shown' = Nothing /\ due' = FALSE ELSE UNCHANGED <<shown, due>>
    /\ pollTimer' = FALSE
    /\ Spend("switches")
    /\ UNCHANGED <<page, picked, working>>

Return ==
    /\ ~there
    /\ there' = TRUE
    /\ due' = Me.main
    /\ IF page = "jobs" THEN Begin(picked, TRUE) ELSE UNCHANGED <<token, loads, shown>>
    /\ UNCHANGED <<page, picked, pollTimer, working, pageTally>>

\* External: the worker finishes the jobs.
JobsEnd ==
    /\ working /\ working' = FALSE
    /\ UNCHANGED <<page, picked, there, token, due, loads, shown, pollTimer, pageTally>>

PagesNext ==
    \/ Ask \/ ViewRendered \/ LoadAnswers \/ LoadFails \/ PollDue
    \/ Pick \/ Leave \/ Return \/ JobsEnd

\* Requests are answered, timers fire and events are delivered; a user who left
\* may stay away.
PagesFairness ==
    /\ WF_pagesVars(LoadAnswers) /\ WF_pagesVars(ViewRendered) /\ WF_pagesVars(PollDue)
    /\ WF_pagesVars(JobsEnd)

PagesSpec == PagesInit /\ [][PagesNext]_pagesVars /\ PagesFairness

-----------------------------------------------------------------------------
PagesTypeOK ==
    /\ page \in DOMAIN Pages /\ picked \in Options
    /\ {there, due, pollTimer, working} \subseteq BOOLEAN
    /\ token \in Nat
    /\ \A l \in loads : l.of \in Options /\ l.token \in 1..token
    /\ shown.is \in {"nothing", "loading", "failed", "data"}

Current == \E l \in loads : l.token = token

\* What a page shows is what its selector asks for, or the load that replaces it
\* is under way: no late answer puts the data of one choice under another.
ShownFitsSelection ==
    shown.is = "data" => shown.of = picked \/ due \/ Current

\* The jobs page goes on asking while it shows work in progress: the timer of the
\* next poll is set or a load is in flight, through changes of lottery and of the
\* visibility of the tab.  A load that fails shows its error instead.
WorkIsFollowed ==
    page = "jobs" /\ there /\ shown.is = "data" /\ shown.pending => pollTimer \/ Current

\* Changes of selection, of page and of tab, in any order with the answers.
PagesSafe == ShownFitsSelection /\ WorkIsFollowed

\* A page that is loading ends with its data or with an error, unless the user leaves.
PagesShow == shown.is = "loading" ~> (shown.is # "loading" \/ ~there)
=============================================================================
