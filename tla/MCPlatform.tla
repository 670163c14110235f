----------------------------- MODULE MCPlatform -----------------------------
(***************************************************************************)
(* The components around the application that share no state, on small     *)
(* instances and in one run: the notifications, the client of CAIXA, the   *)
(* HTTP server and the pages of the web client.  As in MCApplication the   *)
(* initial state picks the component that moves, the scene; the fairness   *)
(* is that of its own module.                                              *)
(***************************************************************************)
EXTENDS Notifications, CaixaClient, HttpServer, WebGenerator, WebPages

VARIABLE scene

PlatformVars == <<scene, noteVars, caixaVars, httpVars, webVars, pagesVars>>

\* The three calls of one limiter, two of them of one scope, a command with a limiter of
\* its own, a preflight, a method that is not offered, the operations page, a health page and a page.
MCAsks ==
    {<<"POST", "generation/preview">>, <<"POST", "generation/save">>,
     <<"POST", "games/generate">>, <<"POST", "backtests/run">>,
     <<"OPTIONS", "game-batches/:id/comparison">>, <<"POST", "game-batches/:id/comparison">>,
     <<"GET", "ops/metrics">>, <<"GET", "health/ready">>, <<"GET", "page">>}

-----------------------------------------------------------------------------
\* A component that starts in several states starts in one of them in the scenes of
\* the others.
PlatformInit ==
    /\ scene \in {"notes", "caixa", "server", "form", "pages"}
    /\ scene = "form" \/ selected = CHOOSE l \in WebLotteries : TRUE
    /\ scene = "pages" \/ (page = "jobs" /\ working = TRUE /\ picked = CHOOSE c \in Options : TRUE)
    /\ NotesInit /\ CaixaInit /\ HttpInit /\ WebInit /\ PagesInit

InNotes(Step) ==
    /\ scene = "notes" /\ Step
    /\ UNCHANGED <<scene, caixaVars, httpVars, webVars, pagesVars>>
InCaixa(Step) ==
    /\ scene = "caixa" /\ Step
    /\ UNCHANGED <<scene, noteVars, httpVars, webVars, pagesVars>>
InServer(Step) ==
    /\ scene = "server" /\ Step
    /\ UNCHANGED <<scene, noteVars, caixaVars, webVars, pagesVars>>
InForm(Step) ==
    /\ scene = "form" /\ Step
    /\ UNCHANGED <<scene, noteVars, caixaVars, httpVars, pagesVars>>
InPages(Step) ==
    /\ scene = "pages" /\ Step
    /\ UNCHANGED <<scene, noteVars, caixaVars, httpVars, webVars>>

PlatformNext ==
    \/ InNotes(NotesNext)
    \/ InCaixa(CaixaNext)
    \/ InServer(HttpNext)
    \/ InForm(WebNext)
    \/ InPages(PagesNext)

\* One scene moves in a behaviour, so that fairness to a choice between steps of
\* different scenes is fairness to each of them: the fairness of the five modules.
PlatformFairness ==
    /\ \A i \in 1..2 :
          /\ WF_PlatformVars(InNotes(Visit(i)) \/ InCaixa(Elapse(i)) \/ InServer(Served(i)))
          /\ WF_PlatformVars(InNotes(RefreshStep(i)) \/ InCaixa(TimerFires(i)))
    /\ WF_PlatformVars(InForm(MountEnds) \/ InPages(LoadAnswers))
    /\ WF_PlatformVars(InForm(PlanTimerFires) \/ InPages(ViewRendered))
    /\ WF_PlatformVars(InForm(FormAnswered) \/ InPages(PollDue))
    /\ WF_PlatformVars(InForm(RecentEnds) \/ InPages(JobsEnd))
    /\ WF_PlatformVars(InForm(PollAnswers))
    /\ WF_PlatformVars(InForm(PollAgain))
    /\ WF_PlatformVars(InForm(PostAnswers))
    /\ WF_PlatformVars(InForm(server.run = "running" /\ ServerSyncs))

PlatformSpec == PlatformInit /\ [][PlatformNext]_PlatformVars /\ PlatformFairness

-----------------------------------------------------------------------------
\* The component that moves keeps its types: the code behaviour is the shapes of
\* its state.
PlatformTypeOK ==
    /\ scene = "notes" => NotesTypeOK
    /\ scene = "caixa" => CaixaTypeOK
    /\ scene = "server" => HttpTypeOK
    /\ scene = "form" => WebTypeOK
    /\ scene = "pages" => PagesTypeOK

\* Notifications.tla: the notifications tell what is so in the end (agenda.ts,
\* notificationRepository.ts).
NewsReachUsers == scene = "notes" => NewsArrives

\* What was started ends, whatever fails and however late the answers are: a call
\* to CAIXA returns or throws (caixaHttpClient.ts), a request that the server let in
\* is answered (server.ts), the form stops calculating and synchronizing
\* (generatorPage.ts), a page stops loading (lab.ts, jobs.ts and the others).
PlatformSettles ==
    /\ scene = "caixa" => CallsSettle
    /\ scene = "server" => CallsAreAnswered
    /\ scene = "form" => PageSettles
    /\ scene = "pages" => PagesShow

=============================================================================
