------------------------------ MODULE DesktopUi ------------------------------
(***************************************************************************)
(* The desktop program that controls hbbs and hbbr on Windows (ui/src):    *)
(* the view (adapter/view/desktop.rs), the presenter                       *)
(* (usecase/presenter.rs), the watcher of the log directory                *)
(* (usecase/watcher.rs) and the service commands                           *)
(* (adapter/service/windows.rs).  View and presenter talk over two bounded *)
(* channels whose send blocks when the channel is full.                    *)
(*                                                                         *)
(* An event is a pair of its kind and its argument.  The view handles a    *)
(* menu or tray click inside run_iteration, on the thread that drains its  *)
(* own channel.  The web page and the watcher send from threads of their   *)
(* own: while such a thread waits for room, its event has not happened.    *)
(*                                                                         *)
(* Operators named Mut_... are never used: each is a plausible bug in the  *)
(* definition that follows, and shows that a property can fail.            *)
(***************************************************************************)
EXTENDS Integers, Sequences, SequencesExt

CONSTANTS
    BUFFER,         \* capacity of either channel (10)
    Files,          \* the log files and .env
    FirstFile,      \* "hbbs.out"
    AtStart,        \* the services that may run when the program starts
    MAX_CLICKS      \* bound: clicks and loads of the page

Services == {"hbbs", "hbbr"}

ASSUME ConstantsAssumption ==
    /\ BUFFER \in Nat \ {0, 1}
    /\ FirstFile \in Files /\ "exit" \notin Files
    /\ AtStart \subseteq {{}, Services} /\ MAX_CLICKS \in Nat

Commands == {"start", "stop", "restart"}        \* menu items that the state enables

\* An event is its kind and its argument.
Nothing == <<"", "">>

VARIABLES
    toPresenter, toView,            \* the channels
    file, service_state,            \* the presenter's: a log file, Started, Stopped or Unknown
    out,                            \* the event the presenter is sending
    received,                       \* events it received in this round; BUFFER while it sleeps
    screen,                         \* the view: drain, iterate, exited
    click,                          \* the event the view is sending
    taken,                          \* events it received in this round
    title, selected,                \* what the view shows
    running,                        \* the services that run
    scripts,                        \* what is left of each script of commands
    clicks,                         \* history: clicks and loads so far
    faulty                          \* history: see Command and ScriptStep

presenter == <<file, service_state, out, received>>
view == <<screen, click, taken, title, selected>>
services == <<running, scripts, faulty>>
vars == <<toPresenter, toView, presenter, view, services, clicks>>

\* setup has sent ViewInit, and the presenter is about to send its first state.
\* The services may run already; every menu item begins enabled.
Init ==
    /\ toPresenter = <<<<"ViewInit", "">>>> /\ toView = << >>
    /\ file = FirstFile /\ service_state = "Unknown"
    /\ out = <<"ViewRenderServiceState", "Unknown">> /\ received = 0
    /\ screen = "drain" /\ click = Nothing /\ taken = 0
    /\ title = "" /\ selected = ""
    /\ running \in AtStart /\ scripts = << >>
    /\ clicks = 0 /\ faulty = FALSE

-----------------------------------------------------------------------------
(* WindowsDesktopService *)

Mut_StopLeavesRelay == <<<<"hbbs", FALSE>>>>

\* A script as the services it stops (and removes) and starts, in order.
StopScript == <<<<"hbbr", FALSE>>, <<"hbbs", FALSE>>>>
StartScript == StopScript \o <<<<"hbbs", TRUE>>, <<"hbbr", TRUE>>>>

\* nssm restart, of one service and then the other, is waited for.  Either may
\* stay stopped, and a service that was stopped may start.
Restart ==
    /\ running' \in SUBSET Services
    /\ faulty' = (faulty \/ running' # running \/ scripts # << >>)
    /\ UNCHANGED scripts

\* call returns as soon as the script has begun.  What went wrong before does
\* not matter to a script that has the services to itself.
Begin(script) ==
    /\ scripts' = Append(scripts, script)
    /\ faulty' = (scripts # << >>)
    /\ UNCHANGED running

Command(id) ==
    CASE id = "start" -> Begin(StartScript)
      [] id = "stop" -> Begin(StopScript)
      [] OTHER -> Restart

\* One line of a script has its effect, or fails: the lines are joined by &,
\* and the script goes on.
ScriptStep ==
    \E i \in DOMAIN scripts :
        LET s == scripts[i] IN
        /\ \/ /\ running' = IF Head(s)[2] THEN running \cup {Head(s)[1]} ELSE running \ {Head(s)[1]}
              /\ UNCHANGED faulty
           \/ faulty' = TRUE /\ UNCHANGED running
        /\ scripts' = IF Len(s) = 1 THEN RemoveAt(scripts, i)
                                    ELSE [scripts EXCEPT ![i] = Tail(s)]
        /\ UNCHANGED <<toPresenter, toView, presenter, view, clicks>>

\* check: only hbbs is asked for.
Status == IF "hbbs" \in running THEN "Started" ELSE "Stopped"

-----------------------------------------------------------------------------
(* The presenter *)

Mut_DrainsAll == toPresenter # << >>

\* The presenter receives at most BUFFER - 1 events before it sleeps.
MayReceive == toPresenter # << >> /\ received < BUFFER - 1

Mut_ExitOnlyWithRoom(e) ==
    CASE e = <<"ViewAction", "exit">> /\ Len(toView) < BUFFER -> <<"ViewRenderAppExit", "">>
      [] e[1] = "BrowserInit" \/ e = <<"FileChange", file>> -> <<"BrowserUpdate", file>>
      [] e[1] = "ViewAction" /\ e[2] \in Files -> <<"BrowserUpdate", e[2]>>
      [] OTHER -> Nothing

\* What an event makes the presenter send.
Reply(e) ==
    CASE e = <<"ViewAction", "exit">> -> <<"ViewRenderAppExit", "">>
      [] e[1] = "BrowserInit" \/ e = <<"FileChange", file>> -> <<"BrowserUpdate", file>>
      [] e[1] = "ViewAction" /\ e[2] \in Files -> <<"BrowserUpdate", e[2]>>
      [] OTHER -> Nothing

PresenterReceive ==
    /\ screen # "exited" /\ out = Nothing /\ received < BUFFER
    /\ MayReceive
    /\ LET e == Head(toPresenter) IN
       /\ file' = IF e[1] = "ViewAction" /\ e[2] \in Files THEN e[2] ELSE file
       /\ out' = Reply(e)
       /\ IF e[1] \in {"ViewAction", "BrowserAction"} /\ e[2] \in Commands
          THEN Command(e[2]) ELSE UNCHANGED services
    /\ toPresenter' = Tail(toPresenter)
    /\ received' = IF received < BUFFER - 1 THEN received + 1 ELSE received
    /\ UNCHANGED <<toView, service_state, view, clicks>>

\* The send ends, once there is room.
PresenterSend ==
    /\ screen # "exited" /\ out # Nothing /\ Len(toView) < BUFFER
    /\ toView' = Append(toView, out)
    /\ out' = Nothing
    /\ UNCHANGED <<toPresenter, file, service_state, received, view, services, clicks>>

\* It goes to sleep,
PresenterSleep ==
    /\ screen # "exited" /\ out = Nothing /\ received < BUFFER
    /\ ~ MayReceive
    /\ received' = BUFFER
    /\ UNCHANGED <<toPresenter, toView, file, service_state, out, view, services, clicks>>

\* begins a new round,
PresenterWake ==
    /\ screen # "exited" /\ out = Nothing /\ received = BUFFER
    /\ received' = 0
    /\ UNCHANGED <<toPresenter, toView, file, service_state, out, view, services, clicks>>

Mut_CheckIfRoom ==
    /\ screen # "exited" /\ out = Nothing /\ received = BUFFER
    /\ received' = 0
    /\ service_state' = Status
    /\ out' = IF Status # service_state /\ Len(toView) < BUFFER
              THEN <<"ViewRenderServiceState", Status>> ELSE Nothing
    /\ UNCHANGED <<toPresenter, toView, file, view, services, clicks>>

\* and once a second looks at the service too.
PresenterCheck ==
    /\ screen # "exited" /\ out = Nothing /\ received = BUFFER
    /\ received' = 0
    /\ service_state' = Status
    /\ out' = IF Status # service_state THEN <<"ViewRenderServiceState", Status>> ELSE Nothing
    /\ UNCHANGED <<toPresenter, toView, file, view, services, clicks>>

-----------------------------------------------------------------------------
(* The view *)

\* The menu and tray items the title's state leaves enabled.
Enabled ==
    CASE title = "" -> Commands
      [] title = "Started" -> {"stop", "restart"}
      [] title = "Stopped" -> {"start"}
      [] OTHER -> {}

\* The view receives at most BUFFER - 1 events before it looks at the clock.
ViewReceive ==
    /\ screen = "drain" /\ toView # << >> /\ taken < BUFFER - 1
    /\ LET e == Head(toView) IN
       /\ selected' = IF e[1] = "BrowserUpdate" THEN e[2] ELSE selected
       /\ title' = IF e[1] = "ViewRenderServiceState" THEN e[2] ELSE title
       /\ screen' = IF e[1] = "ViewRenderAppExit" THEN "exited" ELSE "drain"
    /\ toView' = Tail(toView)
    /\ taken' = taken + 1
    /\ UNCHANGED <<toPresenter, presenter, click, services, clicks>>

\* Sixty times a second it runs an iteration of the event loop, else it sleeps.
ViewTurn(s) ==
    /\ screen = "drain" /\ (toView = << >> \/ taken = BUFFER - 1)
    /\ screen' = s
    /\ taken' = 0
    /\ UNCHANGED <<toPresenter, toView, presenter, click, title, selected,
                   services, clicks>>

\* A menu or tray item is clicked.
Click(id) ==
    /\ screen = "iterate" /\ click = Nothing /\ clicks < MAX_CLICKS
    /\ id \in Enabled \cup {"exit"} \cup Files
    /\ click' = <<"ViewAction", id>>
    /\ clicks' = clicks + 1
    /\ UNCHANGED <<toPresenter, toView, presenter, screen, taken, title, selected,
                   services>>

\* Its handler returns, once there is room.
ClickSend ==
    /\ click # Nothing /\ Len(toPresenter) < BUFFER
    /\ toPresenter' = Append(toPresenter, click)
    /\ click' = Nothing
    /\ UNCHANGED <<toView, presenter, screen, taken, title, selected, services,
                   clicks>>

IterationEnd ==
    /\ screen = "iterate" /\ click = Nothing
    /\ screen' = "drain"
    /\ UNCHANGED <<toPresenter, toView, presenter, click, taken, title, selected,
                   services, clicks>>

-----------------------------------------------------------------------------
(* The web page and the watcher *)

\* The page has loaded, or its restart button is pressed.
PageEvent(e) ==
    /\ screen # "exited" /\ Len(toPresenter) < BUFFER /\ clicks < MAX_CLICKS
    /\ toPresenter' = Append(toPresenter, e)
    /\ clicks' = clicks + 1
    /\ UNCHANGED <<toView, presenter, view, services>>

\* watch reports a change; changes while it starts again after an error are
\* not reported.
FileChange(f) ==
    /\ screen # "exited" /\ Len(toPresenter) < BUFFER
    /\ toPresenter' = Append(toPresenter, <<"FileChange", f>>)
    /\ UNCHANGED <<toView, presenter, view, services, clicks>>

Next ==
    \/ ScriptStep
    \/ PresenterReceive \/ PresenterSend \/ PresenterSleep \/ PresenterWake \/ PresenterCheck
    \/ ViewReceive \/ ClickSend \/ IterationEnd
    \/ \E s \in {"drain", "iterate"} : ViewTurn(s)
    \/ \E id \in Commands \cup {"exit"} \cup Files : Click(id)
    \/ \E e \in {<<"BrowserInit", "">>, <<"BrowserAction", "restart">>} : PageEvent(e)
    \/ \E f \in Files : FileChange(f)

\* Every thread that can run does, the presenter's clock goes on, and a sender
\* whose channel has room again and again is woken: crossbeam wakes the waiting
\* senders in turn.
PresenterSteps ==
    PresenterReceive \/ PresenterSend \/ PresenterSleep \/ PresenterWake \/ PresenterCheck
ViewSteps ==
    ViewReceive \/ ClickSend \/ IterationEnd \/ \E s \in {"drain", "iterate"} : ViewTurn(s)

Fairness ==
    /\ WF_vars(ScriptStep)
    /\ WF_vars(PresenterSteps) /\ SF_vars(PresenterCheck)
    /\ WF_vars(ViewSteps) /\ SF_vars(ClickSend)

Spec == Init /\ [][Next]_vars /\ Fairness

-----------------------------------------------------------------------------
\* The view waits for the presenter and the presenter for the view.
Stuck ==
    /\ screen = "iterate" /\ click # Nothing /\ Len(toPresenter) = BUFFER
    /\ out # Nothing /\ Len(toView) = BUFFER

\* The events on their way to the view, oldest first.
OnTheWay == IF out = Nothing THEN toView ELSE Append(toView, out)

\* The argument of the last event of a kind on its way, or what is shown.
Latest(kind, shown) ==
    LET i == SelectLastInSeq(OnTheWay, LAMBDA e : e[1] = kind)
    IN  IF i = 0 THEN shown ELSE OnTheWay[i][2]

(***************************************************************************)
(* What the view shows, and is about to show, is what the presenter holds: *)
(* the title, which also decides the menu items that can be clicked, and   *)
(* the selected log file.  No update is lost at a full channel.            *)
(***************************************************************************)
ViewFollows ==
    /\ Latest("ViewRenderServiceState", title) = service_state
    /\ Latest("BrowserUpdate", selected) \in {file, ""}

(***************************************************************************)
(* Exit GUI ends the program, unless view and presenter wait for each      *)
(* other: the view blocks in the handler of a click while the presenter,   *)
(* which has a full channel to work off, blocks in a send to the view.     *)
(***************************************************************************)
ExitWorks == <<"ViewAction", "exit">> \in {toPresenter[i] : i \in DOMAIN toPresenter}
                ~> screen = "exited" \/ Stuck

(***************************************************************************)
(* However many files change, the title keeps coming back to the state of  *)
(* hbbs: the presenter looks at the service between two rounds of events.  *)
(***************************************************************************)
StatusShown == []<>(title = Status \/ screen = "exited" \/ Stuck)

(***************************************************************************)
(* A start or stop whose script has the services to itself, and whose      *)
(* lines all have their effect, leaves hbbs and hbbr both running or both  *)
(* stopped, whatever failing lines, failing restarts and overlapping       *)
(* scripts left behind before it.  One service runs alone only after one   *)
(* of these.                                                               *)
(***************************************************************************)
RunTogether == scripts = << >> /\ ~ faulty => ("hbbs" \in running <=> "hbbr" \in running)
=============================================================================
