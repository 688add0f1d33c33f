---------------------------- MODULE DesktopShell ----------------------------
(***************************************************************************)
(* The main process of the desktop application from its start to its exit, *)
(* over restarts and crashes: desktop/main.cjs with core-source.cjs,       *)
(* port.cjs, backend-stop.cjs, browser-session.cjs and startup-window.cjs. *)
(* Four activities run in it, interleaved wherever the code awaits:        *)
(*                                                                         *)
(*   pc       start(): the Core action queued on disk, the environment,    *)
(*            the loop that finds a port, the window                       *)
(*   failing  handleCoreFailure(): stop the backend, then the dialog       *)
(*   mgr      coreController.showManager(), from the menu or that dialog   *)
(*   quit     the before-quit handler                                      *)
(*                                                                         *)
(* The setup that start() runs is only whether its window is open          *)
(* (CoreSetup), a recording only whether there is one (Capture).           *)
(***************************************************************************)
EXTENDS Naturals

CONSTANTS
  Build,         \* applications that may run, a subset of Builds
  GitAction,     \* the Core actions that select the Git source
  Port,          \* ports a backend can bind
  None,          \* no port, no action
  HostAttempts,  \* HOST_PORT_ATTEMPTS
  MaxBoots       \* bound: starts of the application

Builds == {"packaged", "packaged_wsl", "source", "source_wsl"}

ASSUME ShellAssumption ==
  /\ Build \subseteq Builds
  /\ None \notin GitAction \cup Port /\ GitAction \cap {"recover", "no", "again"} = {}
  /\ HostAttempts \in Nat \ {0} /\ MaxBoots \in Nat

VARIABLES
  build,      \* which application this is
  boots,      \* starts so far
  app,        \* "on", "off", or "relaunch": off, with a new start under way
  disk,       \* core-source.json
  savedPort,  \* port-<mode>.json, None when absent or unreadable
  jar,        \* browser profile: this process has made its session, which may
              \* hold its cookie; it may hold cookies of earlier processes
  pc,         \* where start() is
  lastAction, \* coreController's lastAction
  setup,      \* window of the setup that start() runs: "no", "open", "closed"
  net,        \* local variables of startWithPort
  backend,    \* child: "none", "spawned", "ready" (it sent its handoff), "gone"
  strays,     \* earlier children of this process that still ran when it launched another
  expected,   \* child is in expectedBackendExits
  screen,     \* the start-up window, the main window, the tray
  recording,  \* "no", "on", or "asked": the main window asks before it closes
  booting, failing, mgr, restart, quit,
  agreed,     \* history: actions confirmed or retried, not taken back, not begun
  consent,    \* history: the port the user last agreed to remember
  prepared    \* history: a Git action succeeded since the store was reset

stored  == <<build, boots, disk, savedPort>>
starter == <<pc, lastAction, setup, net>>
child   == <<backend, strays, expected>>
windows == <<screen, recording>>
control == <<booting, failing, mgr, restart, quit>>
history == <<agreed, consent, prepared>>
vars == <<stored, app, jar, starter, child, windows, control, history>>

Packaged  == build \in {"packaged", "packaged_wsl"}    \* it has a Core controller
HostCheck == build \in {"packaged_wsl", "source_wsl"}  \* Windows with the backend in WSL

Actions  == GitAction \cup {"recover"}
Defaults == [fits |-> TRUE, source |-> "bundled", pending |-> None]

NoMgr  == [at |-> "no", owner |-> "menu", action |-> None]
NoNet  == [port |-> None, remember |-> TRUE, tries |-> 0, change |-> None,
           actual |-> None, offer |-> None, error |-> "none"]
NoScreen == [splash |-> FALSE, win |-> "none", tray |-> FALSE]

\* An action may have been queued before the first start that is modelled.
Init ==
  /\ build \in Build /\ boots = 0 /\ app = "off"
  /\ savedPort \in Port \cup {None}
  /\ disk \in {[Defaults EXCEPT !.pending = a] : a \in (IF Packaged THEN Actions ELSE {}) \cup {None}}
  /\ jar = [own |-> FALSE, stale |-> FALSE]
  /\ pc = "ended" /\ lastAction = None /\ setup = "no" /\ net = NoNet
  /\ backend = "none" /\ strays = 0 /\ expected = FALSE
  /\ screen = NoScreen /\ recording = "no" /\ booting = TRUE
  /\ failing = "no" /\ mgr = NoMgr /\ restart = "no" /\ quit = "no"
  /\ agreed = {disk.pending} \ {None} /\ consent = None /\ prepared = FALSE

On      == app = "on"
Stopped == backend \in {"none", "gone"}   \* stopOwnedBackend resolves
\* dialog.showErrorBox: an error is shown until the user closes it.
Box     == failing = "box" \/ mgr.at = "box" \/ quit = "box"

-----------------------------------------------------------------------------
(* The process begins and ends.                                            *)

\* The memory of the process goes; a backend left running sees its control
\* pipe close.
Exit(how, cookies) ==
  /\ app' = how /\ jar' = cookies
  /\ pc' = "ended" /\ lastAction' = None /\ setup' = "no" /\ net' = NoNet
  /\ backend' = "none" /\ strays' = 0 /\ expected' = FALSE
  /\ screen' = NoScreen /\ recording' = "no" /\ booting' = TRUE
  /\ failing' = "no" /\ mgr' = NoMgr /\ restart' = "no" /\ quit' = "no"
  /\ consent' = None

\* What a process leaves in the profile that it has not cleared.
Left == [own |-> FALSE, stale |-> jar.own \/ jar.stale]

Open ==
  /\ ~On /\ boots < MaxBoots
  /\ boots' = boots + 1 /\ app' = "on" /\ pc' = "splash"
  /\ screen' = [screen EXCEPT !.splash = TRUE]
  /\ UNCHANGED <<build, disk, savedPort, jar, lastAction, setup, net, child, recording, control, history>>

\* The process is killed.
Crash ==
  /\ On /\ Exit("off", Left)
  /\ UNCHANGED <<stored, agreed, prepared>>

\* Another version is installed: the identity in core-source.json is not its own.
Reinstall ==
  /\ app = "off" /\ Packaged /\ disk.fits
  /\ disk' = [disk EXCEPT !.fits = FALSE] /\ prepared' = FALSE
  /\ UNCHANGED <<build, boots, savedPort, app, jar, starter, child, windows, control, agreed, consent>>

-----------------------------------------------------------------------------
(* What several of the activities do.                                      *)

\* app.quit(): a quit under way goes on as it was.
AppQuit == quit' = IF quit = "no" THEN "setup" ELSE quit

\* coreController's restart, with an action or (again) without one.
Restart(action) == restart' = action /\ AppQuit /\ agreed' = agreed \cup ({action} \ {"again"})

\* handleCoreFailure: one failure at a time, none while the application quits.
CoreFailure ==
  IF failing # "no" \/ quit # "no"
  THEN UNCHANGED <<failing, booting, expected>>
  ELSE failing' = "stop" /\ booting' = TRUE /\ expected' = TRUE

\* start() rejects: the handler at the end of the file.
StartEnds(error) ==
  /\ pc' = "ended" /\ screen' = [screen EXCEPT !.splash = FALSE]
  /\ IF error = "canceled" THEN AppQuit /\ UNCHANGED <<failing, booting, expected>>
                           ELSE CoreFailure /\ UNCHANGED quit

\* sourceStore.read: the file of another installation counts as none.
Read == IF disk.fits THEN disk ELSE Defaults

-----------------------------------------------------------------------------
(* start(): the Core source.                                               *)

Splash ==
  /\ On /\ pc = "splash"
  /\ \/ quit # "no" /\ pc' = "ended"
     \/ quit = "no" /\ pc' = IF Packaged THEN "consume" ELSE "host"
  /\ net' = [net EXCEPT !.port = savedPort]
  /\ UNCHANGED <<stored, app, jar, lastAction, setup, child, windows, control, history>>

\* coreController.prepare: the action is off the disk before it begins.
Consume ==
  /\ On /\ pc = "consume"
  /\ disk' = [Read EXCEPT !.pending = None] /\ lastAction' = Read.pending
  /\ pc' = IF Read.pending = None THEN "prepare" ELSE "manage"
  /\ agreed' = agreed \ {Read.pending}
  /\ UNCHANGED <<build, boots, savedPort, app, jar, setup, net, child, windows, control, consent, prepared>>

Preparing == pc \in {"manage", "prepare"}
Canceled  == quit \in {"stop", "clear", "queue", "box"}   \* cancelSetup has been called

\* runPreparation opens its window, unless no preparation is needed.
SetupOpens ==
  /\ On /\ Preparing /\ setup = "no" /\ ~Canceled
  /\ pc = "prepare" => disk.source = "bundled"
  /\ setup' = "open"
  /\ UNCHANGED <<stored, app, jar, pc, lastAction, net, child, windows, control, history>>

SetupCloses ==
  /\ On /\ setup = "open" /\ setup' = "closed"
  /\ UNCHANGED <<stored, app, jar, pc, lastAction, net, child, windows, control, history>>

\* manage or prepareBundled resolves.
Prepared ==
  /\ On /\ \/ pc = "manage" /\ setup = "closed" /\ pc' = "select"
           \/ pc = "prepare" /\ setup # "open" /\ pc' = "host"
  /\ prepared' = (prepared \/ (pc = "manage" /\ lastAction \in GitAction)) /\ setup' = "no"
  /\ UNCHANGED <<stored, app, jar, lastAction, net, child, windows, control, agreed, consent>>

\* It, or the store, fails. The user cancels it in the setup's own dialogs or
\* by closing its window; while a quit asks, that is the same question.
PrepareFails ==
  /\ On /\ \/ pc \in {"splash", "consume", "select"} /\ StartEnds("fatal")
           \/ Preparing /\ setup # "open" /\ \E e \in {"fatal", "canceled"} : StartEnds(e)
           \/ Preparing /\ setup = "open" /\ quit # "cancel" /\ StartEnds("canceled")
  /\ setup' = "no"
  /\ UNCHANGED <<stored, app, jar, lastAction, net, backend, strays, recording, mgr, restart, history>>

Select ==
  /\ On /\ pc = "select"
  /\ disk' = [fits |-> TRUE, pending |-> None,
              source |-> IF lastAction = "recover" THEN "bundled" ELSE "git"]
  /\ lastAction' = None /\ pc' = "host"
  /\ UNCHANGED <<build, boots, savedPort, app, jar, setup, net, child, windows, control, history>>

-----------------------------------------------------------------------------
(* start(): startWithPort. Port None asks the backend for any.             *)

\* checkHostPort passes, or is not asked, and the backend is spawned.
Launch ==
  /\ On /\ pc = "host" /\ pc' = "launch"
  /\ strays' = IF Stopped THEN strays ELSE strays + 1
  /\ backend' = "spawned" /\ expected' = FALSE
  /\ UNCHANGED <<stored, app, jar, lastAction, setup, net, windows, control, history>>

Ready ==
  /\ On /\ pc = "launch" /\ backend = "spawned" /\ backend' = "ready"
  /\ \E p \in IF net.port = None THEN Port ELSE {net.port} : net' = [net EXCEPT !.actual = p]
  /\ pc' = IF HostCheck THEN "bound" ELSE "verify"
  /\ UNCHANGED <<stored, app, jar, lastAction, setup, strays, expected, windows, control, history>>

\* The second check of the host, then the authenticated request.
Bound ==
  /\ On /\ pc = "bound" /\ pc' = "verify"
  /\ UNCHANGED <<stored, app, jar, lastAction, setup, net, child, windows, control, history>>

Verified ==
  /\ On /\ pc = "verify" /\ backend = "ready"
  /\ pc' = IF net.change = None THEN "save" ELSE "reconfirm"
  /\ UNCHANGED <<stored, app, jar, lastAction, setup, net, child, windows, control, history>>

\* An attempt fails: the backend reports a port in use, perhaps with a
\* candidate, the host rejects the port, or something else is wrong.
AttemptFails ==
  /\ On /\ pc' = "stop" /\ expected' = TRUE
  /\ \/ /\ pc = "launch" /\ net.port # None
        /\ \E p \in (Port \ {net.port}) \cup {None} :
             net' = [net EXCEPT !.error = "conflict", !.offer = p]
     \/ /\ HostCheck /\ (pc = "bound" \/ (pc = "host" /\ net.port # None))
        /\ net' = [net EXCEPT !.error = "host"]
     \/ /\ pc \in {"launch", "verify"} \/ (HostCheck /\ pc \in {"host", "bound"})
        /\ net' = [net EXCEPT !.error = "fatal"]
  /\ UNCHANGED <<stored, app, jar, lastAction, setup, backend, strays, windows, control, history>>

\* Its backend has stopped, or would not stop. The user stands by a canceled
\* start; a rejected port gives way to any.
AttemptStopped ==
  /\ On /\ pc = "stop" /\ Stopped
  /\ LET spent == net.error = "host" /\ net.tries + 1 >= HostAttempts
     IN \/ /\ net.error = "host" /\ ~spent /\ pc' = "host"
           /\ net' = [net EXCEPT !.tries = @ + 1, !.port = None,
                                 !.change = IF @ = None THEN net.port ELSE @]
           /\ UNCHANGED <<expected, screen, booting, failing, quit>>
        \/ /\ net.error = "conflict" /\ net.offer # None /\ pc' = "confirm"
           /\ UNCHANGED <<net, expected, screen, booting, failing, quit>>
        \/ /\ spent \/ net.error = "fatal" \/ (net.error = "conflict" /\ net.offer = None)
           /\ StartEnds("fatal") /\ UNCHANGED net
        \/ net.error = "canceled" /\ StartEnds("canceled") /\ UNCHANGED net
  /\ UNCHANGED <<stored, app, jar, lastAction, setup, backend, strays, recording, mgr, restart, history>>

AttemptStuck ==
  /\ On /\ pc = "stop" /\ ~Stopped /\ StartEnds("fatal")
  /\ UNCHANGED <<stored, app, jar, lastAction, setup, net, backend, strays, recording, mgr, restart, history>>

\* Fault: the second dialog about a port does not decide whether to remember it.
Faulty_ConfirmPort ==
  /\ On /\ pc \in {"confirm", "reconfirm"}
  /\ \E choice \in {"once", "remember"} :
       /\ net' = IF pc = "reconfirm" THEN net
                 ELSE [net EXCEPT !.remember = choice = "remember", !.port = net.offer]
       /\ consent' = IF choice = "once" THEN None
                     ELSE IF pc = "confirm" THEN net.offer ELSE net.actual
  /\ pc' = IF pc = "confirm" THEN "host" ELSE "save"
  /\ UNCHANGED <<stored, app, jar, lastAction, setup, child, windows, control, agreed, prepared>>

\* The user answers the dialog about another port, before it is tried
\* (confirm) or after the backend bound it (reconfirm).
ConfirmPort ==
  /\ On /\ pc \in {"confirm", "reconfirm"}
  /\ \E choice \in {"once", "remember"} :
       /\ net' = [net EXCEPT !.remember = choice = "remember",
                             !.port = IF pc = "confirm" THEN net.offer ELSE @]
       /\ consent' = IF choice = "once" THEN None
                     ELSE IF pc = "confirm" THEN net.offer ELSE net.actual
  /\ pc' = IF pc = "confirm" THEN "host" ELSE "save"
  /\ UNCHANGED <<stored, app, jar, lastAction, setup, child, windows, control, agreed, prepared>>

CancelPort ==
  /\ On /\ \/ /\ pc = "confirm" /\ StartEnds("canceled") /\ UNCHANGED net
           \/ /\ pc = "reconfirm" /\ pc' = "stop" /\ expected' = TRUE
              /\ net' = [net EXCEPT !.error = "canceled"]
              /\ UNCHANGED <<screen, booting, failing, quit>>
  /\ UNCHANGED <<stored, app, jar, lastAction, setup, backend, strays, recording, mgr, restart, history>>

\* The port is remembered, if that was agreed and the file can be written.
SavePort ==
  /\ On /\ pc = "save" /\ pc' = "shell"
  /\ savedPort' \in {savedPort} \cup (IF net.remember THEN {net.actual} ELSE {})
  /\ net' = NoNet /\ consent' = None
  /\ UNCHANGED <<build, boots, disk, app, jar, lastAction, setup, child, windows, control, agreed, prepared>>

-----------------------------------------------------------------------------
(* start(): the window.                                                    *)

\* desktopSession is there; from now on a quit clears the profile.
Session ==
  /\ On /\ pc = "shell" /\ pc' = "cookie"
  /\ jar' = [jar EXCEPT !.own = TRUE]
  /\ UNCHANGED <<stored, app, lastAction, setup, net, child, windows, control, history>>

\* Fault: the profile is not cleared before the cookie is set.
Faulty_Shell ==
  /\ On /\ pc = "cookie" /\ pc' = "load"
  /\ jar' = [jar EXCEPT !.own = TRUE]
  /\ \E tray \in BOOLEAN : screen' = [screen EXCEPT !.win = "hidden", !.tray = tray]
  /\ UNCHANGED <<stored, app, lastAction, setup, net, child, recording, control, history>>

\* The profile is cleared and gets this backend's cookie; tray and window,
\* not shown yet, are made.
Shell ==
  /\ On /\ pc = "cookie" /\ pc' = "load"
  /\ jar' = [own |-> TRUE, stale |-> FALSE]
  /\ \E tray \in BOOLEAN : screen' = [screen EXCEPT !.win = "hidden", !.tray = tray]
  /\ UNCHANGED <<stored, app, lastAction, setup, net, child, recording, control, history>>

\* A page whose renderer went (failing) does not finish loading.
Load ==
  /\ On /\ pc = "load" /\ backend # "gone" /\ failing = "no"
  /\ pc' = "ready" /\ booting' = FALSE
  /\ screen' = [screen EXCEPT !.win = "shown", !.splash = FALSE]
  /\ UNCHANGED <<stored, app, jar, lastAction, setup, net, child, recording, failing, mgr, restart, quit, history>>

ShellFails ==
  /\ On /\ pc \in {"shell", "cookie", "load"} /\ StartEnds("fatal")
  /\ UNCHANGED <<stored, app, jar, lastAction, setup, net, backend, strays, recording, mgr, restart, history>>

-----------------------------------------------------------------------------
(* The backend and the page.                                               *)

BackendExits ==
  /\ On /\ ~Stopped /\ backend' = "gone"
  /\ IF backend = "ready" /\ ~booting /\ quit = "no" /\ ~expected
     THEN CoreFailure ELSE UNCHANGED <<failing, booting, expected>>
  /\ UNCHANGED <<stored, app, jar, starter, strays, windows, mgr, restart, quit, history>>

RendererGone ==
  /\ On /\ pc \in {"load", "ready"} /\ failing = "no" /\ quit = "no" /\ CoreFailure
  /\ screen' = [screen EXCEPT !.splash = FALSE]
  /\ UNCHANGED <<stored, app, jar, starter, backend, strays, recording, mgr, restart, quit, history>>

-----------------------------------------------------------------------------
(* handleCoreFailure, and coreController.failure for a packaged build.     *)

\* Fault: the failure dialog does not wait for the backend to stop.
Faulty_FailureStopped ==
  /\ On /\ failing = "stop"
  /\ failing' = IF Packaged THEN "ask" ELSE "box"
  /\ UNCHANGED <<stored, app, jar, starter, child, windows, booting, mgr, restart, quit, history>>

FailureStopped ==
  /\ On /\ failing = "stop" /\ Stopped
  /\ failing' = IF Packaged THEN "ask" ELSE "box"
  /\ UNCHANGED <<stored, app, jar, starter, child, windows, booting, mgr, restart, quit, history>>

\* The failure handler itself fails, and says so.
FailureFails == failing' = "box" /\ restart' = "no"

FailureStuck ==
  /\ On /\ failing = "stop" /\ ~Stopped /\ FailureFails
  /\ UNCHANGED <<stored, app, jar, starter, child, windows, booting, mgr, quit, history>>

FailureClosed ==
  /\ On /\ failing = "box" /\ failing' = "no" /\ AppQuit
  /\ UNCHANGED <<stored, app, jar, starter, child, windows, booting, mgr, restart, history>>

\* Quit, Retry, Restore bundled, Manager.
FailureAnswer ==
  /\ On /\ failing = "ask"
  /\ \/ failing' = "no" /\ AppQuit /\ UNCHANGED <<mgr, restart, agreed>>
     \/ failing' = "no" /\ Restart(IF lastAction = None THEN "again" ELSE lastAction) /\ UNCHANGED mgr
     \/ failing' = "confirm" /\ UNCHANGED <<mgr, restart, quit, agreed>>
     \/ /\ mgr.at = "no" /\ failing' = "manager"
        /\ mgr' = [NoMgr EXCEPT !.at = "read", !.owner = "failure"]
        /\ UNCHANGED <<restart, quit, agreed>>
  /\ UNCHANGED <<stored, app, jar, starter, child, windows, booting, consent, prepared>>

FailureConfirm ==
  /\ On /\ failing = "confirm"
  /\ \/ failing' = "ask" /\ UNCHANGED <<restart, quit, agreed>>
     \/ failing' = "no" /\ Restart("recover")
  /\ UNCHANGED <<stored, app, jar, starter, child, windows, booting, mgr, consent, prepared>>

-----------------------------------------------------------------------------
(* coreController.showManager. One that the failure dialog opened returns  *)
(* to it; one that the menu opened may be open beside it.                  *)

MenuManager ==
  /\ On /\ Packaged /\ screen.win # "none" /\ mgr.at = "no"
  /\ mgr' = [NoMgr EXCEPT !.at = "read"]
  /\ UNCHANGED <<stored, app, jar, starter, child, windows, booting, failing, restart, quit, history>>

\* The store's settings, then the status of the workspace, which may be unknown.
ManagerReads ==
  /\ On /\ mgr.at = "read"
  /\ disk' = Read /\ mgr' = [mgr EXCEPT !.at = "choose"]
  /\ UNCHANGED <<build, boots, savedPort, app, jar, starter, child, windows, booting, failing, restart, quit, history>>

ManagerFails ==
  /\ On /\ mgr.at = "read"
  /\ IF mgr.owner = "menu" THEN mgr' = [NoMgr EXCEPT !.at = "box"] /\ UNCHANGED <<failing, restart>>
                           ELSE mgr' = NoMgr /\ FailureFails
  /\ UNCHANGED <<stored, app, jar, starter, child, windows, booting, quit, history>>

ManagerClosed ==
  /\ On /\ mgr.at = "box" /\ mgr' = NoMgr
  /\ UNCHANGED <<stored, app, jar, starter, child, windows, booting, failing, restart, quit, history>>

ManagerChoose ==
  /\ On /\ mgr.at = "choose"
  /\ \E a \in Actions : mgr' = [mgr EXCEPT !.at = "confirm", !.action = a]
  /\ UNCHANGED <<stored, app, jar, starter, child, windows, booting, failing, restart, quit, history>>

ManagerConfirm ==
  /\ On /\ mgr.at = "confirm" /\ mgr' = NoMgr /\ Restart(mgr.action)
  /\ failing' = IF mgr.owner = "failure" THEN "no" ELSE failing
  /\ UNCHANGED <<stored, app, jar, starter, child, windows, booting, consent, prepared>>

ManagerCancel ==
  /\ On /\ mgr.at \in {"choose", "confirm"} /\ mgr' = NoMgr
  /\ failing' = IF mgr.owner = "failure" THEN "ask" ELSE failing
  /\ UNCHANGED <<stored, app, jar, starter, child, windows, booting, restart, quit, history>>

-----------------------------------------------------------------------------
(* before-quit.                                                            *)

Refuse == quit' = "no" /\ restart' = "no" /\ agreed' = {}

\* From here on the quit is not taken back: cancelSetup, the start-up window
\* closed, the backend told to stop.
Proceed ==
  /\ quit' = "stop" /\ expected' = TRUE /\ screen' = [screen EXCEPT !.splash = FALSE]
  /\ UNCHANGED <<restart, agreed>>

\* capture.confirmStop refuses when the window asks already.
QuitCapture ==
  \/ recording = "no" /\ Proceed
  \/ recording = "on" /\ quit' = "capture" /\ UNCHANGED <<restart, agreed, expected, screen>>
  \/ recording = "asked" /\ Refuse /\ UNCHANGED <<expected, screen>>

\* confirmSetupQuit: a preparation under way is asked about.
QuitSetup ==
  /\ On /\ quit = "setup"
  /\ IF setup = "open" THEN quit' = "cancel" /\ UNCHANGED <<restart, agreed, expected, screen>>
                       ELSE QuitCapture
  /\ UNCHANGED <<stored, app, jar, starter, backend, strays, recording, booting, failing, mgr, consent, prepared>>

\* Keep preparing, or an answer that came after the preparation was over.
KeepSetup ==
  /\ On /\ quit = "cancel" /\ Refuse
  /\ UNCHANGED <<stored, app, jar, starter, child, windows, booting, failing, mgr, consent, prepared>>

\* Cancel it; the quit waits for it to end, and start() rejects.
StopSetup ==
  /\ On /\ quit = "cancel" /\ setup = "open"
  /\ setup' = "no" /\ pc' = "ended" /\ Proceed
  /\ UNCHANGED <<stored, app, jar, lastAction, net, backend, strays, recording, booting, failing, mgr, consent, prepared>>

KeepRecording ==
  /\ On /\ quit = "capture" /\ Refuse
  /\ UNCHANGED <<stored, app, jar, starter, child, windows, booting, failing, mgr, consent, prepared>>

StopRecording ==
  /\ On /\ quit = "capture" /\ recording' = "no" /\ Proceed
  /\ UNCHANGED <<stored, app, jar, starter, backend, strays, booting, failing, mgr, consent, prepared>>

\* finishBackendAndBrowser: a session that was made is cleared, and awaited.
Cleared == [own |-> FALSE, stale |-> FALSE]

QuitStopped ==
  /\ On /\ quit = "stop" /\ Stopped /\ jar.own
  /\ quit' = "clear" /\ jar' = Cleared
  /\ UNCHANGED <<stored, app, starter, child, windows, booting, failing, mgr, restart, history>>

\* Without a session nothing is awaited once the backend has stopped.
Finished == quit = "clear" \/ (quit = "stop" /\ Stopped /\ ~jar.own)

\* Exit, relaunch, or queue the action first.
QuitFinished ==
  /\ On /\ Finished
  /\ \/ restart = "no" /\ Exit("off", Left) /\ UNCHANGED disk
     \/ restart = "again" /\ Exit("relaunch", Left) /\ UNCHANGED disk
     \/ /\ restart \in Actions /\ quit' = "queue" /\ disk' = [Read EXCEPT !.pending = restart]
        /\ UNCHANGED <<app, jar, starter, child, windows, booting, failing, mgr, restart, consent>>
  /\ UNCHANGED <<build, boots, savedPort, agreed, prepared>>

QuitQueued ==
  /\ On /\ quit = "queue" /\ Exit("relaunch", Left)
  /\ UNCHANGED <<stored, agreed, prepared>>

\* Fault: a backend that does not stop does not prevent the restart.
Faulty_QuitFails ==
  /\ On /\ quit = "stop" /\ jar.own
  /\ quit' = "clear" /\ jar' = Cleared
  /\ UNCHANGED <<stored, app, starter, child, windows, booting, failing, mgr, restart, history>>

\* Fault: the wait for the backend has no limit.
Faulty_QuitWaits ==
  /\ On /\ quit = "stop" /\ Stopped /\ jar.own
  /\ quit' = "box" /\ restart' = "no" /\ jar' \in {Cleared, jar}
  /\ UNCHANGED <<stored, app, starter, child, windows, booting, failing, mgr, history>>

\* The backend does not stop, or the profile or the store fails: an error is
\* shown, and there will be no restart.
QuitFails ==
  /\ On
  /\ \/ quit = "stop" /\ jar.own /\ jar' \in {Cleared, jar}
     \/ quit = "stop" /\ ~jar.own /\ ~Stopped /\ UNCHANGED jar
     \/ Finished /\ restart \in Actions /\ UNCHANGED jar
  /\ quit' = "box" /\ restart' = "no"
  /\ UNCHANGED <<stored, app, starter, child, windows, booting, failing, mgr, history>>

QuitClosed ==
  /\ On /\ quit = "box" /\ Exit("off", Left)
  /\ UNCHANGED <<stored, agreed, prepared>>

-----------------------------------------------------------------------------
(* What the user does to the window.                                       *)

QuitRequest ==
  /\ On /\ quit = "no" /\ AppQuit
  /\ UNCHANGED <<stored, app, jar, starter, child, windows, booting, failing, mgr, restart, history>>

\* showWindow: tray, second instance, activate.
ShowWindow ==
  /\ On /\ screen.win = "hidden" /\ ~(booting /\ screen.splash)
  /\ screen' = [screen EXCEPT !.win = "shown"]
  /\ UNCHANGED <<stored, app, jar, starter, child, recording, control, history>>

\* A closed window hides while there is a tray. window-all-closed quits
\* without one, unless the application is booting.
CloseWindow ==
  /\ On /\ screen.win = "shown" /\ recording = "no"
  /\ IF quit = "no" /\ screen.tray
     THEN screen' = [screen EXCEPT !.win = "hidden"] /\ UNCHANGED quit
     ELSE /\ screen' = [screen EXCEPT !.win = "closed"]
          /\ IF ~screen.tray /\ ~booting THEN AppQuit ELSE UNCHANGED quit
  /\ UNCHANGED <<stored, app, jar, starter, child, recording, booting, failing, mgr, restart, history>>

\* Recording starts in a shown window; it ends by itself, or the window that
\* was to be closed has the answer to its question.
Record ==
  /\ On /\ screen.win = "shown"
  /\ \/ recording = "no" /\ recording' = "on"
     \/ recording = "on" /\ recording' \in {"no"} \cup (IF quit = "no" THEN {"asked"} ELSE {})
     \/ recording = "asked" /\ recording' \in {"no", "on"}
  /\ UNCHANGED <<stored, app, jar, starter, child, screen, control, history>>

-----------------------------------------------------------------------------
CoreStep ==
  \/ Splash \/ Consume \/ SetupOpens \/ SetupCloses \/ Prepared \/ PrepareFails \/ Select
PortStep ==
  \/ Launch \/ Ready \/ Bound \/ Verified \/ AttemptFails \/ AttemptStopped
  \/ AttemptStuck \/ ConfirmPort \/ CancelPort \/ SavePort
WindowStep ==
  \/ Session \/ Shell \/ Load \/ ShellFails \/ BackendExits \/ RendererGone
FailureStep ==
  \/ FailureStopped \/ FailureStuck \/ FailureClosed \/ FailureAnswer \/ FailureConfirm
ManagerStep ==
  \/ MenuManager \/ ManagerReads \/ ManagerFails \/ ManagerClosed \/ ManagerChoose
  \/ ManagerConfirm \/ ManagerCancel
QuitStep ==
  \/ QuitSetup \/ KeepSetup \/ StopSetup \/ KeepRecording \/ StopRecording
  \/ QuitStopped \/ QuitFinished \/ QuitQueued \/ QuitFails \/ QuitClosed
UserStep == QuitRequest \/ ShowWindow \/ CloseWindow \/ Record

Next ==
  \/ Open \/ Crash \/ Reinstall
  \/ CoreStep \/ PortStep \/ WindowStep \/ FailureStep \/ ManagerStep \/ QuitStep \/ UserStep

Spec == Init /\ [][Next]_vars

(* Every wait of a stop ends: stopOwnedBackend resolves with the exit of   *)
(* the backend or rejects after 20 seconds, and the profile and the store  *)
(* answer. Dialogs may stay open, and an error box, which may hold up      *)
(* everything else, too.                                                   *)
FairSpec ==
  /\ Spec
  /\ WF_vars(~Box /\ (FailureStopped \/ FailureStuck))
  /\ WF_vars(~Box /\ (QuitStopped \/ QuitFinished \/ QuitQueued \/ QuitFails))

-----------------------------------------------------------------------------
TypeOK ==
  /\ build \in Build /\ boots \in 0 .. MaxBoots
  /\ app \in {"on", "off", "relaunch"}
  /\ disk \in [fits : BOOLEAN, source : {"bundled", "git"}, pending : Actions \cup {None}]
  /\ savedPort \in Port \cup {None} /\ jar \in [own : BOOLEAN, stale : BOOLEAN]
  /\ pc \in {"splash", "consume", "manage", "prepare", "select", "host", "launch", "bound", "verify",
             "stop", "confirm", "reconfirm", "save", "shell", "cookie", "load", "ready", "ended"}
  /\ lastAction \in Actions \cup {None} /\ setup \in {"no", "open", "closed"}
  /\ net \in [port : Port \cup {None}, remember : BOOLEAN, tries : 0 .. HostAttempts,
              change : Port \cup {None}, actual : Port \cup {None}, offer : Port \cup {None},
              error : {"none", "conflict", "host", "fatal", "canceled"}]
  /\ backend \in {"none", "spawned", "ready", "gone"} /\ strays \in Nat /\ expected \in BOOLEAN
  /\ screen \in [splash : BOOLEAN, win : {"none", "hidden", "shown", "closed"}, tray : BOOLEAN]
  /\ recording \in {"no", "on", "asked"} /\ booting \in BOOLEAN
  /\ failing \in {"no", "stop", "ask", "confirm", "manager", "box"}
  /\ mgr \in [at : {"no", "read", "choose", "confirm", "box"}, owner : {"menu", "failure"},
              action : Actions \cup {None}]
  /\ restart \in Actions \cup {"no", "again"}
  /\ quit \in {"no", "setup", "cancel", "capture", "stop", "clear", "queue", "box"}
  /\ agreed \subseteq Actions /\ consent \in Port \cup {None} /\ prepared \in BOOLEAN

(* The process never has two backends, and none while it asks what to do   *)
(* about a lost one: whoever retries a port or reports a failure has waited *)
(* for the exit of the child (startWithPort, handleCoreFailure).           *)
OneBackend == strays = 0 /\ (failing \in {"ask", "confirm", "manager"} => Stopped)

(* A page meets no cookie of an earlier process, whatever way that ended.  *)
NoStaleCookie == On /\ pc \in {"load", "ready"} => ~jar.stale

(* A Core action begins only if the user confirmed or retried it since it  *)
(* last began, over quits that were refused, failed stops and crashes.     *)
Begins == On /\ pc = "consume" /\ pc' = "manage"
ConfirmedOnce == [][Begins => lastAction' \in agreed]_vars

(* The application relaunches only when the backend it owned has exited    *)
(* ("No Core update or restart was started").                              *)
RestartAfterStop == [][app' = "relaunch" /\ On => Stopped /\ strays = 0 /\ quit # "no"]_vars

(* Git is the stored source only after a Git action succeeded for this     *)
(* installation.                                                           *)
SourceIsPrepared == disk.fits /\ disk.source = "git" => prepared

(* A remembered port is replaced only by the port the backend really bound *)
(* and the user agreed to remember; "use once" leaves it.                  *)
PortIsConsented ==
  [][savedPort' # savedPort => savedPort' = net.actual /\ (savedPort = None \/ consent = savedPort')]_vars

(* A quit that asks nothing more ends the process, or an error box stands  *)
(* in its way: whatever start(), a failure or the manager does meanwhile,  *)
(* and whether or not the backend stops (before-quit).                     *)
QuitEnds == quit \in {"stop", "clear", "queue"} ~> ~On \/ Box

(* "Startup or later Core failure opens a native retry/recovery dialog"    *)
(* (desktop/README.md, Advanced Core source and recovery): a start that     *)
(* failed, or a backend lost once the shell was up, is being reported, or   *)
(* the application quits.                                                   *)
FailureIsAsked ==
  On /\ (pc = "ended" \/ (pc = "ready" /\ backend = "gone")) => failing # "no" \/ quit # "no"
=============================================================================
