------------------------- MODULE DesktopShellProofs -------------------------
(***************************************************************************)
(* Theorems about DesktopShell, for any applications, actions and ports,   *)
(* any number of attempts and of starts.                                   *)
(***************************************************************************)
EXTENDS DesktopShell, TLAPS

Net == [port : Port \cup {None}, remember : BOOLEAN, tries : Nat,
        change : Port \cup {None}, actual : Port \cup {None}, offer : Port \cup {None},
        error : {"none", "conflict", "host", "fatal", "canceled"}]
Screen  == [splash : BOOLEAN, win : {"none", "hidden", "shown", "closed"}, tray : BOOLEAN]
Manager == [at : {"no", "read", "choose", "confirm", "box"}, owner : {"menu", "failure"},
            action : Actions \cup {None}]

RecordTypes ==
  /\ net \in Net /\ screen \in Screen /\ mgr \in Manager
  /\ savedPort \in Port \cup {None} /\ jar \in [own : BOOLEAN, stale : BOOLEAN]

(* A process that is not running has left nothing behind.                  *)
OffInv ==
  ~On => /\ backend = "none" /\ strays = 0 /\ net = NoNet /\ setup = "no" /\ booting = TRUE
         /\ screen.win = "none" /\ mgr.at = "no"
         /\ failing = "no" /\ restart = "no" /\ quit = "no" /\ ~jar.own

(* Only a start that got as far as its session, or failed, has a session,  *)
(* a window, a manager, a failure or a restart.                            *)
Late == pc \in {"cookie", "load", "ready", "ended"}
LateInv ==
  /\ setup # "no" => Preparing
  /\ ~booting => pc = "ready"
  /\ (\/ failing # "no" \/ restart # "no" \/ quit \in {"clear", "queue"}
      \/ mgr.at # "no" \/ screen.win # "none" \/ jar.own)
       => Late

(* Until the backend is launched, and while the user is asked what to do   *)
(* about a port or a failure, there is none that runs.                     *)
BackInv ==
  /\ strays = 0
  /\ pc \in {"splash", "consume", "manage", "prepare", "select", "host", "confirm"} => Stopped
  /\ failing \in {"ask", "confirm", "manager"} => Stopped
  /\ mgr.at # "no" /\ mgr.owner = "failure" => failing = "manager"
  /\ quit \in {"clear", "queue"} => Stopped

(* The port that would be remembered is the remembered one, or one that    *)
(* was agreed to, or there is none yet.                                    *)
PortInv ==
  /\ pc = "splash" => net = NoNet
  /\ pc \in {"consume", "manage", "prepare", "select", "host", "launch", "bound", "verify",
             "stop", "confirm"}
       => (net.change = None /\ net.remember
             => net.port = savedPort \/ (net.port # None /\ consent = net.port))
  /\ pc \in {"bound", "verify"} /\ net.port # None => net.actual = net.port
  /\ pc = "confirm" => net.offer # None
  /\ pc = "reconfirm" => net.change # None
  /\ pc = "save" /\ net.remember
       => savedPort = None \/ consent = net.actual \/ net.actual = savedPort

ShellInv == RecordTypes /\ OffInv /\ LateInv /\ BackInv /\ PortInv

-----------------------------------------------------------------------------
(* What the updates of the records give.                                   *)

LEMMA FreshRecords ==
  /\ NoNet \in Net /\ NoScreen \in Screen /\ NoMgr \in Manager
  /\ NoNet.port = None /\ NoNet.remember /\ NoNet.change = None
  /\ NoScreen.win = "none" /\ NoMgr.at = "no" /\ NoMgr.owner = "menu"
BY DEF NoNet, NoScreen, NoMgr, Net, Screen, Manager

LEMMA SplashUpdate ==
  ASSUME NEW s \in Screen, NEW b \in BOOLEAN
  PROVE  [s EXCEPT !.splash = b] \in Screen /\ [s EXCEPT !.splash = b].win = s.win
BY DEF Screen

LEMMA WinUpdate ==
  ASSUME NEW s \in Screen, NEW w \in {"none", "hidden", "shown", "closed"}, NEW b \in BOOLEAN
  PROVE  /\ [s EXCEPT !.win = w] \in Screen
         /\ [s EXCEPT !.win = w, !.tray = b] \in Screen
         /\ [s EXCEPT !.win = w, !.splash = FALSE] \in Screen
<1>1. [s EXCEPT !.win = w] \in Screen BY DEF Screen
<1>2. [s EXCEPT !.win = w, !.tray = b] = [[s EXCEPT !.win = w] EXCEPT !.tray = b] BY DEF Screen
<1>3. [s EXCEPT !.win = w, !.splash = FALSE] = [[s EXCEPT !.win = w] EXCEPT !.splash = FALSE]
  BY DEF Screen
<1> DEFINE v == [s EXCEPT !.win = w]
<1> HIDE DEF v
<1>4. ASSUME v \in Screen PROVE [v EXCEPT !.tray = b] \in Screen /\ [v EXCEPT !.splash = FALSE] \in Screen
  BY <1>4 DEF Screen
<1> QED BY <1>1, <1>2, <1>3, <1>4 DEF v

LEMMA ManagerUpdate ==
  ASSUME NEW m \in Manager, NEW a \in Actions, NEW x \in {"no", "read", "choose", "confirm", "box"}
  PROVE  /\ [m EXCEPT !.at = x] \in Manager /\ [m EXCEPT !.at = x].owner = m.owner
         /\ [m EXCEPT !.at = x, !.action = a] \in Manager
         /\ [m EXCEPT !.at = x, !.action = a].owner = m.owner
BY DEF Manager

LEMMA NetPort ==
  ASSUME NEW n \in Net, NEW p \in Port \cup {None}
  PROVE  LET m == [n EXCEPT !.port = p]
         IN m \in Net /\ m.port = p /\ m.remember = n.remember /\ m.change = n.change
BY DEF Net

LEMMA NetActual ==
  ASSUME NEW n \in Net, NEW p \in Port \cup {None}
  PROVE  LET m == [n EXCEPT !.actual = p]
         IN /\ m \in Net /\ m.actual = p /\ m.port = n.port /\ m.remember = n.remember
            /\ m.change = n.change
BY DEF Net

LEMMA NetError ==
  ASSUME NEW n \in Net, NEW e \in {"none", "conflict", "host", "fatal", "canceled"}
  PROVE  LET m == [n EXCEPT !.error = e]
         IN m \in Net /\ m.port = n.port /\ m.remember = n.remember /\ m.change = n.change
BY DEF Net

LEMMA NetConflict ==
  ASSUME NEW n \in Net, NEW p \in Port \cup {None}
  PROVE  LET m == [n EXCEPT !.error = "conflict", !.offer = p]
         IN m \in Net /\ m.port = n.port /\ m.remember = n.remember /\ m.change = n.change
BY DEF Net

LEMMA NetAnswer ==
  ASSUME NEW n \in Net, NEW p \in Port \cup {None}
  PROVE  /\ LET m == [n EXCEPT !.remember = TRUE, !.port = p]
            IN /\ m \in Net /\ m.port = p /\ m.change = n.change /\ m.actual = n.actual
         /\ LET m == [n EXCEPT !.remember = FALSE, !.port = p]
            IN /\ m \in Net /\ m.port = p /\ m.change = n.change /\ m.actual = n.actual
               /\ ~m.remember
<1> DEFINE k(b) == [n EXCEPT !.remember = b]
<1>1. /\ k(TRUE) \in Net /\ k(TRUE).change = n.change /\ k(TRUE).actual = n.actual
      /\ k(FALSE) \in Net /\ k(FALSE).change = n.change /\ k(FALSE).actual = n.actual
      /\ ~k(FALSE).remember
  BY DEF Net
<1>2. /\ [n EXCEPT !.remember = TRUE, !.port = p] = [k(TRUE) EXCEPT !.port = p]
      /\ [n EXCEPT !.remember = FALSE, !.port = p] = [k(FALSE) EXCEPT !.port = p]
  BY DEF Net
<1> HIDE DEF k
<1> QED BY <1>1, <1>2 DEF Net

LEMMA NetGivesWay ==
  ASSUME NEW n \in Net
  PROVE  LET m == [n EXCEPT !.tries = @ + 1, !.port = None,
                            !.change = IF @ = None THEN n.port ELSE @]
         IN /\ m \in Net /\ m.port = None /\ m.remember = n.remember
            /\ m.change = (IF n.change = None THEN n.port ELSE n.change)
<1> DEFINE t == n.tries + 1
           c == IF n.change = None THEN n.port ELSE n.change
<1>1. t \in Nat /\ c \in Port \cup {None} BY DEF Net
<1>2. [n EXCEPT !.tries = @ + 1, !.port = None, !.change = IF @ = None THEN n.port ELSE @]
        = [n EXCEPT !.tries = t, !.port = None, !.change = c]
  BY DEF Net
<1> HIDE DEF t, c
<1>3. LET m == [n EXCEPT !.tries = t, !.port = None, !.change = c]
      IN m \in Net /\ m.port = None /\ m.remember = n.remember /\ m.change = c
  BY <1>1 DEF Net
<1> QED BY <1>2, <1>3 DEF c

-----------------------------------------------------------------------------
(* The steps.  A step ends the process, or it is one of Steps.             *)

\* The last step of a quit puts the action on disk before the process ends.
QueuesAction == QuitFinished /\ quit' = "queue"

Steps ==
  Open \/ Reinstall \/ Splash \/ Consume \/ SetupOpens \/ SetupCloses \/ Prepared
  \/ PrepareFails \/ Select \/ Launch \/ Ready \/ Bound \/ Verified \/ AttemptFails
  \/ AttemptStopped \/ AttemptStuck \/ ConfirmPort \/ CancelPort \/ SavePort \/ Session \/ Shell \/ Load
  \/ ShellFails \/ BackendExits \/ RendererGone \/ FailureStopped \/ FailureStuck \/ FailureClosed
  \/ FailureAnswer \/ FailureConfirm \/ MenuManager \/ ManagerReads \/ ManagerFails \/ ManagerClosed
  \/ ManagerChoose \/ ManagerConfirm \/ ManagerCancel \/ QuitSetup \/ KeepSetup \/ StopSetup
  \/ KeepRecording \/ StopRecording \/ QuitStopped \/ QuitFails \/ QueuesAction \/ QuitRequest \/ ShowWindow
  \/ CloseWindow \/ Record

LEMMA ProcessEnds ==
  ASSUME NEW how \in {"off", "relaunch"}, Exit(how, Left),
         savedPort' = savedPort, RecordTypes
  PROVE  ShellInv' /\ pc' = "ended"
<1> USE DEF Exit
<1>1. RecordTypes' /\ pc' = "ended" BY FreshRecords DEF RecordTypes, Left
<1>2. OffInv' BY FreshRecords DEF OffInv, Left
<1>3. LateInv' BY FreshRecords DEF LateInv, Late
<1>4. BackInv' BY FreshRecords DEF BackInv, Stopped
<1>5. PortInv' BY DEF PortInv
<1> QED BY <1>1, <1>2, <1>3, <1>4, <1>5 DEF ShellInv

LEMMA EndOrStep ==
  ASSUME ShellInv, Next
  PROVE  Steps \/ (ShellInv' /\ pc' = "ended")
<1> USE DEF stored
<1>0. RecordTypes BY DEF ShellInv
<1>1. CASE Crash BY <1>0, <1>1, ProcessEnds DEF Crash
<1>2. CASE QuitFinished BY <1>0, <1>2, ProcessEnds DEF QuitFinished, QueuesAction, Steps
<1>3. CASE QuitQueued BY <1>0, <1>3, ProcessEnds DEF QuitQueued
<1>4. CASE QuitClosed BY <1>0, <1>4, ProcessEnds DEF QuitClosed
<1> QED BY <1>1, <1>2, <1>3, <1>4 DEF Next, CoreStep, PortStep, WindowStep, FailureStep,
           ManagerStep, QuitStep, UserStep, Steps

\* The window is made by Shell and by no other step, and shown by Load.
LEMMA ScreenStep ==
  ASSUME RecordTypes, Steps
  PROVE  screen' \in Screen /\ (screen'.win # "none" => screen.win # "none" \/ pc' \in {"load", "ready"})
<1> USE DEF windows
<1>0. screen \in Screen BY DEF RecordTypes
<1>1. CASE screen' = [screen EXCEPT !.splash = FALSE] \/ screen' = [screen EXCEPT !.splash = TRUE]
  BY <1>0, <1>1, SplashUpdate
<1>2. CASE UNCHANGED screen BY <1>0, <1>2
<1>3. CASE Shell
  <2>1. PICK tray \in BOOLEAN : screen' = [screen EXCEPT !.win = "hidden", !.tray = tray]
    BY <1>3 DEF Shell
  <2>2. screen' \in Screen /\ pc' = "load" BY <1>0, <1>3, <2>1, WinUpdate DEF Shell
  <2> QED BY <2>2
<1>4. CASE Load
  BY <1>0, <1>4, WinUpdate DEF Load
<1>5. CASE ShowWindow \/ CloseWindow
  <2>1. /\ screen.win # "none"
        /\ \/ \E w \in {"hidden", "shown", "closed"} : screen' = [screen EXCEPT !.win = w]
           \/ UNCHANGED screen
    BY <1>5 DEF ShowWindow, CloseWindow
  <2> QED BY <1>0, <2>1, WinUpdate
<1>6. CASE Open BY <1>1, <1>2, <1>6 DEF Open
<1>7. CASE PrepareFails BY <1>1, <1>2, <1>7 DEF PrepareFails, StartEnds
<1>8. CASE AttemptStopped BY <1>1, <1>2, <1>8 DEF AttemptStopped, StartEnds
<1>9. CASE AttemptStuck BY <1>1, <1>2, <1>9 DEF AttemptStuck, StartEnds
<1>10. CASE CancelPort BY <1>1, <1>2, <1>10 DEF CancelPort, StartEnds
<1>11. CASE ShellFails BY <1>1, <1>2, <1>11 DEF ShellFails, StartEnds
<1>12. CASE RendererGone BY <1>1, <1>2, <1>12 DEF RendererGone
<1>13. CASE QuitSetup BY <1>1, <1>2, <1>13 DEF QuitSetup, QuitCapture, Proceed, Refuse
<1>14. CASE StopSetup BY <1>1, <1>2, <1>14 DEF StopSetup, Proceed
<1>15. CASE StopRecording BY <1>1, <1>2, <1>15 DEF StopRecording, Proceed
<1>16. CASE Reinstall \/ Splash \/ Consume \/ SetupOpens \/ SetupCloses \/ Prepared
         \/ Select \/ Launch \/ Ready \/ Bound \/ Verified \/ AttemptFails
         \/ ConfirmPort \/ SavePort \/ BackendExits \/ Session
  BY <1>2, <1>16 DEF Reinstall, Splash, Consume, SetupOpens, SetupCloses, Prepared, Select,
                     Launch, Ready, Bound, Verified, AttemptFails,
                     ConfirmPort, SavePort, BackendExits, Session
<1>17. CASE FailureStopped \/ FailureStuck \/ FailureClosed \/ FailureAnswer \/ FailureConfirm \/ MenuManager
         \/ ManagerReads \/ ManagerFails \/ ManagerClosed \/ ManagerChoose \/ ManagerConfirm
         \/ ManagerCancel \/ KeepSetup \/ KeepRecording \/ QuitStopped \/ QuitFails
         \/ QueuesAction
         \/ QuitRequest \/ Record
  BY <1>2, <1>17 DEF FailureStopped, FailureStuck, FailureClosed, FailureAnswer, FailureConfirm,
                     MenuManager, ManagerReads, ManagerFails, ManagerClosed,
                     ManagerChoose, ManagerConfirm, ManagerCancel,
                     KeepSetup, KeepRecording, QueuesAction,
                     QuitRequest, Record, Refuse, QuitStopped, QuitFails, QuitFinished, Finished, Exit
<1> QED BY <1>3, <1>4, <1>5, <1>6, <1>7, <1>8, <1>9, <1>10, <1>11, <1>12, <1>13, <1>14,
           <1>15, <1>16, <1>17 DEF Steps

\* The profile is cleared, or it stays as it is but for the session.
JarChange ==
  \/ UNCHANGED jar
  \/ jar' = [jar EXCEPT !.own = TRUE] /\ pc' = "cookie"
  \/ jar' = [own |-> TRUE, stale |-> FALSE] /\ pc' = "load"
  \/ jar' = Cleared

LEMMA JarType ==
  ASSUME jar \in [own : BOOLEAN, stale : BOOLEAN], JarChange
  PROVE  /\ jar' \in [own : BOOLEAN, stale : BOOLEAN]
         /\ jar'.own => jar.own \/ pc' \in {"cookie", "load"}
         /\ jar'.stale => jar.stale
<1> DEFINE made == [jar EXCEPT !.own = TRUE]
<1>1. made \in [own : BOOLEAN, stale : BOOLEAN] /\ made.stale = jar.stale
  OBVIOUS
<1>2. CASE UNCHANGED jar BY <1>2
<1>3. CASE jar' = made /\ pc' = "cookie"
  <2> HIDE DEF made
  <2> QED BY <1>1, <1>3
<1>4. CASE jar' = [own |-> TRUE, stale |-> FALSE] /\ pc' = "load" BY <1>4
<1>5. CASE jar' = [own |-> FALSE, stale |-> FALSE] BY <1>5
<1> QED BY <1>2, <1>3, <1>4, <1>5 DEF JarChange, Cleared

LEMMA JarStep ==
  ASSUME Steps
  PROVE  JarChange
<1> USE DEF JarChange
<1>1. CASE Session \/ Shell \/ QuitStopped \/ QuitFails
  BY <1>1 DEF Session, Shell, QuitStopped, QuitFails
<1>2. CASE Open \/ Reinstall \/ Splash \/ Consume \/ SetupOpens \/ SetupCloses \/ Prepared
         \/ PrepareFails \/ Select \/ Launch \/ Ready \/ Bound \/ Verified
         \/ AttemptFails \/ AttemptStopped \/ AttemptStuck \/ ConfirmPort
         \/ CancelPort \/ SavePort \/ Load \/ ShellFails
  BY <1>2 DEF Open, Reinstall, Splash, Consume, SetupOpens, SetupCloses, Prepared,
              PrepareFails, Select, Launch, Ready, Bound, Verified, AttemptFails,
              AttemptStopped, AttemptStuck, ConfirmPort, CancelPort, SavePort, Load,
              ShellFails
<1>3. CASE BackendExits \/ RendererGone \/ FailureStopped \/ FailureStuck \/ FailureClosed
         \/ FailureAnswer \/ FailureConfirm \/ MenuManager \/ ManagerReads \/ ManagerFails
         \/ ManagerClosed \/ ManagerChoose \/ ManagerConfirm \/ ManagerCancel
  BY <1>3 DEF BackendExits, RendererGone, FailureStopped, FailureStuck, FailureClosed,
              FailureAnswer, FailureConfirm, MenuManager, ManagerReads, ManagerFails,
              ManagerClosed, ManagerChoose, ManagerConfirm, ManagerCancel
<1>4. CASE QuitSetup \/ KeepSetup \/ StopSetup \/ KeepRecording \/ StopRecording
         \/ QueuesAction \/ QuitRequest \/ ShowWindow \/ CloseWindow \/ Record
  BY <1>4 DEF QuitSetup, KeepSetup, StopSetup, KeepRecording, StopRecording, QueuesAction,
              QuitFinished, Exit, QuitRequest, ShowWindow, CloseWindow, Record
<1> QED BY <1>1, <1>2, <1>3, <1>4 DEF Steps

\* The manager is opened from the menu, which needs a window, or by the failure
\* dialog, which then waits for it.
LEMMA ManagerStepFacts ==
  ASSUME ShellInv, Steps
  PROVE  /\ mgr' \in Manager
         /\ mgr'.at # "no" => mgr.at # "no" \/ screen.win # "none" \/ failing = "ask"
         /\ mgr'.at # "no" /\ mgr'.owner = "failure" => failing' = "manager"
<1> USE DEF control
<1>0. mgr \in Manager /\ BackInv BY DEF ShellInv, RecordTypes
<1>1. CASE UNCHANGED mgr /\ (failing = failing' \/ failing # "manager")
  BY <1>0, <1>1 DEF BackInv
<1>2. CASE FailureAnswer
  <2>1. CASE UNCHANGED mgr BY <1>0, <1>2, <2>1 DEF FailureAnswer, BackInv
  <2>2. CASE failing' = "manager" /\ mgr' = [NoMgr EXCEPT !.at = "read", !.owner = "failure"]
    <3>1. [NoMgr EXCEPT !.at = "read", !.owner = "failure"] \in Manager BY DEF NoMgr, Manager
    <3> QED BY <1>2, <2>2, <3>1 DEF FailureAnswer
  <2> QED BY <1>2, <2>1, <2>2 DEF FailureAnswer
<1>3. CASE MenuManager
  <2>1. [NoMgr EXCEPT !.at = "read"] \in Manager /\ [NoMgr EXCEPT !.at = "read"].owner = "menu"
    BY DEF NoMgr, Manager
  <2> QED BY <1>3, <2>1 DEF MenuManager
<1>4. CASE ManagerReads
  <2>1. mgr' = [mgr EXCEPT !.at = "choose"] /\ UNCHANGED failing /\ mgr.at # "no"
    BY <1>4 DEF ManagerReads
  <2>2. [mgr EXCEPT !.at = "choose"] \in Manager /\ [mgr EXCEPT !.at = "choose"].owner = mgr.owner
    BY <1>0 DEF Manager
  <2> QED BY <1>0, <2>1, <2>2 DEF BackInv
<1>5. CASE ManagerFails \/ ManagerClosed
  <2>1. [NoMgr EXCEPT !.at = "box"] \in Manager /\ [NoMgr EXCEPT !.at = "box"].owner = "menu"
    BY DEF NoMgr, Manager
  <2>2. mgr.at # "no" /\ mgr' \in {NoMgr, [NoMgr EXCEPT !.at = "box"]}
    BY <1>5 DEF ManagerFails, ManagerClosed
  <2> QED BY <2>1, <2>2, FreshRecords
<1>6. CASE ManagerChoose
  <2>1. PICK a \in Actions : mgr' = [mgr EXCEPT !.at = "confirm", !.action = a]
    BY <1>6 DEF ManagerChoose
  <2>2. UNCHANGED failing /\ mgr.at # "no" BY <1>6 DEF ManagerChoose
  <2> QED BY <1>0, <2>1, <2>2, ManagerUpdate DEF BackInv
<1>7. CASE ManagerConfirm
  BY <1>7, FreshRecords DEF ManagerConfirm
<1>8. CASE ManagerCancel
  BY <1>8, FreshRecords DEF ManagerCancel
<1>9. CASE PrepareFails \/ AttemptStopped \/ AttemptStuck \/ CancelPort \/ ShellFails
        \/ RendererGone \/ BackendExits \/ FailureStopped \/ FailureStuck \/ FailureClosed
        \/ FailureConfirm
  BY <1>1, <1>9 DEF PrepareFails, AttemptStopped, AttemptStuck, CancelPort, ShellFails,
                    RendererGone, BackendExits, FailureStopped,
                    FailureStuck, FailureClosed, FailureConfirm, StartEnds,
                    CoreFailure, FailureFails, AppQuit
<1>10. CASE Open \/ Reinstall \/ Splash \/ Consume \/ SetupOpens \/ SetupCloses \/ Prepared
         \/ Select \/ Launch \/ Ready \/ Bound \/ Verified \/ AttemptFails
  BY <1>1, <1>10 DEF Open, Reinstall, Splash, Consume, SetupOpens, SetupCloses, Prepared,
                     Select, Launch, Ready, Bound, Verified,
                     AttemptFails
<1>11. CASE ConfirmPort \/ SavePort \/ Session \/ Shell \/ Load \/ QuitSetup \/ KeepSetup \/ StopSetup
         \/ KeepRecording \/ StopRecording \/ QuitStopped \/ QuitFails \/ QueuesAction \/ QuitRequest
         \/ ShowWindow \/ CloseWindow \/ Record
  BY <1>1, <1>11 DEF ConfirmPort, SavePort, Session, Shell, Load, QuitSetup, KeepSetup, StopSetup,
                     KeepRecording, StopRecording, QueuesAction,
                     QuitRequest, ShowWindow, CloseWindow, Record,
                     Refuse, QuitStopped, QuitFails, QuitFinished, Finished, Exit
<1> QED BY <1>2, <1>3, <1>4, <1>5, <1>6, <1>7, <1>8, <1>9, <1>10, <1>11 DEF Steps

\* The port, and what was agreed about it.
LEMMA PortSteps ==
  ASSUME ShellInv, Steps
  PROVE  net' \in Net /\ savedPort' \in Port \cup {None} /\ PortInv'
<1> USE DEF stored, starter
<1>0. /\ net \in Net /\ savedPort \in Port \cup {None} /\ None \in Port \cup {None}
      /\ PortInv /\ LateInv /\ OffInv
  BY DEF ShellInv, RecordTypes
<1>1. CASE /\ UNCHANGED <<net, savedPort, consent>>
           /\ \/ pc' \in {"ended", "cookie", "load", "ready"} \cup {pc}
              \/ pc \in {"consume", "manage", "prepare", "select", "host", "launch", "bound", "verify", "stop"}
                 /\ pc' \in {"consume", "manage", "prepare", "select", "host", "launch", "stop"}
  BY <1>0, <1>1 DEF PortInv
<1>2. CASE Open
  BY <1>0, <1>2 DEF Open, OffInv, PortInv, history
<1>3. CASE Splash
  <2>1. /\ net' = [NoNet EXCEPT !.port = savedPort] /\ UNCHANGED <<savedPort, consent>>
        /\ pc' \in {"ended", "consume", "host"}
    BY <1>0, <1>3 DEF Splash, PortInv, history
  <2>2. /\ net' \in Net /\ net'.port = savedPort
    BY <1>0, <2>1, FreshRecords, NetPort
  <2> QED BY <1>0, <2>1, <2>2 DEF PortInv
<1>4. CASE Ready
  <2>1. PICK q \in IF net.port = None THEN Port ELSE {net.port} : net' = [net EXCEPT !.actual = q]
    BY <1>4 DEF Ready
  <2>2. q \in Port \cup {None} /\ (net.port # None => q = net.port) BY <1>0, <2>1 DEF Net
  <2>3. /\ net' \in Net /\ net'.actual = q /\ net'.port = net.port /\ net'.remember = net.remember
        /\ net'.change = net.change
    BY <1>0, <2>1, <2>2, NetActual
  <2>4. pc = "launch" /\ pc' \in {"bound", "verify"} /\ UNCHANGED <<savedPort, consent>>
    BY <1>4 DEF Ready, history
  <2> QED BY <1>0, <2>2, <2>3, <2>4 DEF PortInv
<1>5. CASE Bound BY <1>0, <1>5 DEF Bound, PortInv, history
<1>6. CASE Verified
  <2>1. /\ pc = "verify" /\ UNCHANGED <<net, savedPort, consent>>
        /\ pc' = (IF net.change = None THEN "save" ELSE "reconfirm")
    BY <1>6 DEF Verified, history
  <2> QED BY <1>0, <2>1 DEF PortInv
<1>7. CASE AttemptFails
  <2>1. /\ pc' = "stop" /\ UNCHANGED <<savedPort, consent>>
        /\ pc \in {"host", "launch", "bound", "verify"}
    BY <1>7 DEF AttemptFails, history
  <2>2. \/ \E q \in Port \cup {None} : net' = [net EXCEPT !.error = "conflict", !.offer = q]
        \/ net' = [net EXCEPT !.error = "host"] \/ net' = [net EXCEPT !.error = "fatal"]
    BY <1>7 DEF AttemptFails
  <2>3. /\ net' \in Net /\ net'.port = net.port /\ net'.remember = net.remember
        /\ net'.change = net.change
    <3>1. CASE \E q \in Port \cup {None} : net' = [net EXCEPT !.error = "conflict", !.offer = q]
      <4>1. PICK q \in Port \cup {None} : net' = [net EXCEPT !.error = "conflict", !.offer = q]
        BY <3>1
      <4>2. LET m == [net EXCEPT !.error = "conflict", !.offer = q]
            IN m \in Net /\ m.port = net.port /\ m.remember = net.remember /\ m.change = net.change
        BY <1>0, <4>1, NetConflict
      <4> QED BY <4>1, <4>2
    <3>2. CASE net' = [net EXCEPT !.error = "host"] \/ net' = [net EXCEPT !.error = "fatal"]
      BY <1>0, <3>2, NetError
    <3> QED BY <2>2, <3>1, <3>2
  <2> QED BY <1>0, <2>1, <2>3 DEF PortInv
<1>8. CASE AttemptStopped
  <2>1. pc = "stop" /\ UNCHANGED <<savedPort, consent>> BY <1>8 DEF AttemptStopped, history
  <2>2. CASE pc' = "ended" /\ UNCHANGED net BY <1>1, <2>1, <2>2
  <2>3. CASE pc' = "confirm" /\ net.offer # None /\ UNCHANGED net
    BY <1>0, <2>1, <2>3 DEF PortInv
  <2>4. CASE /\ pc' = "host"
             /\ net' = [net EXCEPT !.tries = @ + 1, !.port = None,
                                   !.change = IF @ = None THEN net.port ELSE @]
    <3>1. /\ net' \in Net /\ net'.port = None /\ net'.remember = net.remember
          /\ net'.change = (IF net.change = None THEN net.port ELSE net.change)
      BY <1>0, <2>4, NetGivesWay
    <3> QED BY <1>0, <2>1, <2>4, <3>1 DEF PortInv
  <2> QED BY <1>8, <2>2, <2>3, <2>4 DEF AttemptStopped, StartEnds
<1>9. CASE ConfirmPort
  <2>1. PICK choice \in {"once", "remember"} :
          /\ net' = [net EXCEPT !.remember = choice = "remember",
                                !.port = IF pc = "confirm" THEN net.offer ELSE @]
          /\ consent' = IF choice = "once" THEN None
                        ELSE IF pc = "confirm" THEN net.offer ELSE net.actual
    BY <1>9 DEF ConfirmPort
  <2> DEFINE q == IF pc = "confirm" THEN net.offer ELSE net.port
  <2>2. q \in Port \cup {None} BY <1>0 DEF Net
  <2>3. /\ pc \in {"confirm", "reconfirm"} /\ UNCHANGED savedPort
        /\ pc' = (IF pc = "confirm" THEN "host" ELSE "save")
    BY <1>9 DEF ConfirmPort
  <2>4. pc = "confirm" => q = net.offer /\ net.offer # None BY <1>0 DEF PortInv
  <2>5. CASE choice = "once"
    <3>1. net' = [net EXCEPT !.remember = FALSE, !.port = q] BY <1>0, <2>1, <2>5 DEF Net
    <3> HIDE DEF q
    <3>2. net' \in Net /\ ~net'.remember BY <1>0, <2>2, <3>1, NetAnswer
    <3> QED BY <1>0, <2>3, <2>4, <3>2 DEF PortInv
  <2>6. CASE choice = "remember"
    <3>1. net' = [net EXCEPT !.remember = TRUE, !.port = q] BY <1>0, <2>1, <2>6 DEF Net
    <3>2. consent' = IF pc = "confirm" THEN net.offer ELSE net.actual BY <2>1, <2>6
    <3> HIDE DEF q
    <3>3. net' \in Net /\ net'.port = q /\ net'.actual = net.actual
      BY <1>0, <2>2, <3>1, NetAnswer
    <3> QED BY <1>0, <2>3, <2>4, <3>2, <3>3 DEF PortInv
  <2> QED BY <2>5, <2>6
<1>10. CASE CancelPort
  <2>1. UNCHANGED <<savedPort, consent>> BY <1>10 DEF CancelPort, history
  <2>2. CASE pc' = "ended" /\ UNCHANGED net BY <1>1, <2>1, <2>2
  <2>3. CASE pc = "reconfirm" /\ pc' = "stop" /\ net' = [net EXCEPT !.error = "canceled"]
    <3>1. /\ net' \in Net /\ net'.port = net.port /\ net'.remember = net.remember
          /\ net'.change = net.change
      BY <1>0, <2>3, NetError
    <3> QED BY <1>0, <2>1, <2>3, <3>1 DEF PortInv
  <2> QED BY <1>10, <2>2, <2>3 DEF CancelPort, StartEnds
<1>11. CASE SavePort
  <2>1. net' = NoNet /\ pc' = "shell" /\ savedPort' \in {savedPort, net.actual}
    BY <1>11 DEF SavePort
  <2>2. net.actual \in Port \cup {None} BY <1>0 DEF Net
  <2> QED BY <1>0, <2>1, <2>2, FreshRecords DEF PortInv
<1>12. CASE Consume BY <1>1, <1>12 DEF Consume, history
<1>13. CASE Prepared BY <1>1, <1>13 DEF Prepared, history
<1>14. CASE PrepareFails BY <1>1, <1>14 DEF PrepareFails, StartEnds, history
<1>15. CASE Select BY <1>1, <1>15 DEF Select, history
<1>16. CASE Launch BY <1>1, <1>16 DEF Launch, history
<1>17. CASE AttemptStuck BY <1>1, <1>17 DEF AttemptStuck, StartEnds, history
<1>18. CASE Session \/ Shell BY <1>1, <1>18 DEF Session, Shell, history
<1>19. CASE Load BY <1>1, <1>19 DEF Load, history
<1>20. CASE ShellFails BY <1>1, <1>20 DEF ShellFails, StartEnds, history
<1>21. CASE StopSetup BY <1>1, <1>21 DEF StopSetup, history
<1>22. CASE Reinstall \/ SetupOpens \/ SetupCloses \/ BackendExits \/ RendererGone
         \/ FailureStopped \/ FailureStuck \/ FailureClosed \/ FailureAnswer \/ FailureConfirm
         \/ MenuManager \/ ManagerReads \/ ManagerFails \/ ManagerClosed
  BY <1>1, <1>22 DEF Reinstall, SetupOpens, SetupCloses, BackendExits, RendererGone,
                     FailureStopped, FailureStuck, FailureClosed, FailureAnswer,
                     FailureConfirm, MenuManager, ManagerReads,
                     ManagerFails, ManagerClosed, history
<1>23. CASE ManagerChoose \/ ManagerConfirm \/ ManagerCancel \/ QuitSetup \/ KeepSetup
         \/ KeepRecording \/ StopRecording \/ QuitStopped \/ QuitFails \/ QueuesAction \/ QuitRequest
         \/ ShowWindow \/ CloseWindow \/ Record
  BY <1>1, <1>23 DEF ManagerChoose, ManagerConfirm, ManagerCancel, QuitSetup, KeepSetup,
                     KeepRecording, StopRecording, QueuesAction,
                     QuitRequest, ShowWindow, CloseWindow, Record,
                     Refuse, QuitStopped, QuitFails, QuitFinished, Finished, Exit, history
<1> QED BY <1>2, <1>3, <1>4, <1>5, <1>6, <1>7, <1>8, <1>9, <1>10, <1>11, <1>12, <1>13,
           <1>14, <1>15, <1>16, <1>17, <1>18, <1>19, <1>20, <1>21, <1>22, <1>23 DEF Steps

LEMMA OffStep ==
  ASSUME ShellInv, Steps
  PROVE  OffInv'
<1> USE DEF stored, starter, child, windows, control, history
<1>0. OffInv BY DEF ShellInv
<1>1. CASE Open BY <1>1 DEF Open, On, OffInv
<1>2. CASE Reinstall BY <1>0, <1>2 DEF Reinstall, On, OffInv
<1>3. CASE On /\ UNCHANGED app BY <1>3 DEF On, OffInv
<1>4. CASE Splash \/ Consume \/ SetupOpens \/ SetupCloses \/ Prepared \/ PrepareFails
        \/ Select \/ Launch \/ Ready \/ Bound \/ Verified \/ AttemptFails
        \/ AttemptStopped \/ AttemptStuck \/ ConfirmPort \/ CancelPort
        \/ SavePort \/ Session \/ Shell \/ Load \/ ShellFails \/ BackendExits
  BY <1>3, <1>4 DEF Splash, Consume, SetupOpens, SetupCloses, Prepared, PrepareFails,
                    Select, Launch, Ready, Bound, Verified,
                    AttemptFails, AttemptStopped, AttemptStuck,
                    ConfirmPort, CancelPort, SavePort, Session, Shell, Load,
                    ShellFails, BackendExits
<1>5. CASE RendererGone \/ FailureStopped \/ FailureStuck \/ FailureClosed \/ FailureAnswer \/ FailureConfirm
        \/ MenuManager \/ ManagerReads \/ ManagerFails \/ ManagerClosed \/ ManagerChoose
        \/ ManagerConfirm \/ ManagerCancel \/ QuitSetup \/ KeepSetup \/ StopSetup
        \/ KeepRecording \/ StopRecording \/ QuitStopped \/ QuitFails \/ QueuesAction \/ QuitRequest
        \/ ShowWindow \/ CloseWindow \/ Record
  BY <1>3, <1>5 DEF RendererGone, FailureStopped, FailureStuck, FailureClosed, FailureAnswer,
                    FailureConfirm, MenuManager, ManagerReads,
                    ManagerFails, ManagerClosed, ManagerChoose, ManagerConfirm,
                    ManagerCancel, QuitSetup, KeepSetup, StopSetup,
                    KeepRecording, StopRecording, QueuesAction,
                    QuitRequest, ShowWindow, CloseWindow, Record,
                    QuitStopped, QuitFails, QuitFinished, Finished, Exit
<1> QED BY <1>1, <1>2, <1>4, <1>5 DEF Steps

LEMMA LateStep ==
  ASSUME ShellInv, Steps
  PROVE  LateInv'
<1> USE DEF stored, starter, child, windows, control, history
<1>0. /\ OffInv /\ LateInv
      /\ screen'.win # "none" => screen.win # "none" \/ pc' \in {"load", "ready"}
      /\ mgr'.at # "no" => mgr.at # "no" \/ screen.win # "none" \/ failing = "ask"
      /\ jar'.own => jar.own \/ pc' \in {"cookie", "load"}
  BY ScreenStep, ManagerStepFacts, JarStep, JarType DEF ShellInv, RecordTypes
<1>1. CASE Open \/ Reinstall
  BY <1>0, <1>1, ShellAssumption DEF Open, Reinstall, LateInv, Late, Preparing, OffInv,
     Actions
<1>2. CASE Splash \/ Consume \/ SetupOpens \/ SetupCloses \/ Prepared \/ Select
  BY <1>0, <1>2, ShellAssumption DEF Splash, Consume, SetupOpens, SetupCloses, Prepared,
     Select, LateInv, Late, Preparing, OffInv, Actions
<1>3. CASE Launch \/ Ready \/ Bound \/ Verified \/ AttemptFails \/ ConfirmPort \/ SavePort
  BY <1>0, <1>3, ShellAssumption DEF Launch, Ready, Bound, Verified, AttemptFails,
     ConfirmPort, SavePort, LateInv, Late, Preparing, OffInv, Actions
<1>4. CASE PrepareFails
  BY <1>0, <1>4, ShellAssumption DEF PrepareFails, StartEnds, CoreFailure, AppQuit, LateInv,
     Late, Preparing, OffInv, Actions
<1>5. CASE AttemptStopped
  BY <1>0, <1>5, ShellAssumption DEF AttemptStopped, StartEnds, CoreFailure, AppQuit, LateInv,
     Late, Preparing, OffInv, Actions
<1>6. CASE AttemptStuck \/ CancelPort \/ ShellFails
  BY <1>0, <1>6, ShellAssumption DEF AttemptStuck, StartEnds, CoreFailure, AppQuit,
     CancelPort, ShellFails, LateInv, Late, Preparing, OffInv, Actions
<1>7. CASE Session \/ Shell \/ Load \/ RendererGone
  BY <1>0, <1>7, ShellAssumption DEF Session, Shell, Load, RendererGone, CoreFailure, LateInv, Late,
     Preparing, OffInv, Actions
<1>8. CASE BackendExits
  BY <1>0, <1>8, ShellAssumption DEF BackendExits, CoreFailure, Stopped, LateInv, Late,
     Preparing, OffInv, Actions
<1>9. CASE FailureStopped \/ FailureStuck \/ FailureClosed
  BY <1>0, <1>9, ShellAssumption DEF FailureStopped, AppQuit, FailureStuck, FailureClosed, FailureFails,
     LateInv, Late, Preparing, OffInv, Actions
<1>10. CASE FailureAnswer \/ FailureConfirm
  BY <1>0, <1>10, ShellAssumption DEF FailureAnswer, Restart, AppQuit, FailureConfirm,
     LateInv, Late, Preparing, OffInv, Actions
<1>11. CASE MenuManager \/ ManagerReads \/ ManagerFails \/ ManagerClosed \/ ManagerChoose
  BY <1>0, <1>11, ShellAssumption DEF MenuManager, ManagerReads, ManagerFails, ManagerClosed, FailureFails,
     AppQuit, ManagerChoose, LateInv, Late, Preparing, OffInv, Actions
<1>12. CASE ManagerConfirm \/ ManagerCancel
  BY <1>0, <1>12, ShellAssumption DEF ManagerConfirm, Restart, AppQuit, ManagerCancel,
     LateInv, Late, Preparing, OffInv, Actions
<1>13. CASE QuitSetup \/ KeepSetup \/ KeepRecording \/ StopRecording
  BY <1>0, <1>13, ShellAssumption DEF QuitSetup, Refuse, Proceed, QuitCapture, KeepSetup,
     KeepRecording, StopRecording, LateInv, Late, Preparing, OffInv, Actions
<1>14. CASE StopSetup
  BY <1>0, <1>14, ShellAssumption DEF StopSetup, Proceed, LateInv, Late, Preparing, OffInv,
     Actions
<1>15. CASE QuitStopped \/ QuitFails \/ QueuesAction
  BY <1>0, <1>15, ShellAssumption DEF QuitStopped, QuitFails, QueuesAction, QuitFinished, Finished, Exit, LateInv, Late,
     Preparing, OffInv, Actions
<1>16. CASE QuitRequest \/ ShowWindow \/ CloseWindow \/ Record
  BY <1>0, <1>16, ShellAssumption DEF QuitRequest, AppQuit, ShowWindow, CloseWindow, Record,
     LateInv, Late, Preparing, OffInv, Actions
<1> QED BY <1>1, <1>2, <1>3, <1>4, <1>5, <1>6, <1>7, <1>8, <1>9, <1>10, <1>11, <1>12, <1>13,
           <1>14, <1>15, <1>16 DEF Steps

LEMMA BackStep ==
  ASSUME ShellInv, Steps
  PROVE  BackInv'
<1> USE DEF stored, starter, child, windows, control, history
<1>0. /\ OffInv /\ LateInv /\ BackInv
      /\ mgr'.at # "no" /\ mgr'.owner = "failure" => failing' = "manager"
  BY ManagerStepFacts DEF ShellInv
<1>1. CASE Open \/ Reinstall
  BY <1>0, <1>1 DEF Open, Reinstall, BackInv, Stopped, LateInv, Late, OffInv
<1>2. CASE Splash \/ Consume \/ SetupOpens \/ SetupCloses \/ Prepared \/ Select
  BY <1>0, <1>2 DEF Splash, Consume, SetupOpens, SetupCloses, Prepared, Select, BackInv,
     Stopped, LateInv, Late, OffInv
<1>3. CASE Launch \/ Ready \/ Bound \/ Verified \/ AttemptFails \/ ConfirmPort \/ SavePort
  BY <1>0, <1>3 DEF Launch, Ready, Bound, Verified, AttemptFails, ConfirmPort, SavePort,
     BackInv, Stopped, LateInv, Late, OffInv
<1>4. CASE PrepareFails
  BY <1>0, <1>4 DEF PrepareFails, StartEnds, CoreFailure, AppQuit, BackInv, Stopped, LateInv,
     Late, OffInv
<1>5. CASE AttemptStopped
  BY <1>0, <1>5 DEF AttemptStopped, StartEnds, CoreFailure, AppQuit, BackInv, Stopped,
     LateInv, Late, OffInv
<1>6. CASE AttemptStuck \/ CancelPort \/ ShellFails
  BY <1>0, <1>6 DEF AttemptStuck, StartEnds, CoreFailure, AppQuit, CancelPort, ShellFails,
     BackInv, Stopped, LateInv, Late, OffInv
<1>7. CASE Session \/ Shell \/ Load \/ RendererGone
  BY <1>0, <1>7 DEF Session, Shell, Load, RendererGone, CoreFailure, BackInv, Stopped, LateInv, Late,
     OffInv
<1>8. CASE BackendExits
  BY <1>0, <1>8 DEF BackendExits, CoreFailure, Stopped, BackInv, Stopped, LateInv, Late,
     OffInv
<1>9. CASE FailureStopped \/ FailureStuck \/ FailureClosed
  BY <1>0, <1>9 DEF FailureStopped, AppQuit, FailureStuck, FailureClosed, FailureFails, BackInv, Stopped,
     LateInv, Late, OffInv
<1>10. CASE FailureAnswer \/ FailureConfirm
  BY <1>0, <1>10 DEF FailureAnswer, Restart, AppQuit, FailureConfirm, BackInv, Stopped,
     LateInv, Late, OffInv
<1>11. CASE MenuManager \/ ManagerReads \/ ManagerFails \/ ManagerClosed \/ ManagerChoose
  BY <1>0, <1>11 DEF MenuManager, ManagerReads, ManagerFails, ManagerClosed, FailureFails, AppQuit,
     ManagerChoose, BackInv, Stopped, LateInv, Late, OffInv
<1>12. CASE ManagerConfirm \/ ManagerCancel
  BY <1>0, <1>12 DEF ManagerConfirm, Restart, AppQuit, ManagerCancel, BackInv, Stopped,
     LateInv, Late, OffInv
<1>13. CASE QuitSetup \/ KeepSetup \/ KeepRecording \/ StopRecording
  BY <1>0, <1>13 DEF QuitSetup, Refuse, Proceed, QuitCapture, KeepSetup, KeepRecording,
     StopRecording, BackInv, Stopped, LateInv, Late, OffInv
<1>14. CASE StopSetup
  BY <1>0, <1>14 DEF StopSetup, Proceed, BackInv, Stopped, LateInv, Late, OffInv
<1>15. CASE QuitStopped \/ QuitFails \/ QueuesAction
  BY <1>0, <1>15 DEF QuitStopped, QuitFails, QueuesAction, QuitFinished, Finished, Exit, BackInv, Stopped, LateInv, Late, OffInv
<1>16. CASE QuitRequest \/ ShowWindow \/ CloseWindow \/ Record
  BY <1>0, <1>16 DEF QuitRequest, AppQuit, ShowWindow, CloseWindow, Record, BackInv, Stopped,
     LateInv, Late, OffInv
<1> QED BY <1>1, <1>2, <1>3, <1>4, <1>5, <1>6, <1>7, <1>8, <1>9, <1>10, <1>11, <1>12, <1>13,
           <1>14, <1>15, <1>16 DEF Steps

LEMMA ShellStep == ShellInv /\ [Next]_vars => ShellInv'
<1> SUFFICES ASSUME ShellInv, [Next]_vars PROVE ShellInv'
  OBVIOUS
<1>1. CASE Steps
  <2>1. RecordTypes'
    BY <1>1, ScreenStep, ManagerStepFacts, PortSteps, JarStep, JarType
    DEF ShellInv, RecordTypes
  <2> QED BY <1>1, <2>1, OffStep, LateStep, BackStep, PortSteps DEF ShellInv
<1>2. CASE UNCHANGED vars
  <2> USE DEF vars, stored, starter, child, windows, control, history
  <2>1. RecordTypes' /\ OffInv' BY <1>2 DEF ShellInv, RecordTypes, OffInv, On
  <2>2. LateInv' BY <1>2 DEF ShellInv, LateInv, Late, Preparing
  <2>3. BackInv' BY <1>2 DEF ShellInv, BackInv, Stopped
  <2>4. PortInv' BY <1>2 DEF ShellInv, PortInv
  <2> QED BY <2>1, <2>2, <2>3, <2>4 DEF ShellInv
<1> QED BY <1>1, <1>2, EndOrStep

LEMMA ShellInit == Init => ShellInv
<1> SUFFICES ASSUME Init PROVE ShellInv
  OBVIOUS
<1> USE DEF Init
<1>1. RecordTypes BY FreshRecords DEF RecordTypes
<1>2. OffInv /\ LateInv BY FreshRecords DEF OffInv, LateInv, Late, Preparing
<1>3. BackInv /\ PortInv BY FreshRecords DEF BackInv, PortInv, Stopped
<1> QED BY <1>1, <1>2, <1>3 DEF ShellInv

LEMMA ShellInvariant == Spec => []ShellInv
BY ShellInit, ShellStep, PTL DEF Spec

-----------------------------------------------------------------------------
(* The theorems.                                                           *)

\* The process never has two backends, and none that runs while the user is
\* asked what to do about a failure (startWithPort, handleCoreFailure).
THEOREM BackendIsOne == Spec => []OneBackend
<1>1. ShellInv => OneBackend BY DEF ShellInv, BackInv, OneBackend
<1> QED BY <1>1, ShellInvariant, PTL

\* The application relaunches only when its backend has exited (before-quit).
THEOREM RestartsWait == Spec => RestartAfterStop
<1> DEFINE Waits == app' = "relaunch" /\ On => Stopped /\ strays = 0 /\ quit # "no"
<1>1. ShellInv /\ [Next]_vars => [Waits]_vars
  <2> SUFFICES ASSUME ShellInv, Next, app' = "relaunch", On
               PROVE  Stopped /\ strays = 0 /\ quit # "no"
    OBVIOUS
  <2>1. BackInv BY DEF ShellInv
  <2>2. CASE QuitFinished BY <2>1, <2>2 DEF QuitFinished, Finished, BackInv
  <2>3. CASE QuitQueued BY <2>1, <2>3 DEF QuitQueued, BackInv
  <2>4. ~Crash /\ ~QuitClosed /\ ~Open /\ ~Reinstall
    BY DEF Crash, QuitClosed, Exit, Open, Reinstall, On
  <2>5. CASE UNCHANGED app BY <2>5 DEF On
  <2>6. CASE Splash \/ Consume \/ SetupOpens \/ SetupCloses \/ Prepared \/ PrepareFails
         \/ Select \/ Launch \/ Ready \/ Bound \/ Verified \/ AttemptFails
         \/ AttemptStopped \/ AttemptStuck \/ ConfirmPort \/ CancelPort
         \/ SavePort \/ Session \/ Shell \/ Load \/ ShellFails
    BY <2>5, <2>6 DEF Splash, Consume, SetupOpens, SetupCloses, Prepared, PrepareFails,
                     Select, Launch, Ready, Bound, Verified,
                     AttemptFails, AttemptStopped, AttemptStuck,
                     ConfirmPort, CancelPort, SavePort, Session, Shell, Load,
                     ShellFails
  <2>7. CASE BackendExits \/ RendererGone \/ FailureStopped \/ FailureStuck \/ FailureClosed \/ FailureAnswer
         \/ FailureConfirm \/ MenuManager \/ ManagerReads \/ ManagerFails \/ ManagerClosed
         \/ ManagerChoose \/ ManagerConfirm \/ ManagerCancel \/ QuitSetup
         \/ KeepSetup \/ StopSetup \/ KeepRecording \/ StopRecording
         \/ QuitStopped \/ QuitFails \/ QuitRequest \/ ShowWindow \/ CloseWindow
         \/ Record
    BY <2>5, <2>7 DEF BackendExits, RendererGone, FailureStopped, FailureStuck, FailureClosed,
                     FailureAnswer, FailureConfirm, MenuManager,
                     ManagerReads, ManagerFails, ManagerClosed, ManagerChoose,
                     ManagerConfirm, ManagerCancel, QuitSetup,
                     KeepSetup, StopSetup, KeepRecording,
                     StopRecording, QuitStopped, QuitFails, QuitRequest, ShowWindow,
                     CloseWindow, Record
  <2> QED BY <2>2, <2>3, <2>4, <2>6, <2>7 DEF Next, CoreStep, PortStep, WindowStep, FailureStep,
             ManagerStep, QuitStep, UserStep
<1> QED BY <1>1, ShellInvariant, PTL DEF Spec, RestartAfterStop

\* A remembered port is replaced only by the one the backend bound and the user
\* agreed to remember (startWithPort, confirmPortChange of main.cjs).
THEOREM PortsAreAgreed == Spec => PortIsConsented
<1> DEFINE Agreed == savedPort' # savedPort
                       => savedPort' = net.actual /\ (savedPort = None \/ consent = savedPort')
<1>1. ShellInv /\ [Next]_vars => [Agreed]_vars
  <2> SUFFICES ASSUME ShellInv, Next, savedPort' # savedPort
               PROVE  savedPort' = net.actual /\ (savedPort = None \/ consent = savedPort')
    OBVIOUS
  <2>1. CASE SavePort BY <2>1 DEF SavePort, ShellInv, PortInv
  <2>2. CASE UNCHANGED savedPort BY <2>2
  <2>3. CASE Open \/ Reinstall \/ Splash \/ Consume \/ SetupOpens \/ SetupCloses \/ Prepared
         \/ PrepareFails \/ Select \/ Launch \/ Ready \/ Bound \/ Verified
         \/ AttemptFails \/ AttemptStopped \/ AttemptStuck \/ ConfirmPort
         \/ CancelPort \/ Session \/ Shell \/ Load \/ ShellFails \/ BackendExits
         \/ RendererGone
    BY <2>2, <2>3 DEF Open, Reinstall, Splash, Consume, SetupOpens, SetupCloses, Prepared,
                     PrepareFails, Select, Launch, Ready, Bound,
                     Verified, AttemptFails, AttemptStopped,
                     AttemptStuck, ConfirmPort, CancelPort, Session, Shell,
                     Load, ShellFails, BackendExits, RendererGone,
                     stored
  <2>4. CASE FailureStopped \/ FailureStuck \/ FailureClosed \/ FailureAnswer \/ FailureConfirm \/ MenuManager
         \/ ManagerReads \/ ManagerFails \/ ManagerClosed \/ ManagerChoose \/ ManagerConfirm
         \/ ManagerCancel \/ QuitSetup \/ KeepSetup \/ StopSetup
         \/ KeepRecording \/ StopRecording \/ QuitRequest \/ ShowWindow
         \/ CloseWindow \/ Record \/ Crash \/ QuitStopped \/ QuitFinished
         \/ QuitQueued \/ QuitFails \/ QuitClosed
    BY <2>2, <2>4 DEF FailureStopped, FailureStuck, FailureClosed, FailureAnswer, FailureConfirm,
                     MenuManager, ManagerReads, ManagerFails, ManagerClosed,
                     ManagerChoose, ManagerConfirm, ManagerCancel,
                     QuitSetup, KeepSetup, StopSetup, KeepRecording,
                     StopRecording, QuitRequest, ShowWindow,
                     CloseWindow, Record, Crash, QuitStopped,
                     QuitFinished, QuitQueued, QuitFails, QuitClosed, stored
  <2> QED BY <2>1, <2>3, <2>4 DEF Next, CoreStep, PortStep, WindowStep, FailureStep,
             ManagerStep, QuitStep, UserStep
<1> QED BY <1>1, ShellInvariant, PTL DEF Spec, PortIsConsented

\* No page meets a cookie of an earlier process (resetBrowserProfile).
THEOREM CookiesAreFresh == Spec => []NoStaleCookie
<1> DEFINE Fresh == pc \in {"load", "ready"} => ~jar.stale
<1>1. Init => Fresh BY DEF Init
<1>2. ShellInv /\ Fresh /\ [Next]_vars => Fresh'
  <2> SUFFICES ASSUME ShellInv, Fresh, [Next]_vars PROVE Fresh'
    OBVIOUS
  <2> USE DEF starter
  <2>0. jar \in [own : BOOLEAN, stale : BOOLEAN] BY DEF ShellInv, RecordTypes
  <2>1. CASE pc' = "ended" BY <2>1
  <2>2. CASE UNCHANGED vars BY <2>2 DEF vars
  <2>3. CASE Steps
    <3>1. pc' \in {"load", "ready"} => Shell \/ pc \in {"load", "ready"}
      <4>1. CASE pc' = pc BY <4>1
      <4>2. CASE Open \/ Splash \/ Consume \/ Prepared \/ PrepareFails \/ Select \/ Launch
              \/ Ready \/ Bound \/ Verified \/ AttemptFails \/ AttemptStopped
              \/ AttemptStuck \/ ConfirmPort \/ CancelPort \/ SavePort \/ Session \/ Shell
              \/ Load \/ ShellFails \/ StopSetup
        BY <4>2 DEF Open, Splash, Consume, Prepared, PrepareFails, Select, Launch, Ready,
                    Bound, Verified, AttemptFails, AttemptStopped, AttemptStuck,
                    ConfirmPort, CancelPort, SavePort, Session, Shell, Load, ShellFails,
                    StopSetup, StartEnds
      <4>3. CASE Reinstall \/ SetupOpens \/ SetupCloses \/ BackendExits \/ RendererGone
              \/ FailureStopped \/ FailureStuck \/ FailureClosed \/ FailureAnswer
              \/ FailureConfirm \/ MenuManager \/ ManagerReads \/ ManagerFails
              \/ ManagerClosed \/ ManagerChoose \/ ManagerConfirm \/ ManagerCancel
              \/ QuitSetup \/ KeepSetup \/ KeepRecording \/ StopRecording \/ QuitStopped
              \/ QuitFails \/ QueuesAction \/ QuitRequest \/ ShowWindow \/ CloseWindow
              \/ Record
        BY <4>1, <4>3 DEF Reinstall, SetupOpens, SetupCloses, BackendExits, RendererGone,
                    FailureStopped, FailureStuck, FailureClosed, FailureAnswer,
                    FailureConfirm, MenuManager, ManagerReads, ManagerFails,
                    ManagerClosed, ManagerChoose, ManagerConfirm, ManagerCancel,
                    QuitSetup, KeepSetup, KeepRecording, StopRecording, QuitStopped,
                    QuitFails, QueuesAction, QuitFinished, Exit, QuitRequest, ShowWindow,
                    CloseWindow, Record
      <4> QED BY <2>3, <4>2, <4>3 DEF Steps
    <3>2. Shell => ~jar'.stale BY DEF Shell
    <3> QED BY <2>0, <2>3, <3>1, <3>2, JarStep, JarType
  <2> QED BY <2>1, <2>2, <2>3, EndOrStep
<1>3. Fresh => NoStaleCookie BY DEF NoStaleCookie
<1> QED BY <1>1, <1>2, <1>3, ShellInvariant, PTL DEF Spec

=============================================================================
