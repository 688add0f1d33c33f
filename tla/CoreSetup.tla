----------------------------- MODULE CoreSetup ------------------------------
(***************************************************************************)
(* Preparing the environments of the desktop backends, and the Windows     *)
(* shortcuts: desktop/setup.cjs, installer.cjs, installer-shortcuts.cjs    *)
(* and squirrel-events.cjs. One run serves one request:                    *)
(*                                                                         *)
(*   "install"    runInstaller, for the modes that were chosen             *)
(*   "uninstall"  runInstaller, perhaps with the cleanup of environments   *)
(*   "app"        what start() of the application awaits                   *)
(*                (preparePackagedBackend, or manageCore with an action)   *)
(*   "squirrel_install", "squirrel_uninstall"  handleSquirrelEvent         *)
(*                                                                         *)
(* The run executes programs one after the other (kid), and may be         *)
(* interrupted at every await: the user closes the progress window or      *)
(* quits, the installer that owns the run exits, a program hangs.          *)
(***************************************************************************)
EXTENDS Naturals

CONSTANTS
  Mode,    \* backends: WINDOWS_MODES
  Folder   \* where shortcuts are put

VARIABLES
  request,   \* what this run is asked
  pc,        \* the program or dialog it awaits, or what it does next
  todo,      \* modes to prepare or clean up, the current one included
  kid,       \* the program: "none", "run", or "abort": told to end
  canceled,  \* setup.cjs's canceled
  win,       \* number of the progress window, 0 when there is none
  opened,    \* progress windows so far
  ask,       \* number of the window whose cancel dialog is open, 0 for none
  quitting,  \* "no", "asked", or "yes": before-quit was allowed
  parent,    \* the watched installer: "unknown", "alive", "lost"
  saved,     \* modes whose launcher.json is written
  reset,     \* modes whose Core source is reset
  link,      \* shortcuts: "none", "ours", "foreign"
  plan,      \* shortcuts not dealt with yet
  result,    \* "none", "complete" (0), "failed" (1), "canceled" (2)
  made,      \* history: shortcuts written
  meant      \* history: the user canceled a preparation that was going on

run     == <<request, todo>>
process == <<kid, canceled>>
asking  == <<win, opened, ask, quitting, meant>>
stored  == <<saved, reset>>
links   == <<link, plan, made>>
vars == <<run, pc, process, asking, parent, stored, links, result>>

Shortcut == Mode \X Folder
Installer == request.kind \in {"install", "uninstall"}
Squirrel  == request.kind \in {"squirrel_install", "squirrel_uninstall"}
Wanted(s) == s[1] \in request.modes

Requests ==
  [kind : {"install"}, modes : SUBSET Mode \ {{}}, cleanup : {FALSE}]
    \cup [kind : {"uninstall"}, modes : {{}}, cleanup : BOOLEAN]
    \cup [kind : {"app"}, modes : {{m} : m \in Mode}, cleanup : {FALSE}]
    \cup [kind : {"squirrel_install"}, modes : {Mode}, cleanup : {FALSE}]
    \cup [kind : {"squirrel_uninstall"}, modes : {{}}, cleanup : {FALSE}]

Init ==
  /\ request \in Requests
  /\ todo = IF request.cleanup THEN Mode ELSE request.modes
  /\ pc = IF Installer THEN "watch" ELSE IF Squirrel THEN "squirrel" ELSE "probe"
  /\ kid = IF request.kind = "app" THEN "run" ELSE "none"
  /\ canceled = FALSE /\ win = 0 /\ opened = 0 /\ ask = 0 /\ quitting = "no"
  /\ parent = "unknown" /\ saved = {} /\ reset = {}
  /\ link \in [Shortcut -> {"none", "ours", "foreign"}]
  /\ plan = IF Squirrel THEN Shortcut ELSE {}
  /\ result = "none" /\ made = {} /\ meant = FALSE

Going == pc # "done"

Finish(how) == pc' = "done" /\ result' = how

-----------------------------------------------------------------------------
(* Programs.                                                               *)

\* Where the run awaits a program.
Executing == {"probe", "check", "prepare", "inventory", "detach"}

\* execute: nothing is started any more once the setup is canceled.
Execute(at) ==
  IF canceled THEN pc' = "error" /\ UNCHANGED kid ELSE pc' = at /\ kid' = "run"

\* cancelSetup: a program is told to end, by closing its input.
Cancel == canceled' = TRUE /\ kid' = IF kid = "run" THEN "abort" ELSE kid

\* Its time is over, or it answers out of protocol.
KidAborts ==
  /\ Going /\ kid = "run" /\ kid' = "abort"
  /\ UNCHANGED <<run, pc, canceled, asking, parent, stored, links, result>>

\* The execution rejects: the program failed, or was aborted and has closed,
\* or is killed 25 seconds after the abort. After an interpreter that cannot
\* be used the next one is probed, then the user selects one (a distribution once
\* they are listed); after a cleanup that fails comes the next mode. The progress
\* window goes.
KidFails ==
  /\ Going /\ kid # "none" /\ win' = 0
  /\ \/ pc = "probe" /\ ~canceled /\ pc' = "probe" /\ kid' = "run" /\ UNCHANGED todo
     \/ pc = "probe" /\ ~canceled /\ pc' = "select" /\ kid' = "none" /\ UNCHANGED todo
     \/ pc \in {"probe", "check", "prepare"} /\ pc' = "error" /\ kid' = "none" /\ UNCHANGED todo
     \/ /\ pc \in {"inventory", "detach"} /\ pc' = "clean" /\ kid' = "none"
        /\ \E m \in todo : todo' = todo \ {m}
  /\ UNCHANGED <<request, canceled, opened, ask, quitting, meant, parent, stored, links, result>>

-----------------------------------------------------------------------------
(* preparePackagedBackend and manageCore, for a mode of todo.              *)

Alive == Installer => parent = "alive"    \* ensureAlive does not throw

\* performMaintenance takes the next mode, or goes on to the shortcuts.
NextMode ==
  /\ Going /\ pc = "mode"
  /\ IF ~Alive THEN pc' = "error" /\ UNCHANGED kid
     ELSE IF todo = {} THEN pc' = "links" /\ UNCHANGED kid
     ELSE Execute("probe")
  /\ UNCHANGED <<run, canceled, asking, parent, stored, links, result>>

\* runPreparation opens its window and loads it.
OpenWindow == pc' = "window" /\ win' = opened + 1 /\ opened' = opened + 1

\* A usable interpreter, or distribution: it runs the bootstrap, or for an
\* action on the Core source the preparation.
Probed ==
  /\ Going /\ pc = "probe" /\ kid = "run"
  /\ \/ pc' = "check" /\ UNCHANGED <<kid, win, opened>>
     \/ request.kind = "app" /\ OpenWindow /\ kid' = "none"
  /\ UNCHANGED <<run, canceled, ask, quitting, meant, parent, stored, links, result>>

\* The user selects an interpreter or a distribution, or cancels.
Select ==
  /\ Going /\ pc = "select"
  /\ Execute("probe") \/ (pc' = "error" /\ UNCHANGED kid)
  /\ UNCHANGED <<run, canceled, asking, parent, stored, links, result>>

\* The bootstrap finds the environment, or asks the user to create it.
Checked ==
  /\ Going /\ pc = "check" /\ kid = "run" /\ kid' = "none" /\ pc' \in {"save", "offer"}
  /\ UNCHANGED <<run, canceled, asking, parent, stored, links, result>>

Offer ==
  /\ Going /\ pc = "offer"
  /\ OpenWindow \/ (pc' = "error" /\ UNCHANGED <<win, opened>>)
  /\ UNCHANGED <<run, process, ask, quitting, meant, parent, stored, links, result>>

WindowLoads ==
  /\ Going /\ pc = "window" /\ Execute("prepare")
  /\ win' = IF canceled THEN 0 ELSE win
  /\ UNCHANGED <<run, canceled, opened, ask, quitting, meant, parent, stored, links, result>>

\* The environment is there; the window goes before the answer is validated.
EnvironmentMade ==
  /\ Going /\ pc = "prepare" /\ kid = "run" /\ kid' = "none" /\ win' = 0 /\ pc' = "save"
  /\ UNCHANGED <<run, canceled, opened, ask, quitting, meant, parent, stored, links, result>>

\* The answer is valid and launcher.json is written, or not.
Save ==
  /\ Going /\ pc = "save"
  /\ \/ \E m \in todo :
          /\ saved' = saved \cup {m}
          /\ IF Installer THEN pc' = (IF Alive THEN "reset" ELSE "error") /\ UNCHANGED result
                          ELSE Finish("complete")
     \/ pc' = "error" /\ UNCHANGED <<saved, result>>
  /\ UNCHANGED <<run, process, asking, parent, reset, links>>

\* Fault: a store that cannot be reset is passed over.
Faulty_Reset ==
  /\ Going /\ pc = "reset"
  /\ todo' = todo \ saved /\ pc' = "mode" /\ reset' \in {reset, saved}
  /\ UNCHANGED <<request, process, asking, parent, saved, links, result>>

\* The installer returns the mode to the bundled Core.
Reset ==
  /\ Going /\ pc = "reset"
  /\ \/ reset' = saved /\ todo' = todo \ saved /\ pc' = "mode"
     \/ pc' = "error" /\ UNCHANGED <<reset, todo>>
  /\ UNCHANGED <<request, process, asking, parent, saved, links, result>>

-----------------------------------------------------------------------------
(* cleanupManagedVenvs, for each mode; its failures are only reported.     *)

Clean ==
  /\ Going /\ pc = "clean"
  /\ IF ~Alive THEN pc' = "error" /\ UNCHANGED <<kid, todo>>
     ELSE IF todo = {} THEN pc' = "report" /\ UNCHANGED <<kid, todo>>
     ELSE \/ ~canceled /\ Execute("inventory") /\ UNCHANGED todo
          \/ \E m \in todo : todo' = todo \ {m} /\ UNCHANGED <<pc, kid>>
  /\ UNCHANGED <<request, canceled, asking, parent, stored, links, result>>

\* Environments to move aside are shown first.
Inventoried ==
  /\ Going /\ pc = "inventory" /\ kid = "run" /\ kid' = "none"
  /\ \/ pc' = "consent" /\ UNCHANGED todo
     \/ pc' = "clean" /\ \E m \in todo : todo' = todo \ {m}
  /\ UNCHANGED <<request, canceled, asking, parent, stored, links, result>>

Consent ==
  /\ Going /\ pc = "consent"
  /\ \/ ~canceled /\ Execute("detach") /\ UNCHANGED todo
     \/ pc' = "clean" /\ UNCHANGED kid /\ \E m \in todo : todo' = todo \ {m}
  /\ UNCHANGED <<request, canceled, asking, parent, stored, links, result>>

Detached ==
  /\ Going /\ pc = "detach" /\ kid = "run" /\ kid' = "none"
  /\ pc' = "clean" /\ \E m \in todo : todo' = todo \ {m}
  /\ UNCHANGED <<request, canceled, asking, parent, stored, links, result>>

Report ==
  /\ Going /\ pc = "report" /\ pc' = IF Alive THEN "links" ELSE "error"
  /\ UNCHANGED <<run, process, asking, parent, stored, links, result>>

-----------------------------------------------------------------------------
(* Shortcuts.                                                              *)

\* applyShortcuts looks at every shortcut before it writes one. A name that
\* matches is not ownership.
Plan ==
  /\ Going /\ pc = "links"
  /\ IF \E s \in Shortcut : Wanted(s) /\ link[s] = "foreign"
     THEN pc' = "error" /\ UNCHANGED plan
     ELSE pc' = "apply" /\ plan' = {s \in Shortcut : Wanted(s) \/ link[s] = "ours"}
  /\ UNCHANGED <<run, process, asking, parent, stored, link, made, result>>

Put(s)    == link' = [link EXCEPT ![s] = "ours"] /\ made' = made \cup {s}
Remove(s) == link' = [link EXCEPT ![s] = "none"] /\ UNCHANGED made

\* One shortcut is written or put in the trash, or that fails.
Apply ==
  /\ Going /\ pc = "apply"
  /\ \/ /\ plan # {} /\ UNCHANGED <<pc, result>>
        /\ \E s \in plan : plan' = plan \ {s} /\ IF Wanted(s) THEN Put(s) ELSE Remove(s)
     \/ plan # {} /\ pc' = "error" /\ UNCHANGED <<links, result>>
     \/ /\ plan = {} /\ UNCHANGED links
        /\ IF Alive THEN Finish("complete") ELSE pc' = "error" /\ UNCHANGED result
  /\ UNCHANGED <<run, process, asking, parent, stored>>

\* handleSquirrelEvent looks at each when its turn comes: an update stops at a
\* shortcut that is not its own, an uninstall passes over it.
SquirrelApply ==
  /\ Going /\ pc = "squirrel"
  /\ \/ \E s \in plan :
          /\ plan' = plan \ {s} /\ UNCHANGED <<pc, result>>
          /\ IF request.kind = "squirrel_install" THEN link[s] # "foreign" /\ Put(s)
             ELSE IF link[s] = "ours" THEN Remove(s) ELSE UNCHANGED <<link, made>>
     \/ plan # {} /\ Finish("failed") /\ UNCHANGED links
     \/ plan = {} /\ Finish("complete") /\ UNCHANGED links
  /\ UNCHANGED <<run, process, asking, parent, stored>>

-----------------------------------------------------------------------------
(* The owner of the run.                                                   *)

\* watchInstaller: PowerShell holds the installer and says so.
ParentWatched ==
  /\ Going /\ pc = "watch" /\ parent' = "alive"
  /\ pc' = IF request.kind = "install" THEN "mode" ELSE IF request.cleanup THEN "clean" ELSE "links"
  /\ UNCHANGED <<run, process, asking, stored, links, result>>

\* The installer exits, or cannot be watched: onLost stops the setup.
ParentLost ==
  /\ Going /\ Installer /\ parent # "lost" /\ parent' = "lost" /\ Cancel
  /\ pc' = IF pc = "watch" THEN "error" ELSE pc
  /\ UNCHANGED <<run, asking, stored, links, result>>

\* Fault: the process exits without waiting for the program.
Faulty_LossExits ==
  /\ Going /\ parent = "lost" /\ Finish("canceled")
  /\ UNCHANGED <<run, process, asking, parent, stored, links>>

\* stopSetup waits for the program to end before the process exits.
LossExits ==
  /\ Going /\ parent = "lost" /\ kid = "none" /\ Finish("canceled")
  /\ UNCHANGED <<run, process, asking, parent, stored, links>>

\* An error stops the setup too; the dialog about it needs a live installer.
Fails ==
  /\ Going /\ pc = "error"
  /\ IF Installer
     THEN /\ Cancel /\ kid = "none"
          /\ \E how \in {"failed", "canceled"} : Finish(how)
     ELSE Finish("failed") /\ UNCHANGED process
  /\ UNCHANGED <<run, asking, parent, stored, links>>

-----------------------------------------------------------------------------
(* The user cancels.                                                       *)

\* The progress window does not close but asks.
CloseRequest ==
  /\ Going /\ win # 0 /\ ~canceled /\ ask = 0 /\ ask' = win
  /\ UNCHANGED <<run, pc, process, win, opened, quitting, meant, parent, stored, links, result>>

\* confirmSetupQuit: asked only while there is a window, one dialog at a time.
QuitRequest ==
  /\ Going /\ ~Squirrel /\ quitting = "no"
  /\ IF win = 0 \/ canceled THEN quitting' = "yes" /\ Cancel /\ UNCHANGED ask
     ELSE /\ quitting' = "asked" /\ ask' = IF ask = 0 THEN win ELSE ask
          /\ UNCHANGED process
  /\ UNCHANGED <<run, pc, win, opened, meant, parent, stored, links, result>>

\* Fault: the answer is applied to whatever window there is.
Faulty_Confirmed == TRUE

\* An answer about a preparation that is over cancels nothing.
Confirmed == ask = win
Answer(cancels) ==
  /\ Going /\ ask # 0 /\ ask' = 0
  /\ IF cancels /\ Confirmed
     THEN Cancel /\ quitting' = IF quitting = "asked" THEN "yes" ELSE quitting
     ELSE quitting' = (IF quitting = "asked" THEN "no" ELSE quitting) /\ UNCHANGED process
  /\ meant' = (meant \/ (cancels /\ win = ask))
  /\ UNCHANGED <<run, pc, win, opened, parent, stored, links, result>>

\* The quit waits for the window to go, the installer's also for the program.
QuitExits ==
  /\ Going /\ quitting = "yes" /\ win = 0 /\ (Installer => kid = "none")
  /\ Finish("canceled")
  /\ UNCHANGED <<run, process, asking, parent, stored, links>>

-----------------------------------------------------------------------------
SetupStep ==
  \/ NextMode \/ KidAborts \/ KidFails \/ Probed \/ Select \/ Checked \/ Offer
  \/ WindowLoads \/ EnvironmentMade \/ Save \/ Reset
CleanupStep  == Clean \/ Inventoried \/ Consent \/ Detached \/ Report
ShortcutStep == Plan \/ Apply \/ SquirrelApply
OwnerStep    == ParentWatched \/ ParentLost \/ LossExits \/ Fails
UserStep     == CloseRequest \/ QuitRequest \/ QuitExits \/ \E c \in BOOLEAN : Answer(c)

Next == SetupStep \/ CleanupStep \/ ShortcutStep \/ OwnerStep \/ UserStep

Spec == Init /\ [][Next]_vars

(* A program told to end closes or is killed after 25 seconds; the run does *)
(* not stop of itself. Dialogs may stay open, programs run.                *)
FairSpec == Spec /\ WF_vars(kid = "abort" /\ KidFails) /\ WF_vars(LossExits)

-----------------------------------------------------------------------------
TypeOK ==
  /\ request \in Requests /\ todo \subseteq Mode
  /\ pc \in Executing \cup {"watch", "mode", "select", "offer", "window", "save", "reset", "clean",
                            "consent", "report", "links", "apply", "squirrel", "error", "done"}
  /\ kid \in {"none", "run", "abort"} /\ canceled \in BOOLEAN
  /\ opened \in Nat /\ win \in {0, opened} /\ ask \in 0 .. opened
  /\ quitting \in {"no", "asked", "yes"} /\ parent \in {"unknown", "alive", "lost"}
  /\ saved \subseteq Mode /\ reset \subseteq saved
  /\ link \in [Shortcut -> {"none", "ours", "foreign"}]
  /\ plan \subseteq Shortcut /\ made \subseteq Shortcut
  /\ result \in {"none", "complete", "failed", "canceled"} /\ meant \in BOOLEAN
  /\ kid # "none" => pc \in Executing \cup {"done"}

(* The installer writes a shortcut only when every mode that was chosen has *)
(* its environment, its launcher.json and the bundled Core, whatever was   *)
(* interrupted before (performMaintenance).                                *)
ShortcutsFollowSetup == request.kind = "install" /\ made # {} => request.modes \subseteq saved \cap reset

(* A shortcut of somebody else is never overwritten or removed, by the     *)
(* installer or by an update (applyShortcuts, handleSquirrelEvent).        *)
ForeignKept == [][\A s \in Shortcut : link[s] = "foreign" => link'[s] = "foreign"]_vars

(* Nothing is canceled but by a user who meant the preparation that was    *)
(* going on, by the loss of the installer, by a quit with nothing to ask   *)
(* about, or after an error: "Do not cancel a completed setup or apply its *)
(* stale answer to a subsequent window" (requestSetupCancel).              *)
CancelIsMeant == canceled => meant \/ parent = "lost" \/ quitting = "yes" \/ pc = "done"

(* The run leaves no program behind that was not told to end; an installer *)
(* none at all (stopSetup, confirmSetupQuit).                              *)
NothingLeftRunning == pc = "done" => kid = "none" \/ (kid = "abort" /\ ~Installer)

(* Exit code 0 means everything asked was done, in an order that no event  *)
(* of the owner or the user cut short.                                     *)
SuccessIsComplete ==
  result = "complete" =>
    /\ request.kind # "uninstall" => \A s \in Shortcut : Wanted(s) /\ ~(request.kind = "app") => link[s] = "ours"
    /\ ~Squirrel => request.modes \subseteq saved
    /\ Installer => \A s \in Shortcut : ~Wanted(s) => link[s] # "ours"

(* Once the installer is gone, the process that served it exits, whatever  *)
(* dialog is open and whatever program hangs (onLost).                     *)
LossEnds == parent = "lost" ~> pc = "done"
=============================================================================
