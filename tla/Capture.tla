------------------------------ MODULE Capture ------------------------------
(***************************************************************************)
(* Screen recordings and screenshots of the desktop application            *)
(* (desktop/capture.cjs, capture-file.cjs, capture-settings.cjs,           *)
(* recorder.js), with the handlers of desktop/main.cjs and toolbar.cjs     *)
(* that start, stop and ask about them.                                    *)
(*                                                                         *)
(* The main process runs one callback at a time, so a step is the code     *)
(* from one await to the next.  A recording has one main line, begin, stop *)
(* and finish in that order, whose place is step; beside it run the timer  *)
(* that drains the recorder page, a pause or resume under way, a           *)
(* screenshot, and the confirmation of a close or a quit.  Every await on  *)
(* a page is bounded by a timeout, so it may fail at any time.             *)
(*                                                                         *)
(* Chunks of video are counted, not kept: the file of a recording is whole *)
(* if as many were written as the encoder made.  Faulty_X is X with a      *)
(* plausible fault; the specification does not refer to it.                *)
(***************************************************************************)
EXTENDS Naturals

CONSTANTS
  MaxMade,    \* bound: chunks of one recording
  MaxQueue    \* MAX_QUEUE_BYTES of the recorder page, in chunks

ASSUME CaptureAssumption ==
  MaxMade \in Nat /\ MaxQueue \in Nat \ {0}

VARIABLES
  state,        \* DesktopCapture.state
  outcome,      \* job.result of the last recording begun, "none" until it is known
  step,         \* where the main line of the recording waits
  error,        \* job.error is set
  wanted,       \* a call of stop waits for the start
  kick,         \* a stop scheduled by a failed pump
  page,         \* the recorder window of the recording
  made,         \* chunks the encoder made (history)
  written,      \* chunks in the partial file
  drain,        \* the drain under way: job.pumping, or that of stop
  toggle,       \* pausePending: what it does, "stale" once its recording is over
  file,         \* what is on disk of the last recording begun
  folder,       \* folders for captures are configured
  dialog,       \* folderSelection: who has the folder dialog open
  window,       \* the application window
  confirm,      \* the confirmation under way
  closePending, \* a close waits for the confirmation
  quit          \* how far a quit has got

pageVars == <<page, made, written>>
folderVars == <<folder, dialog>>
winVars  == <<window, confirm, closePending, quit>>
vars == <<state, outcome, step, error, wanted, kick, page, made,
          written, drain, toggle, file, folder, dialog, window, confirm,
          closePending, quit>>

-----------------------------------------------------------------------------
(* Records and initial state.                                              *)

Live    == {"recording", "paused"}
Active  == state # "idle"
Running == quit # "exited"

\* rec is the state of the MediaRecorder, queue and taken its waiting and
\* in-flight chunks, grant is grantPending, err the error of the page.
NoPage == [at |-> "none", rec |-> "off", queue |-> 0, taken |-> 0,
           grant |-> FALSE, err |-> FALSE]
NoDrain   == [owner |-> "none", at |-> "reply", n |-> 0, bad |-> FALSE, ended |-> FALSE]
NoConfirm == [at |-> "off", action |-> "close", about |-> "current"]

Init ==
  /\ state = "idle" /\ step = "none" /\ outcome = "none"
  /\ error = FALSE /\ wanted = FALSE /\ kick = FALSE
  /\ page = NoPage /\ made = 0 /\ written = 0
  /\ drain = NoDrain /\ toggle = "off"
  /\ file = "nothing" /\ folder \in BOOLEAN /\ dialog = "none"
  /\ window = "shown" /\ confirm = NoConfirm /\ closePending = FALSE /\ quit = "no"

-----------------------------------------------------------------------------
(* Parts of the main line.                                                 *)

\* What a call of stop does at once.
CallStop ==
  /\ wanted' = (wanted \/ state = "starting")
  /\ kick' = FALSE
  /\ IF state \in Live THEN state' = "stopping" /\ step' = "pump"
                       ELSE UNCHANGED <<state, step>>

\* The recorder window is not destroyed.
Faulty_Finish(publish) ==
  /\ UNCHANGED page
  /\ step' = IF publish THEN "publish" ELSE "close"

\* finish, up to its first await: the recorder window goes.
Finish(publish) ==
  /\ page' = NoPage
  /\ step' = IF publish THEN "publish" ELSE "close"

Fail == error' = TRUE /\ Finish(FALSE)

-----------------------------------------------------------------------------
(* Starting.                                                               *)

\* A confirmation or a pause under way is from now on about an earlier recording.
Start ==
  /\ state = "idle"
  /\ state' = "starting" /\ step' = "choose"
  /\ outcome' = "none" /\ file' = "nothing"
  /\ toggle' = IF toggle = "off" THEN "off" ELSE "stale"
  /\ confirm' = IF confirm.at # "off" /\ confirm.about = "current"
                THEN [confirm EXCEPT !.about = outcome] ELSE confirm
  /\ UNCHANGED <<error, wanted, kick, pageVars, drain, folderVars, window, closePending, quit>>

\* chooseFile: the configured folder if it can be used, or a dialog.
ChooseFolder ==
  /\ step = "choose"
  /\ \/ folder /\ step' = "open" /\ UNCHANGED dialog
     \/ IF dialog = "none" THEN step' = "dialog" /\ dialog' = "recording"
                           ELSE step' = "wait" /\ UNCHANGED dialog
  /\ UNCHANGED <<state, outcome, error, wanted, kick, pageVars, drain, toggle, file,
                 folder, winVars>>

\* A screenshot and Capture Settings choose folders too, in the same dialog;
\* what else they do touches nothing of a recording.
OtherDialog ==
  /\ dialog = "none" /\ dialog' = "other"
  /\ UNCHANGED <<state, outcome, step, error, wanted, kick, pageVars, drain, toggle, file,
                 folder, winVars>>

JobCancels ==
  /\ outcome' = "canceled"
  /\ state' = "idle" /\ step' = "none" /\ wanted' = FALSE
  /\ UNCHANGED <<error, page>>

\* The first folder chosen serves both formats.  Who waited for the dialog of
\* another reads the settings when it is over.
FolderAnswer ==
  /\ dialog # "none" /\ dialog' = "none"
  /\ \E answer \in {"chosen", "canceled", "refused"} :
       /\ folder' = (folder \/ answer = "chosen")
       /\ IF step \notin {"dialog", "wait"}
            THEN UNCHANGED <<state, outcome, step, error, wanted, page>>
          ELSE IF answer = "refused"
            THEN Fail /\ UNCHANGED <<state, outcome, wanted>>
          ELSE IF answer = "chosen" \/ (step = "wait" /\ folder)
            THEN step' = "open" /\ UNCHANGED <<state, outcome, error, wanted, page>>
            ELSE JobCancels
  /\ UNCHANGED <<kick, made, written, drain, toggle, file, winVars>>

\* The window is looked at, then CaptureFile.create refuses a name in use.
OpenFile ==
  /\ step = "open"
  /\ \/ Fail /\ UNCHANGED file
     \/ /\ window = "shown" /\ file = "nothing"
        /\ file' = "partial" /\ step' = "load"
        /\ page' = [NoPage EXCEPT !.at = "loading"]
        /\ UNCHANGED error
  /\ UNCHANGED <<state, outcome, wanted, kick, made, written, drain, toggle, folderVars, winVars>>

LoadPage ==
  /\ step = "load"
  /\ \/ Fail
     \/ /\ page.at = "loading" /\ step' = "record"
        /\ page' = [page EXCEPT !.at = "ready", !.grant = TRUE]
        /\ UNCHANGED error
  /\ UNCHANGED <<state, outcome, wanted, kick, made, written, drain, toggle, file,
                 folderVars, winVars>>

\* The page asks for the display; the request handler grants it once.
PageStarts ==
  /\ page.at = "ready" /\ page.rec = "off" /\ page.grant
  /\ page' = [page EXCEPT !.rec = "on", !.grant = FALSE]
  /\ UNCHANGED <<state, outcome, step, error, wanted, kick, made, written, drain, toggle,
                 file, folderVars, winVars>>

\* A stop that came during the start is forgotten.
Faulty_StartReply ==
  /\ step = "record"
  /\ \/ Fail /\ UNCHANGED state
     \/ /\ page.at = "ready" /\ page.rec # "off"
        /\ page' = [page EXCEPT !.grant = FALSE]
        /\ state' = "recording" /\ step' = "live" /\ UNCHANGED error
  /\ wanted' = IF step' = "close" THEN wanted ELSE FALSE
  /\ UNCHANGED <<outcome, kick, made, written, drain, toggle, file, folderVars, winVars>>

StartReply ==
  /\ step = "record"
  /\ \/ Fail /\ UNCHANGED state
     \/ /\ page.at = "ready" /\ page.rec # "off"
        /\ page' = [page EXCEPT !.grant = FALSE]
        /\ IF wanted THEN state' = "stopping" /\ step' = "pump"
                     ELSE state' = "recording" /\ step' = "live"
        /\ UNCHANGED error
  /\ wanted' = IF step' = "close" THEN wanted ELSE FALSE
  /\ UNCHANGED <<outcome, kick, made, written, drain, toggle, file, folderVars, winVars>>

-----------------------------------------------------------------------------
(* The recorder page.                                                      *)

\* dataavailable: a chunk is queued, or the queue is full and recording fails.
Queued(p) ==
  IF p.queue + p.taken < MaxQueue THEN [p EXCEPT !.queue = @ + 1]
                                  ELSE [p EXCEPT !.err = TRUE, !.rec = "stopped"]

PageChunk ==
  /\ page.at = "ready" /\ page.rec = "on" /\ made < MaxMade
  /\ made' = made + 1 /\ page' = Queued(page)
  /\ UNCHANGED <<state, outcome, step, error, wanted, kick, written, drain, toggle, file,
                 folderVars, winVars>>

\* The encoder fails or the source ends.
PageFails ==
  /\ page.at = "ready" /\ page.rec \in {"on", "paused"}
  /\ page' = [page EXCEPT !.err = TRUE, !.rec = "stopped"]
  /\ UNCHANGED <<state, outcome, step, error, wanted, kick, made, written, drain, toggle,
                 file, folderVars, winVars>>

\* render-process-gone
PageGone ==
  /\ page.at \in {"loading", "ready"}
  /\ page' = [NoPage EXCEPT !.at = "gone"]
  /\ error' = TRUE
  /\ IF state \in Live THEN CallStop ELSE UNCHANGED <<state, step, wanted, kick>>
  /\ UNCHANGED <<outcome, made, written, drain, toggle, file, folderVars, winVars>>

-----------------------------------------------------------------------------
(* Draining the page, by the timer or by stop.                             *)

DrainBegins(owner) ==
  /\ drain' = [NoDrain EXCEPT !.owner = owner, !.n = page.queue]
  /\ page' = [page EXCEPT !.queue = 0, !.taken = @ + page.queue]

Pump ==
  /\ state \in Live /\ drain.owner = "none"
  /\ DrainBegins("pump")
  /\ UNCHANGED <<state, outcome, step, error, wanted, kick, made, written, toggle, file,
                 folderVars, winVars>>

\* The end of a drain: the pump only notes an error and schedules a stop.
DrainEnds(bad) ==
  /\ drain' = NoDrain
  /\ error' = (error \/ bad)
  /\ IF drain.owner = "pump"
       THEN /\ kick' = (kick \/ (bad /\ state \in Live))
            /\ UNCHANGED <<page, step>>
       ELSE Finish(~bad) /\ UNCHANGED kick

\* Draining is not bounded by a timeout.
Faulty_DrainReply ==
  /\ drain.owner # "none" /\ drain.at = "reply" /\ page.at = "ready"
  /\ page' = [page EXCEPT !.taken = 0]
  /\ drain' = [drain EXCEPT !.at = "store", !.bad = page.err,
                            !.ended = (page.rec = "stopped")]
  /\ UNCHANGED <<state, outcome, step, error, wanted, kick, made, written, toggle, file,
                 folderVars, winVars>>

DrainReply ==
  /\ drain.owner # "none" /\ drain.at = "reply"
  /\ \/ /\ page.at = "ready"
        /\ page' = [page EXCEPT !.taken = 0]
        /\ drain' = [drain EXCEPT !.at = "store", !.bad = page.err,
                                  !.ended = (page.rec = "stopped")]
        /\ UNCHANGED <<error, kick, step>>
     \/ DrainEnds(TRUE)
  /\ UNCHANGED <<state, outcome, wanted, made, written, toggle, file, folderVars, winVars>>

DrainStore ==
  /\ drain.owner # "none" /\ drain.at = "store"
  /\ \/ /\ written' = written + drain.n
        /\ DrainEnds(drain.bad \/ (drain.ended /\ state \in Live))
     \/ DrainEnds(TRUE) /\ UNCHANGED written
  /\ UNCHANGED <<state, outcome, wanted, made, toggle, file, folderVars, winVars>>

Kick ==
  /\ kick /\ CallStop
  /\ UNCHANGED <<outcome, error, pageVars, drain, toggle, file, folderVars, winVars>>

-----------------------------------------------------------------------------
(* Stopping and publishing.                                                *)

\* stop does not wait for the drain of the timer.
Faulty_StopPump ==
  /\ step = "pump"
  /\ IF error THEN Finish(FALSE) ELSE step' = "page" /\ UNCHANGED page
  /\ UNCHANGED <<state, outcome, error, wanted, kick, made, written, drain, toggle, file,
                 folderVars, winVars>>

StopPump ==
  /\ step = "pump" /\ drain.owner # "pump"
  /\ IF error THEN Finish(FALSE) ELSE step' = "page" /\ UNCHANGED page
  /\ UNCHANGED <<state, outcome, error, wanted, kick, made, written, drain, toggle, file,
                 folderVars, winVars>>

\* The encoder stops, which may give a last chunk.
StopPage ==
  /\ step = "page"
  /\ \/ Fail /\ UNCHANGED made
     \/ /\ page.at = "ready" /\ step' = "drain" /\ UNCHANGED error
        /\ LET stopped == [page EXCEPT !.rec = "stopped"] IN
           \/ page' = stopped /\ UNCHANGED made
           \/ /\ page.rec # "stopped" /\ made < MaxMade
              /\ made' = made + 1 /\ page' = Queued(stopped)
  /\ UNCHANGED <<state, outcome, wanted, kick, written, drain, toggle, file, folderVars, winVars>>

StopDrain ==
  /\ step = "drain" /\ step' = "draining"
  /\ DrainBegins("stop")
  /\ UNCHANGED <<state, outcome, error, wanted, kick, made, written, toggle, file,
                 folderVars, winVars>>

\* CaptureFile.finish: the link never replaces a file, and links only what
\* was synced and closed.
Publish ==
  /\ step = "publish"
  /\ \/ /\ written > 0 /\ file = "partial"
        /\ file' = (IF written = made THEN "both" ELSE "broken")
        /\ step' = "unlink" /\ UNCHANGED error
     \/ error' = TRUE /\ step' = "close" /\ UNCHANGED file
  /\ UNCHANGED <<state, outcome, wanted, kick, pageVars, drain, toggle, folderVars, winVars>>

Unlink ==
  /\ step = "unlink" /\ step' = "close"
  /\ \/ file' = (IF file = "both" THEN "final" ELSE file) /\ UNCHANGED error
     \/ error' = TRUE /\ UNCHANGED file
  /\ UNCHANGED <<state, outcome, wanted, kick, pageVars, drain, toggle, folderVars, winVars>>

\* The handle is closed, and job.result says what happened.
Close ==
  /\ step = "close" /\ step' = "notify"
  /\ error' \in {error, error \/ file \in {"partial", "foreign_partial"}}
  /\ outcome' = IF error' THEN "failed" ELSE "saved"
  /\ UNCHANGED <<state, wanted, kick, pageVars, drain, toggle, file,
                 folderVars, winVars>>

\* The job object is dropped.
Notify ==
  /\ step = "notify" /\ step' = "none"
  /\ state' = "idle" /\ wanted' = FALSE
  /\ error' = FALSE /\ made' = 0 /\ written' = 0
  /\ UNCHANGED <<outcome, kick, page, drain, toggle, file, folderVars, winVars>>

-----------------------------------------------------------------------------
(* Pausing.                                                                *)

Toggle ==
  /\ toggle = "off" /\ state \in Live
  /\ toggle' = IF state = "recording" THEN "pause" ELSE "resume"
  /\ UNCHANGED <<state, outcome, step, error, wanted, kick, pageVars, drain, file,
                 folderVars, winVars>>

\* A pause that fails stops the recording it was for, if that still runs.
ToggleReply ==
  /\ toggle # "off" /\ toggle' = "off"
  /\ \/ /\ page.at = "ready" /\ toggle # "stale"
        /\ page' = IF page.rec \notin {"on", "paused"} THEN page
                   ELSE [page EXCEPT !.rec = IF toggle = "pause" THEN "paused" ELSE "on"]
        /\ state' = IF state \notin Live THEN state
                    ELSE IF toggle = "pause" THEN "paused" ELSE "recording"
        /\ UNCHANGED <<error, step, wanted, kick>>
     \/ /\ IF toggle # "stale" /\ Active THEN error' = TRUE /\ CallStop
                                     ELSE UNCHANGED <<error, state, step, wanted, kick>>
        /\ UNCHANGED page
  /\ UNCHANGED <<outcome, made, written, drain, file, folderVars, winVars>>

-----------------------------------------------------------------------------
(* The window, and the confirmation of a close or a quit.                  *)

\* Minimize, hide and full screen stop a recording, and so does a navigation.
Leave ==
  /\ window = "shown" /\ window' = "away" /\ CallStop
  /\ UNCHANGED <<outcome, error, pageVars, drain, toggle, file, folderVars, confirm,
                 closePending, quit>>

Return ==
  /\ window = "away" /\ window' = "shown"
  /\ UNCHANGED <<state, outcome, step, error, wanted, kick, pageVars, drain, toggle, file,
                 folderVars, confirm, closePending, quit>>

\* The stop button, the menu, or a navigation of the terminal page.
StopRequest ==
  /\ Active /\ CallStop
  /\ UNCHANGED <<outcome, error, pageVars, drain, toggle, file, folderVars, winVars>>

Ask(action) == confirm' = [at |-> "asking", action |-> action, about |-> "current"]

\* A window that may close is hidden if there is a tray.
Gone == window' \in {"closed", "away"}

CloseRequest ==
  /\ window # "closed" /\ ~closePending /\ confirm.at = "off"
  /\ IF Active THEN /\ quit = "no" /\ Ask("close") /\ closePending' = TRUE
                    /\ UNCHANGED <<window, quit>>
               ELSE Gone /\ UNCHANGED <<confirm, closePending, quit>>
  /\ UNCHANGED <<state, outcome, step, error, wanted, kick, pageVars, drain, toggle, file,
                 folderVars>>

QuitRequest ==
  /\ quit = "no" /\ confirm.at = "off"
  /\ IF Active THEN Ask("quit") /\ quit' = "asking"
               ELSE quit' = "shutting" /\ UNCHANGED confirm
  /\ UNCHANGED <<state, outcome, step, error, wanted, kick, pageVars, drain, toggle, file,
                 folderVars, window, closePending>>

\* confirmStop returns; a close that is allowed is tried again at once.
Decide(allowed) ==
  IF confirm.action = "quit"
  THEN /\ quit' = IF allowed THEN "shutting" ELSE "no"
       /\ confirm' = NoConfirm /\ UNCHANGED <<window, closePending>>
  ELSE /\ closePending' = (allowed /\ Active) /\ UNCHANGED quit
       /\ IF allowed /\ Active THEN Ask("close") /\ UNCHANGED window
          ELSE /\ confirm' = NoConfirm
               /\ IF allowed THEN Gone ELSE UNCHANGED window

\* The result of the recording that the confirmation is about.
Asked == IF confirm.about = "current" THEN outcome ELSE confirm.about

\* A failed save closes the window too.
Faulty_Allows == Asked # "none"

Allows == Asked \in {"canceled", "saved"}

\* Another recording has been started meanwhile.
Superseded == confirm.about # "current" /\ Active

\* The error dialog brings the window back.
Report ==
  /\ confirm' = [confirm EXCEPT !.at = "report"]
  /\ window' = IF window = "closed" THEN window ELSE "shown"
  /\ UNCHANGED <<closePending, quit>>

ConfirmKeep ==
  /\ confirm.at = "asking" /\ Decide(FALSE)
  /\ UNCHANGED <<state, outcome, step, error, wanted, kick, pageVars, drain, toggle, file,
                 folderVars>>

ConfirmStop ==
  /\ confirm.at = "asking"
  /\ IF window = "closed" \/ Superseded
       THEN Decide(FALSE) /\ UNCHANGED <<state, step, wanted, kick>>
     ELSE IF Asked # "none"
       THEN /\ IF Allows THEN Decide(TRUE) ELSE Report
            /\ UNCHANGED <<state, step, wanted, kick>>
     ELSE /\ CallStop /\ confirm' = [confirm EXCEPT !.at = "stopping"]
          /\ UNCHANGED <<window, closePending, quit>>
  /\ UNCHANGED <<outcome, error, pageVars, drain, toggle, file, folderVars>>

\* The stop that the confirmation waited for has returned.
ConfirmStopped ==
  /\ confirm.at = "stopping" /\ (state = "idle" \/ Superseded)
  /\ IF Superseded THEN Decide(FALSE)
     ELSE IF Allows THEN Decide(TRUE) ELSE Report
  /\ UNCHANGED <<state, outcome, step, error, wanted, kick, pageVars, drain, toggle, file,
                 folderVars>>

ConfirmReported ==
  /\ confirm.at = "report" /\ Decide(FALSE)
  /\ UNCHANGED <<state, outcome, step, error, wanted, kick, pageVars, drain, toggle, file,
                 folderVars>>

\* The backend has stopped and the application exits, pages and all.
Exit ==
  /\ quit = "shutting" /\ quit' = "exited"
  /\ page' = NoPage
  /\ UNCHANGED <<state, outcome, step, error, wanted, kick, made, written, drain, toggle,
                 file, folderVars, window, confirm, closePending>>

\* Another program creates a file under the name of a recording.
Foreign ==
  /\ Active
  /\ \/ file = "nothing" /\ file' = "foreign"
     \/ file = "partial" /\ file' = "foreign_partial"
  /\ UNCHANGED <<state, outcome, step, error, wanted, kick, pageVars, drain, toggle,
                 folderVars, winVars>>

-----------------------------------------------------------------------------
(* Specification.                                                          *)

JobStep ==
  \/ ChooseFolder \/ OpenFile \/ LoadPage \/ StartReply \/ DrainReply \/ DrainStore
  \/ StopPump \/ StopPage \/ StopDrain \/ Publish \/ Unlink \/ Close \/ Notify

PageStep == PageStarts \/ PageChunk \/ PageFails \/ PageGone

WindowStep ==
  \/ Leave \/ Return \/ StopRequest \/ CloseRequest \/ QuitRequest \/ Exit
  \/ ConfirmKeep \/ ConfirmStop \/ ConfirmStopped \/ ConfirmReported

Next ==
  /\ Running
  /\ \/ Start \/ OtherDialog \/ FolderAnswer \/ JobStep \/ PageStep \/ Pump \/ Kick
     \/ Toggle \/ ToggleReply \/ WindowStep \/ Foreign

Spec == Init /\ [][Next]_vars

\* Timeouts and the file system end every await of a recording; only a folder
\* dialog may stay open.
FairSpec == Spec /\ WF_vars(Running /\ JobStep) /\ WF_vars(Running /\ Kick)

-----------------------------------------------------------------------------
(* Properties.                                                             *)

\* Every variable has its type.
TypeOK ==
  /\ state \in {"idle", "starting", "stopping"} \cup Live
  /\ outcome \in {"none", "canceled", "saved", "failed"}
  /\ step \in {"none", "choose", "dialog", "wait", "open", "load", "record", "live",
               "pump", "page", "drain", "draining", "publish", "unlink", "close", "notify"}
  /\ error \in BOOLEAN /\ wanted \in BOOLEAN /\ kick \in BOOLEAN
  /\ page \in [at : {"none", "loading", "ready", "gone"},
               rec : {"off", "on", "paused", "stopped"}, queue : 0..MaxQueue,
               taken : 0..MaxQueue, grant : BOOLEAN, err : BOOLEAN]
  /\ made \in Nat /\ written \in Nat
  /\ drain \in [owner : {"none", "pump", "stop"}, at : {"reply", "store"},
                n : 0..MaxQueue, bad : BOOLEAN, ended : BOOLEAN]
  /\ toggle \in {"off", "pause", "resume", "stale"}
  /\ file \in {"nothing", "partial", "both", "final", "foreign", "foreign_partial", "broken"}
  /\ folder \in BOOLEAN /\ dialog \in {"none", "recording", "other"}
  /\ window \in {"shown", "away", "closed"}
  /\ confirm \in [at : {"off", "asking", "stopping", "report"}, action : {"close", "quit"},
                  about : {"current", "canceled", "saved", "failed"}]
  /\ closePending \in BOOLEAN /\ quit \in {"no", "asking", "shutting", "exited"}

\* Once a recording is over nothing of it is left running: no recorder page, no
\* grant, no drain; and a recorder page is there only for a recording that has
\* a file to write to (finish, begin).
NothingLeftRunning ==
  /\ state = "idle" => page = NoPage /\ drain = NoDrain /\ step = "none"
  /\ page.at # "none" => file \notin {"nothing", "foreign"} /\ outcome = "none"

\* What capture.cjs does is what it promises: one recording at a time, a truthful
\* and final outcome, nobody's file replaced, nothing written taken away.
Promise == INSTANCE RecordingPromise WITH active <- Active
KeepsPromise == Promise!Spec

\* A close that was asked about goes through only if the recording it was asked
\* about was saved or canceled, and never while another one runs (confirmStop).
CloseAfterSave ==
  [][confirm.at # "off" /\ window' = "closed" /\ window # "closed"
       => state' = "idle" /\ Asked \in {"saved", "canceled"}]_vars

\* A recording whose window is hidden or minimized does not go on: it stops and
\* saves (main.cjs).
HiddenStops ==
  (window = "away" /\ state \in Live) ~> (state = "idle" \/ quit = "exited")

\* A stop comes to its end, whatever page, pump or pause it meets.
StopEnds == (state = "stopping") ~> (state = "idle" \/ quit = "exited")

\* desktop/README.md: quitting asks whether to keep the window open or stop and
\* save.  So no recording is under way when the application exits.
NoRecordingLost == quit = "exited" /\ Active => outcome # "none"

=============================================================================
