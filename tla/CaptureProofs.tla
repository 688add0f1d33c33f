--------------------------- MODULE CaptureProofs ----------------------------
(***************************************************************************)
(* Theorems about Capture, for any length of a recording and any queue:    *)
(* what the component does is what RecordingPromise promises.              *)
(***************************************************************************)
EXTENDS Capture, TLAPS

Rec == [at : {"none", "loading", "ready", "gone"},
        rec : {"off", "on", "paused", "stopped"}, queue : Nat,
        taken : Nat, grant : BOOLEAN, err : BOOLEAN]
Batch == [owner : {"none", "pump", "stop"}, at : {"reply", "store"}, n : Nat,
          bad : BOOLEAN, ended : BOOLEAN]

Beginning == {"choose", "dialog", "wait", "open"}
Capturing == {"load", "record", "live", "pump", "page", "drain", "draining"}
Ending    == {"publish", "unlink", "close", "notify"}

CountTypes ==
  /\ made \in Nat /\ written \in Nat /\ page \in Rec /\ drain \in Batch
  /\ error \in BOOLEAN

(* Where the main line is says whether there is a recording, a page, a     *)
(* drain and an outcome.                                                   *)
StepInv ==
  /\ step \in {"none"} \cup Beginning \cup Capturing \cup Ending
  /\ state = "idle" <=> step = "none"
  /\ state \in Live <=> step = "live"
  /\ step \notin {"none", "notify"} => outcome = "none"
  /\ step = "notify" => outcome # "none"

PageInv ==
  /\ step \in Capturing => page.at # "none"
  /\ step \notin Capturing => page = NoPage
  /\ drain.owner = "none" => drain = NoDrain
  /\ drain.owner = "pump" => step \in {"live", "pump"}
  /\ drain.owner = "stop" <=> step = "draining"
  /\ step \in {"drain", "draining"} /\ page.at = "ready" => page.rec = "stopped"
  /\ step = "draining" => page.queue = 0

(* What is on disk at each place.                                          *)
FileInv ==
  /\ step \in Beginning => file \in {"nothing", "foreign"}
  /\ step \in Capturing \cup {"publish"} => file \in {"partial", "foreign_partial"}
  /\ step = "unlink" => file = "both"
  /\ step = "close" /\ ~error => file = "final"

(* Every chunk the encoder made is written, taken by a drain, or waits in  *)
(* the page, unless something failed that keeps the file from being        *)
(* published.                                                              *)
Whole == made = written + page.queue + drain.n
CountInv ==
  /\ step \in {"none", "load"} \cup Beginning => made = 0 /\ written = 0
  /\ step = "load" => page.at # "ready" /\ page.queue = 0
  /\ step \in {"record", "live", "pump"} => error \/ page.err \/ Whole
  /\ step \in {"page", "drain"} \/ (step = "draining" /\ drain.at = "reply")
       => page.at # "ready" \/ page.err \/ Whole
  /\ step = "draining" /\ drain.at = "store" => drain.bad \/ made = written + drain.n
  /\ step = "publish" => made = written

CaptureInv ==
  /\ StepInv
  /\ FileInv
  /\ Running => CountTypes /\ PageInv /\ CountInv
  /\ ~Running => page = NoPage /\ (state = "idle" => drain = NoDrain)

Same(p, q) == /\ q \in Rec /\ q.at = p.at /\ q.queue = p.queue /\ q.err = p.err

LEMMA Fresh ==
  /\ NoPage \in Rec /\ NoPage.at = "none" /\ NoPage.queue = 0 /\ NoPage.err = FALSE
  /\ NoDrain \in Batch /\ NoDrain.owner = "none" /\ NoDrain.n = 0
  /\ \A x \in {"loading", "gone"} :
       /\ [NoPage EXCEPT !.at = x] \in Rec
       /\ [NoPage EXCEPT !.at = x].at = x /\ [NoPage EXCEPT !.at = x].queue = 0
BY DEF NoPage, NoDrain, Rec, Batch

LEMMA PageLoads ==
  ASSUME NEW p \in Rec
  PROVE  LET q == [p EXCEPT !.at = "ready", !.grant = TRUE]
         IN q \in Rec /\ q.at = "ready" /\ q.queue = p.queue /\ q.err = p.err
<1> DEFINE a == [p EXCEPT !.at = "ready"]
<1>1. a \in Rec /\ a.at = "ready" /\ a.queue = p.queue /\ a.err = p.err BY DEF Rec
<1>2. [a EXCEPT !.grant = TRUE] \in Rec BY <1>1 DEF Rec
<1> QED BY <1>1, <1>2 DEF Rec

LEMMA PageGranted ==
  ASSUME NEW p \in Rec
  PROVE  /\ LET q == [p EXCEPT !.rec = "on", !.grant = FALSE] IN Same(p, q)
         /\ LET q == [p EXCEPT !.grant = FALSE] IN Same(p, q)
BY DEF Rec, Same

LEMMA PageBreaks ==
  ASSUME NEW p \in Rec
  PROVE  LET q == [p EXCEPT !.err = TRUE, !.rec = "stopped"]
         IN q \in Rec /\ q.at = p.at /\ q.rec = "stopped" /\ q.queue = p.queue /\ q.err = TRUE
BY DEF Rec

LEMMA PageRecords ==
  ASSUME NEW p \in Rec, NEW x \in {"on", "paused", "stopped"}
  PROVE  LET q == [p EXCEPT !.rec = x] IN Same(p, q) /\ q.rec = x
BY DEF Rec, Same

LEMMA PageTaken ==
  ASSUME NEW p \in Rec
  PROVE  LET q == [p EXCEPT !.taken = 0] IN Same(p, q) /\ q.rec = p.rec
BY DEF Rec, Same

LEMMA PageDrained ==
  ASSUME NEW p \in Rec
  PROVE  LET q == [p EXCEPT !.queue = 0, !.taken = @ + p.queue]
         IN q \in Rec /\ q.at = p.at /\ q.rec = p.rec /\ q.queue = 0 /\ q.err = p.err
<1> DEFINE a == [p EXCEPT !.queue = 0]
           n == p.taken + p.queue
<1>1. /\ a \in Rec /\ a.at = p.at /\ a.rec = p.rec /\ a.queue = 0 /\ a.err = p.err
      /\ a.taken = p.taken
  BY DEF Rec
<1>2. n \in Nat BY DEF Rec
<1>3. [p EXCEPT !.queue = 0, !.taken = @ + p.queue] = [a EXCEPT !.taken = n]
  BY DEF Rec
<1> HIDE DEF a, n
<1>4. [a EXCEPT !.taken = n] \in Rec BY <1>1, <1>2 DEF Rec
<1> QED BY <1>1, <1>3, <1>4 DEF Rec

LEMMA QueuedPage ==
  ASSUME NEW p \in Rec
  PROVE  /\ Queued(p) \in Rec /\ Queued(p).at = p.at
         /\ Queued(p).rec \in {p.rec, "stopped"}
         /\ \/ Queued(p).queue = p.queue + 1 /\ Queued(p).err = p.err
            \/ Queued(p).err
<1>1. CASE p.queue + p.taken < MaxQueue
  <2> DEFINE n == p.queue + 1
  <2>1. n \in Nat BY DEF Rec
  <2>2. Queued(p) = [p EXCEPT !.queue = n] BY <1>1 DEF Queued
  <2> HIDE DEF n
  <2>3. [p EXCEPT !.queue = n] \in Rec /\ [p EXCEPT !.queue = n].queue = n
    BY <2>1 DEF Rec
  <2>4. /\ [p EXCEPT !.queue = n].at = p.at /\ [p EXCEPT !.queue = n].rec = p.rec
        /\ [p EXCEPT !.queue = n].err = p.err
    BY DEF Rec
  <2> QED BY <2>2, <2>3, <2>4 DEF n
<1>2. CASE ~(p.queue + p.taken < MaxQueue)
  <2>1. Queued(p) = [p EXCEPT !.err = TRUE, !.rec = "stopped"] BY <1>2 DEF Queued
  <2> DEFINE q == [p EXCEPT !.err = TRUE, !.rec = "stopped"]
  <2>2. q \in Rec /\ q.at = p.at /\ q.rec = "stopped" /\ q.err = TRUE BY PageBreaks
  <2> QED BY <2>1, <2>2
<1> QED BY <1>1, <1>2

LEMMA BatchUpdates ==
  ASSUME NEW p \in Rec, NEW d \in Batch
  PROVE  /\ LET e == [d EXCEPT !.at = "store", !.bad = p.err, !.ended = (p.rec = "stopped")]
            IN e \in Batch /\ e.owner = d.owner /\ e.at = "store" /\ e.n = d.n /\ e.bad = p.err
         /\ \A o \in {"pump", "stop"} : LET e == [NoDrain EXCEPT !.owner = o, !.n = p.queue]
            IN e \in Batch /\ e.owner = o /\ e.at = "reply" /\ e.n = p.queue
BY DEF Rec, Batch, NoDrain
LEMMA CaptureInit == Init => CaptureInv
<1> SUFFICES ASSUME Init PROVE CaptureInv
  OBVIOUS
<1> USE DEF Init, Live, Beginning, Capturing, Ending
<1>1. StepInv /\ FileInv BY DEF StepInv, FileInv
<1>2. CountTypes BY Fresh DEF CountTypes
<1>3. PageInv BY Fresh DEF PageInv
<1>4. CountInv BY Fresh DEF CountInv
<1> QED BY <1>1, <1>2, <1>3, <1>4 DEF CaptureInv, Running

LEMMA StartSteps ==
  ASSUME CaptureInv, Running,
         Start \/ OtherDialog \/ FolderAnswer \/ ChooseFolder \/ OpenFile \/ LoadPage \/ StartReply
  PROVE  CaptureInv'
<1> USE DEF CaptureInv, Running, pageVars, folderVars, winVars, Live, Beginning, Capturing, Ending
<1>1. ASSUME Start PROVE CaptureInv'
  <2>1. StepInv' BY <1>1 DEF Start, StepInv, Active
  <2>2. FileInv' BY <1>1 DEF Start, FileInv, StepInv
  <2>3. CountTypes' BY <1>1 DEF Start, CountTypes
  <2>4. PageInv' BY <1>1 DEF Start, PageInv, StepInv
  <2>5. CountInv' BY <1>1 DEF Start, CountInv, PageInv, StepInv, CountTypes, Rec, Batch, Whole
  <2> QED BY <1>1, <2>1, <2>2, <2>3, <2>4, <2>5 DEF Start
<1>2. ASSUME OtherDialog PROVE CaptureInv'
  <2>1. StepInv' BY <1>2 DEF OtherDialog, StepInv, Active
  <2>2. FileInv' BY <1>2 DEF OtherDialog, FileInv, StepInv
  <2>3. CountTypes' BY <1>2 DEF OtherDialog, CountTypes
  <2>4. PageInv' BY <1>2 DEF OtherDialog, PageInv, StepInv
  <2>5. CountInv'
    BY <1>2 DEF OtherDialog, CountInv, PageInv, StepInv, CountTypes, Rec, Batch, Whole
  <2> QED BY <1>2, <2>1, <2>2, <2>3, <2>4, <2>5 DEF OtherDialog
<1>3. ASSUME FolderAnswer PROVE CaptureInv'
  <2>0. page' \in {page, NoPage} /\ page' \in Rec /\ (page' = NoPage \/ page' = page)
    BY <1>3, Fresh DEF FolderAnswer, JobCancels, Fail, Finish, CountTypes
  <2>1. StepInv' BY <1>3 DEF FolderAnswer, JobCancels, Fail, Finish, StepInv, Active
  <2>2. FileInv' BY <1>3 DEF FolderAnswer, JobCancels, Fail, Finish, FileInv, StepInv
  <2>3. CountTypes' BY <1>3, <2>0 DEF FolderAnswer, JobCancels, Fail, Finish, CountTypes
  <2>4. PageInv' BY <1>3, <2>0, Fresh DEF FolderAnswer, JobCancels, Fail, Finish, PageInv, StepInv
  <2>5. CountInv'
    BY <1>3, <2>0, Fresh DEF FolderAnswer, JobCancels, Fail, Finish, CountInv, PageInv,
       StepInv, CountTypes, Rec, Batch, Whole
  <2> QED BY <1>3, <2>1, <2>2, <2>3, <2>4, <2>5 DEF FolderAnswer, JobCancels, Fail, Finish
<1>4. ASSUME ChooseFolder PROVE CaptureInv'
  <2>1. StepInv' BY <1>4 DEF ChooseFolder, StepInv, Active
  <2>2. FileInv' BY <1>4 DEF ChooseFolder, FileInv, StepInv
  <2>3. CountTypes' BY <1>4 DEF ChooseFolder, CountTypes
  <2>4. PageInv' BY <1>4 DEF ChooseFolder, PageInv, StepInv
  <2>5. CountInv'
    BY <1>4 DEF ChooseFolder, CountInv, PageInv, StepInv, CountTypes, Rec, Batch, Whole
  <2> QED BY <1>4, <2>1, <2>2, <2>3, <2>4, <2>5 DEF ChooseFolder
<1>5. ASSUME OpenFile PROVE CaptureInv'
  <2>0. /\ page' \in Rec
        /\ \/ page' = NoPage /\ step' = "close" /\ error' = TRUE
           \/ page'.at = "loading" /\ page'.queue = 0 /\ step' = "load" /\ UNCHANGED error
    BY <1>5, Fresh DEF OpenFile, Fail, Finish
  <2>1. StepInv' BY <1>5 DEF OpenFile, Fail, Finish, StepInv, Active
  <2>2. FileInv' BY <1>5 DEF OpenFile, Fail, Finish, FileInv, StepInv
  <2>3. CountTypes' BY <1>5, <2>0 DEF OpenFile, Fail, Finish, CountTypes
  <2>4. PageInv' BY <1>5, <2>0, Fresh DEF OpenFile, Fail, Finish, PageInv, StepInv
  <2>5. CountInv'
    BY <1>5, <2>0, Fresh DEF OpenFile, Fail, Finish, CountInv, PageInv, StepInv, CountTypes,
       Rec, Batch, Whole
  <2> QED BY <1>5, <2>1, <2>2, <2>3, <2>4, <2>5 DEF OpenFile, Fail, Finish
<1>6. ASSUME LoadPage PROVE CaptureInv'
  <2>0. /\ page' \in Rec
        /\ \/ page' = NoPage /\ step' = "close" /\ error' = TRUE
           \/ page'.at = "ready" /\ page'.queue = page.queue /\ step' = "record" /\ UNCHANGED error
    <3>1. CASE Fail BY <3>1, Fresh DEF Fail, Finish
    <3>2. CASE page' = [page EXCEPT !.at = "ready", !.grant = TRUE] /\ step' = "record" /\ UNCHANGED error
      BY <3>2, PageLoads DEF CountTypes
    <3> QED BY <1>6, <3>1, <3>2 DEF LoadPage
  <2>1. StepInv' BY <1>6 DEF LoadPage, Fail, Finish, StepInv, Active
  <2>2. FileInv' BY <1>6 DEF LoadPage, Fail, Finish, FileInv, StepInv
  <2>3. CountTypes' BY <1>6, <2>0 DEF LoadPage, Fail, Finish, CountTypes
  <2>4. PageInv' BY <1>6, <2>0, Fresh DEF LoadPage, Fail, Finish, PageInv, StepInv
  <2>5. CountInv'
    BY <1>6, <2>0, Fresh DEF LoadPage, Fail, Finish, CountInv, PageInv, StepInv, CountTypes,
       Rec, Batch, Whole
  <2> QED BY <1>6, <2>1, <2>2, <2>3, <2>4, <2>5 DEF LoadPage, Fail, Finish
<1>7. ASSUME StartReply PROVE CaptureInv'
  <2>0. /\ page' \in Rec
        /\ \/ page' = NoPage /\ step' = "close" /\ error' = TRUE
           \/ Same(page, page') /\ step' \in {"pump", "live"} /\ UNCHANGED error
    <3>1. CASE Fail BY <3>1, Fresh DEF Fail, Finish
    <3>2. CASE page' = [page EXCEPT !.grant = FALSE] /\ step' \in {"pump", "live"} /\ UNCHANGED error
      BY <3>2, PageGranted DEF CountTypes, Same
    <3> QED BY <1>7, <3>1, <3>2 DEF StartReply
  <2>1. StepInv' BY <1>7 DEF StartReply, Fail, Finish, StepInv, Active
  <2>2. FileInv' BY <1>7 DEF StartReply, Fail, Finish, FileInv, StepInv
  <2>3. CountTypes' BY <1>7, <2>0 DEF StartReply, Fail, Finish, CountTypes, Same
  <2>4. PageInv' BY <1>7, <2>0, Fresh DEF StartReply, Fail, Finish, PageInv, StepInv, Same
  <2>5. CountInv'
    BY <1>7, <2>0, Fresh DEF StartReply, Fail, Finish, CountInv, PageInv, StepInv, CountTypes,
       Rec, Batch, Whole, Same
  <2> QED BY <1>7, <2>1, <2>2, <2>3, <2>4, <2>5 DEF StartReply, Fail, Finish
<1> QED BY <1>1, <1>2, <1>3, <1>4, <1>5, <1>6, <1>7

\* A drain that fails leaves the invariant, whoever made it.
LEMMA FailedDrain ==
  ASSUME CaptureInv, Running, DrainEnds(TRUE), drain.owner # "none",
         UNCHANGED <<quit, written, state, outcome, made, file>>
  PROVE  CaptureInv'
<1> USE DEF CaptureInv, Running, Live, Beginning, Capturing, Ending
<1>1. /\ drain' = NoDrain /\ drain' \in Batch /\ drain'.owner = "none" /\ drain'.n = 0
      /\ error' = TRUE
  BY Fresh DEF DrainEnds
<1>2. CASE drain.owner = "pump"
  <2>1. UNCHANGED <<page, step>> /\ step \in {"live", "pump"} BY <1>2 DEF DrainEnds, PageInv
  <2>2. StepInv' /\ FileInv' BY <2>1, <1>1 DEF StepInv, FileInv, Active
  <2>3. CountTypes' BY <1>1, <2>1 DEF CountTypes
  <2>4. PageInv' BY <1>1, <2>1 DEF PageInv
  <2>5. CountInv' BY <1>1, <2>1 DEF CountInv
  <2> QED BY <2>2, <2>3, <2>4, <2>5
<1>3. CASE drain.owner # "pump"
  <2>1. step = "draining" BY <1>3 DEF PageInv, CountTypes, Batch
  <2>2. page' = NoPage /\ step' = "close" BY <1>3 DEF DrainEnds, Finish
  <2>3. StepInv' BY <2>1, <2>2 DEF StepInv, Active
  <2>4. FileInv' BY <1>1, <2>1, <2>2 DEF FileInv
  <2>5. CountTypes' BY <1>1, <2>2, Fresh DEF CountTypes
  <2>6. PageInv' BY <1>1, <2>2, Fresh DEF PageInv
  <2>7. CountInv' BY <2>2 DEF CountInv
  <2> QED BY <2>3, <2>4, <2>5, <2>6, <2>7
<1> QED BY <1>2, <1>3

LEMMA DrainSteps ==
  ASSUME CaptureInv, Running,
         PageStarts \/ PageChunk \/ PageFails \/ PageGone \/ Pump \/ DrainReply \/ DrainStore \/ Kick
  PROVE  CaptureInv'
<1> USE DEF CaptureInv, Running, pageVars, folderVars, winVars, Live, Beginning, Capturing, Ending
<1>1. ASSUME PageStarts PROVE CaptureInv'
  <2>0. Same(page, page') /\ page.rec = "off"
    BY <1>1, PageGranted DEF PageStarts, CountTypes
  <2>1. StepInv' BY <1>1 DEF PageStarts, StepInv, Active
  <2>2. FileInv' BY <1>1 DEF PageStarts, FileInv, StepInv
  <2>3. CountTypes' BY <1>1, <2>0 DEF PageStarts, CountTypes, Same
  <2>4. PageInv' BY <1>1, <2>0, Fresh DEF PageStarts, PageInv, StepInv, Same
  <2>5. CountInv'
    BY <1>1, <2>0, Fresh DEF PageStarts, CountInv, PageInv, StepInv, CountTypes, Rec, Batch,
       Whole, Same
  <2> QED BY <1>1, <2>1, <2>2, <2>3, <2>4, <2>5 DEF PageStarts
<1>2. ASSUME PageChunk PROVE CaptureInv'
  <2>0. /\ page' \in Rec /\ page'.at = page.at /\ page.rec = "on"
        /\ (page'.queue = page.queue + 1 /\ page'.err = page.err) \/ page'.err
    BY <1>2, QueuedPage DEF PageChunk, CountTypes
  <2>1. StepInv' BY <1>2 DEF PageChunk, StepInv, Active
  <2>2. FileInv' BY <1>2 DEF PageChunk, FileInv, StepInv
  <2>3. CountTypes' BY <1>2, <2>0 DEF PageChunk, CountTypes
  <2>4. PageInv' BY <1>2, <2>0, Fresh DEF PageChunk, PageInv, StepInv
  <2>5. CountInv'
    BY <1>2, <2>0, Fresh DEF PageChunk, CountInv, PageInv, StepInv, CountTypes, Rec, Batch,
       Whole
  <2> QED BY <1>2, <2>1, <2>2, <2>3, <2>4, <2>5 DEF PageChunk
<1>3. ASSUME PageFails PROVE CaptureInv'
  <2>0. page' \in Rec /\ page'.at = page.at /\ page'.err /\ page'.rec = "stopped"
    BY <1>3, PageBreaks DEF PageFails, CountTypes
  <2>1. StepInv' BY <1>3 DEF PageFails, StepInv, Active
  <2>2. FileInv' BY <1>3 DEF PageFails, FileInv, StepInv
  <2>3. CountTypes' BY <1>3, <2>0 DEF PageFails, CountTypes
  <2>4. PageInv' BY <1>3, <2>0, Fresh DEF PageFails, PageInv, StepInv
  <2>5. CountInv'
    BY <1>3, <2>0, Fresh DEF PageFails, CountInv, PageInv, StepInv, CountTypes, Rec, Batch,
       Whole
  <2> QED BY <1>3, <2>1, <2>2, <2>3, <2>4, <2>5 DEF PageFails
<1>4. ASSUME PageGone PROVE CaptureInv'
  <2>0. page' \in Rec /\ page'.at = "gone" /\ page'.queue = 0
    BY <1>4, Fresh DEF PageGone
  <2>1. StepInv' BY <1>4 DEF PageGone, CallStop, StepInv, Active
  <2>2. FileInv' BY <1>4 DEF PageGone, CallStop, FileInv, StepInv
  <2>3. CountTypes' BY <1>4, <2>0 DEF PageGone, CallStop, CountTypes
  <2>4. PageInv' BY <1>4, <2>0, Fresh DEF PageGone, CallStop, PageInv, StepInv
  <2>5. CountInv'
    BY <1>4, <2>0, Fresh DEF PageGone, CallStop, CountInv, PageInv, StepInv, CountTypes, Rec,
       Batch, Whole
  <2> QED BY <1>4, <2>1, <2>2, <2>3, <2>4, <2>5 DEF PageGone, CallStop
<1>5. ASSUME Pump PROVE CaptureInv'
  <2>0. /\ page' \in Rec /\ page'.at = page.at /\ page'.queue = 0 /\ page'.err = page.err
        /\ page'.rec = page.rec
        /\ drain' \in Batch /\ drain'.owner = "pump" /\ drain'.n = page.queue /\ drain.n = 0
    <3>1. /\ page' = [page EXCEPT !.queue = 0, !.taken = @ + page.queue]
          /\ drain' = [NoDrain EXCEPT !.owner = "pump", !.n = page.queue]
      BY <1>5 DEF Pump, DrainBegins
    <3>2. page \in Rec BY DEF CountTypes
    <3>3. drain.n = 0 BY <1>5, Fresh DEF Pump, PageInv, StepInv, CountTypes, Batch
    <3>4. /\ page' \in Rec /\ page'.at = page.at /\ page'.queue = 0 /\ page'.err = page.err
          /\ page'.rec = page.rec
      BY <3>1, <3>2, PageDrained
    <3>5. /\ drain' \in Batch /\ drain'.owner = "pump" /\ drain'.at = "reply"
          /\ drain'.n = page.queue
      BY <3>1, <3>2, Fresh, BatchUpdates
    <3> QED BY <3>3, <3>4, <3>5
  <2>1. StepInv' BY <1>5 DEF Pump, DrainBegins, StepInv, Active
  <2>2. FileInv' BY <1>5 DEF Pump, DrainBegins, FileInv, StepInv
  <2>3. CountTypes' BY <1>5, <2>0 DEF Pump, DrainBegins, CountTypes
  <2>4. PageInv' BY <1>5, <2>0 DEF Pump, DrainBegins, PageInv, StepInv
  <2>5. CountInv'
    BY <1>5, <2>0 DEF Pump, DrainBegins, CountInv, PageInv, StepInv, CountTypes, Rec, Batch,
       Whole
  <2> QED BY <1>5, <2>1, <2>2, <2>3, <2>4, <2>5 DEF Pump, DrainBegins
<1>6. ASSUME DrainReply PROVE CaptureInv'
  <2>1. CASE /\ page.at = "ready"
             /\ page' = [page EXCEPT !.taken = 0]
             /\ drain' = [drain EXCEPT !.at = "store", !.bad = page.err,
                                       !.ended = (page.rec = "stopped")]
             /\ UNCHANGED <<error, kick, step>>
    <3>1. Same(page, page') /\ page'.rec = page.rec BY <2>1, PageTaken DEF CountTypes
    <3>2. /\ drain' \in Batch /\ drain'.owner = drain.owner /\ drain'.at = "store"
          /\ drain'.n = drain.n /\ drain'.bad = page.err
      BY <2>1, BatchUpdates DEF CountTypes
    <3>3. StepInv' /\ FileInv' BY <1>6, <2>1 DEF DrainReply, StepInv, FileInv, Active
    <3>4. CountTypes' BY <1>6, <2>1, <3>1, <3>2 DEF DrainReply, CountTypes, Same
    <3>5. PageInv' BY <1>6, <2>1, <3>1, <3>2, Fresh DEF DrainReply, PageInv, Same
    <3>6. CountInv'
      BY <1>6, <2>1, <3>1, <3>2 DEF DrainReply, CountInv, PageInv, CountTypes, Whole, Same
    <3> QED BY <1>6, <3>3, <3>4, <3>5, <3>6 DEF DrainReply
  <2>2. CASE DrainEnds(TRUE)
    <3>1. drain.owner # "none" /\ UNCHANGED <<quit, written>> BY <1>6 DEF DrainReply
    <3>2. UNCHANGED <<state, outcome, made, file>> BY <1>6 DEF DrainReply
    <3> QED BY <2>2, <3>1, <3>2, FailedDrain
  <2> QED BY <1>6, <2>1, <2>2 DEF DrainReply
<1>7. ASSUME DrainStore PROVE CaptureInv'
  <2>1. drain.owner # "none" /\ drain.at = "store" /\ UNCHANGED <<quit, state, outcome, made, file>>
    BY <1>7 DEF DrainStore
  <2>2. CASE UNCHANGED written /\ DrainEnds(TRUE) BY <2>1, <2>2, FailedDrain
  <2>3. CASE /\ written' = written + drain.n
             /\ DrainEnds(drain.bad \/ (drain.ended /\ state \in Live))
    <3> DEFINE bad == drain.bad \/ (drain.ended /\ state \in Live)
    <3>1. drain' = NoDrain /\ drain' \in Batch /\ drain'.owner = "none" /\ drain'.n = 0
      BY <2>3, Fresh DEF DrainEnds
    <3>2. written' \in Nat BY <2>3 DEF CountTypes, Batch
    <3>3. error' = (error \/ bad) BY <2>3 DEF DrainEnds
    <3>4. CASE drain.owner = "pump"
      <4>1. UNCHANGED <<page, step>> /\ step \in {"live", "pump"}
        BY <2>3, <3>4 DEF DrainEnds, PageInv
      <4>2. StepInv' /\ FileInv' BY <2>1, <4>1 DEF StepInv, FileInv, Active
      <4>3. CountTypes' BY <2>1, <3>1, <3>2, <3>3, <4>1 DEF CountTypes
      <4>4. PageInv' BY <3>1, <4>1 DEF PageInv
      <4>5. Whole => Whole' BY <2>1, <2>3, <3>1, <4>1 DEF Whole, CountTypes, Rec, Batch
      <4>6. CountInv' BY <2>1, <3>3, <4>1, <4>5 DEF CountInv
      <4> QED BY <2>1, <4>2, <4>3, <4>4, <4>6
    <3>5. CASE drain.owner # "pump"
      <4>1. step = "draining" /\ drain.owner = "stop" BY <2>1, <3>5 DEF PageInv, CountTypes, Batch
      <4>2. page' = NoPage /\ step' = (IF ~bad THEN "publish" ELSE "close")
        BY <2>3, <3>5 DEF DrainEnds, Finish
      <4>3. StepInv' BY <2>1, <4>1, <4>2 DEF StepInv, Active
      <4>4. FileInv' BY <2>1, <3>3, <4>1, <4>2 DEF FileInv
      <4>5. CountTypes' BY <2>1, <3>1, <3>2, <3>3, <4>2, Fresh DEF CountTypes
      <4>6. PageInv' BY <3>1, <4>2, Fresh DEF PageInv
      <4>7. CountInv' BY <2>1, <2>3, <3>2, <4>1, <4>2 DEF CountInv
      <4> QED BY <2>1, <4>3, <4>4, <4>5, <4>6, <4>7
    <3> QED BY <3>4, <3>5
  <2> QED BY <1>7, <2>2, <2>3 DEF DrainStore
<1>8. ASSUME Kick PROVE CaptureInv'
  <2>1. StepInv' BY <1>8 DEF Kick, CallStop, StepInv, Active
  <2>2. FileInv' BY <1>8 DEF Kick, CallStop, FileInv, StepInv
  <2>3. CountTypes' BY <1>8 DEF Kick, CallStop, CountTypes
  <2>4. PageInv' BY <1>8 DEF Kick, CallStop, PageInv, StepInv
  <2>5. CountInv'
    BY <1>8 DEF Kick, CallStop, CountInv, PageInv, StepInv, CountTypes, Rec, Batch, Whole
  <2> QED BY <1>8, <2>1, <2>2, <2>3, <2>4, <2>5 DEF Kick, CallStop
<1> QED BY <1>1, <1>2, <1>3, <1>4, <1>5, <1>6, <1>7, <1>8

LEMMA StopSteps ==
  ASSUME CaptureInv, Running,
         StopPump \/ StopPage \/ StopDrain \/ Publish \/ Unlink \/ Close \/ Notify \/ Toggle \/
         ToggleReply \/ Foreign
  PROVE  CaptureInv'
<1> USE DEF CaptureInv, Running, pageVars, folderVars, winVars, Live, Beginning, Capturing, Ending
<1>1. ASSUME StopPump PROVE CaptureInv'
  <2>0. page' \in {page, NoPage} /\ page' \in Rec
    BY <1>1, Fresh DEF StopPump, Finish, CountTypes
  <2>1. StepInv' BY <1>1 DEF StopPump, Finish, StepInv, Active
  <2>2. FileInv' BY <1>1 DEF StopPump, Finish, FileInv, StepInv
  <2>3. CountTypes' BY <1>1, <2>0 DEF StopPump, Finish, CountTypes
  <2>4. PageInv' BY <1>1, <2>0, Fresh DEF StopPump, Finish, PageInv, StepInv
  <2>5. CountInv'
    BY <1>1, <2>0, Fresh DEF StopPump, Finish, CountInv, PageInv, StepInv, CountTypes, Rec,
       Batch, Whole
  <2> QED BY <1>1, <2>1, <2>2, <2>3, <2>4, <2>5 DEF StopPump, Finish
<1>2. ASSUME StopPage PROVE CaptureInv'
  <2>0. /\ page' \in Rec
        /\ \/ page' = NoPage /\ step' = "close" /\ error' = TRUE
           \/ /\ page'.at = "ready" /\ step' = "drain" /\ UNCHANGED error /\ page'.rec = "stopped"
              /\ \/ page'.err
                 \/ page'.queue = page.queue /\ made' = made /\ page'.err = page.err
                 \/ page'.queue = page.queue + 1 /\ made' = made + 1 /\ page'.err = page.err
    <3> DEFINE stopped == [page EXCEPT !.rec = "stopped"]
    <3>1. Same(page, stopped) /\ stopped.rec = "stopped" BY PageRecords DEF CountTypes
    <3>2. /\ Queued(stopped) \in Rec /\ Queued(stopped).at = stopped.at
          /\ Queued(stopped).rec = "stopped"
          /\ \/ Queued(stopped).queue = stopped.queue + 1 /\ Queued(stopped).err = stopped.err
             \/ Queued(stopped).err
      BY <3>1, QueuedPage DEF Same
    <3>3. \/ page' = NoPage /\ step' = "close" /\ error' = TRUE
          \/ /\ page.at = "ready" /\ step' = "drain" /\ UNCHANGED error
             /\ (page' = stopped /\ made' = made) \/ (page' = Queued(stopped) /\ made' = made + 1)
      BY <1>2 DEF StopPage, Fail, Finish
    <3> HIDE DEF stopped
    <3> QED BY <3>1, <3>2, <3>3, Fresh DEF Same
  <2>1. StepInv' BY <1>2 DEF StopPage, Fail, Finish, StepInv, Active
  <2>2. FileInv' BY <1>2 DEF StopPage, Fail, Finish, FileInv, StepInv
  <2>3. CountTypes'
    <3>1. made' \in {made, made + 1} /\ UNCHANGED <<written, drain>>
      BY <1>2 DEF StopPage, Fail, Finish
    <3>2. error' \in BOOLEAN BY <2>0 DEF CountTypes
    <3> QED BY <2>0, <3>1, <3>2 DEF CountTypes
  <2>4. PageInv' BY <1>2, <2>0, Fresh DEF StopPage, Fail, Finish, PageInv, StepInv
  <2>5. CountInv'
    BY <1>2, <2>0, Fresh DEF StopPage, Fail, Finish, CountInv, PageInv, StepInv, CountTypes,
       Rec, Batch, Whole
  <2> QED BY <1>2, <2>1, <2>2, <2>3, <2>4, <2>5 DEF StopPage, Fail, Finish
<1>3. ASSUME StopDrain PROVE CaptureInv'
  <2>0. /\ page' \in Rec /\ page'.at = page.at /\ page'.queue = 0 /\ page'.err = page.err
        /\ page'.rec = page.rec
        /\ drain' \in Batch /\ drain'.owner = "stop" /\ drain'.n = page.queue /\ drain'.at = "reply"
        /\ drain.n = 0
    <3>1. /\ page' = [page EXCEPT !.queue = 0, !.taken = @ + page.queue]
          /\ drain' = [NoDrain EXCEPT !.owner = "stop", !.n = page.queue]
      BY <1>3 DEF StopDrain, DrainBegins
    <3>2. page \in Rec BY DEF CountTypes
    <3>3. drain.n = 0 BY <1>3, Fresh DEF StopDrain, PageInv, StepInv, CountTypes, Batch
    <3>4. /\ page' \in Rec /\ page'.at = page.at /\ page'.queue = 0 /\ page'.err = page.err
          /\ page'.rec = page.rec
      BY <3>1, <3>2, PageDrained
    <3>5. /\ drain' \in Batch /\ drain'.owner = "stop" /\ drain'.at = "reply"
          /\ drain'.n = page.queue
      BY <3>1, <3>2, Fresh, BatchUpdates
    <3> QED BY <3>3, <3>4, <3>5
  <2>1. StepInv' BY <1>3 DEF StopDrain, DrainBegins, StepInv, Active
  <2>2. FileInv' BY <1>3 DEF StopDrain, DrainBegins, FileInv, StepInv
  <2>3. CountTypes' BY <1>3, <2>0 DEF StopDrain, DrainBegins, CountTypes
  <2>4. PageInv' BY <1>3, <2>0 DEF StopDrain, DrainBegins, PageInv, StepInv
  <2>5. CountInv'
    BY <1>3, <2>0 DEF StopDrain, DrainBegins, CountInv, PageInv, StepInv, CountTypes, Rec,
       Batch, Whole
  <2> QED BY <1>3, <2>1, <2>2, <2>3, <2>4, <2>5 DEF StopDrain, DrainBegins
<1>4. ASSUME Publish PROVE CaptureInv'
  <2>1. StepInv' BY <1>4 DEF Publish, StepInv, Active
  <2>2. FileInv' BY <1>4 DEF Publish, FileInv, StepInv, CountInv
  <2>3. CountTypes' BY <1>4 DEF Publish, CountTypes
  <2>4. PageInv' BY <1>4 DEF Publish, PageInv, StepInv
  <2>5. CountInv' BY <1>4 DEF Publish, CountInv, PageInv, StepInv, CountTypes, Rec, Batch, Whole
  <2> QED BY <1>4, <2>1, <2>2, <2>3, <2>4, <2>5 DEF Publish
<1>5. ASSUME Unlink PROVE CaptureInv'
  <2>1. StepInv' BY <1>5 DEF Unlink, StepInv, Active
  <2>2. FileInv' BY <1>5 DEF Unlink, FileInv, StepInv
  <2>3. CountTypes' BY <1>5 DEF Unlink, CountTypes
  <2>4. PageInv' BY <1>5 DEF Unlink, PageInv, StepInv
  <2>5. CountInv' BY <1>5 DEF Unlink, CountInv, PageInv, StepInv, CountTypes, Rec, Batch, Whole
  <2> QED BY <1>5, <2>1, <2>2, <2>3, <2>4, <2>5 DEF Unlink
<1>6. ASSUME Close PROVE CaptureInv'
  <2>1. StepInv' BY <1>6 DEF Close, StepInv, Active
  <2>2. FileInv' BY <1>6 DEF Close, FileInv, StepInv
  <2>3. CountTypes' BY <1>6 DEF Close, CountTypes
  <2>4. PageInv' BY <1>6 DEF Close, PageInv, StepInv
  <2>5. CountInv' BY <1>6 DEF Close, CountInv, PageInv, StepInv, CountTypes, Rec, Batch, Whole
  <2> QED BY <1>6, <2>1, <2>2, <2>3, <2>4, <2>5 DEF Close
<1>7. ASSUME Notify PROVE CaptureInv'
  <2>1. StepInv' BY <1>7 DEF Notify, StepInv, Active
  <2>2. FileInv' BY <1>7 DEF Notify, FileInv, StepInv
  <2>3. CountTypes' BY <1>7 DEF Notify, CountTypes
  <2>4. PageInv' BY <1>7 DEF Notify, PageInv, StepInv
  <2>5. CountInv' BY <1>7 DEF Notify, CountInv, PageInv, StepInv, CountTypes, Rec, Batch, Whole
  <2> QED BY <1>7, <2>1, <2>2, <2>3, <2>4, <2>5 DEF Notify
<1>8. ASSUME Toggle PROVE CaptureInv'
  <2>1. StepInv' BY <1>8 DEF Toggle, StepInv, Active
  <2>2. FileInv' BY <1>8 DEF Toggle, FileInv, StepInv
  <2>3. CountTypes' BY <1>8 DEF Toggle, CountTypes
  <2>4. PageInv' BY <1>8 DEF Toggle, PageInv, StepInv
  <2>5. CountInv' BY <1>8 DEF Toggle, CountInv, PageInv, StepInv, CountTypes, Rec, Batch, Whole
  <2> QED BY <1>8, <2>1, <2>2, <2>3, <2>4, <2>5 DEF Toggle
<1>9. ASSUME ToggleReply PROVE CaptureInv'
  <2>0. page' = page \/ (Same(page, page') /\ page.at = "ready" /\ page.rec \in {"on", "paused"})
    <3> DEFINE x == IF toggle = "pause" THEN "paused" ELSE "on"
    <3>1. page' = page \/ (page' = [page EXCEPT !.rec = x] /\ page.at = "ready" /\ page.rec \in {"on", "paused"})
      BY <1>9 DEF ToggleReply
    <3>2. Same(page, [page EXCEPT !.rec = x])
      <4>1. x \in {"on", "paused", "stopped"} /\ page \in Rec BY DEF CountTypes
      <4> HIDE DEF x
      <4> QED BY <4>1, PageRecords
    <3> HIDE DEF x
    <3> QED BY <3>1, <3>2
  <2>1. StepInv' BY <1>9 DEF ToggleReply, CallStop, StepInv, Active
  <2>2. FileInv' BY <1>9 DEF ToggleReply, CallStop, FileInv, StepInv
  <2>3. CountTypes' BY <1>9, <2>0 DEF ToggleReply, CallStop, CountTypes, Same
  <2>4. PageInv' BY <1>9, <2>0, Fresh DEF ToggleReply, CallStop, PageInv, StepInv, Same
  <2>5. CountInv'
    BY <1>9, <2>0, Fresh DEF ToggleReply, CallStop, CountInv, PageInv, StepInv, CountTypes,
       Rec, Batch, Whole, Same
  <2> QED BY <1>9, <2>1, <2>2, <2>3, <2>4, <2>5 DEF ToggleReply, CallStop
<1>10. ASSUME Foreign PROVE CaptureInv'
  <2>1. StepInv' BY <1>10 DEF Foreign, StepInv, Active
  <2>2. FileInv' BY <1>10 DEF Foreign, FileInv, StepInv
  <2>3. CountTypes' BY <1>10 DEF Foreign, CountTypes
  <2>4. PageInv' BY <1>10 DEF Foreign, PageInv, StepInv
  <2>5. CountInv' BY <1>10 DEF Foreign, CountInv, PageInv, StepInv, CountTypes, Rec, Batch, Whole
  <2> QED BY <1>10, <2>1, <2>2, <2>3, <2>4, <2>5 DEF Foreign
<1> QED BY <1>1, <1>2, <1>3, <1>4, <1>5, <1>6, <1>7, <1>8, <1>9, <1>10

LEMMA WindowSteps ==
  ASSUME CaptureInv, Running,
         Leave \/ Return \/ StopRequest \/ CloseRequest \/ QuitRequest \/ Exit \/ ConfirmKeep \/ ConfirmStop \/ ConfirmStopped \/ ConfirmReported
  PROVE  CaptureInv'
<1> USE DEF CaptureInv, Running, pageVars, folderVars, winVars, Live, Beginning, Capturing, Ending
<1>1. ASSUME Leave PROVE CaptureInv'
  <2>1. StepInv' BY <1>1 DEF Leave, CallStop, StepInv, Active
  <2>2. FileInv' BY <1>1 DEF Leave, CallStop, FileInv, StepInv
  <2>3. CountTypes' BY <1>1 DEF Leave, CallStop, CountTypes
  <2>4. PageInv' BY <1>1 DEF Leave, CallStop, PageInv, StepInv
  <2>5. CountInv'
    BY <1>1 DEF Leave, CallStop, CountInv, PageInv, StepInv, CountTypes, Rec, Batch, Whole
  <2> QED BY <1>1, <2>1, <2>2, <2>3, <2>4, <2>5 DEF Leave, CallStop
<1>2. ASSUME Return PROVE CaptureInv'
  <2>1. StepInv' BY <1>2 DEF Return, StepInv, Active
  <2>2. FileInv' BY <1>2 DEF Return, FileInv, StepInv
  <2>3. CountTypes' BY <1>2 DEF Return, CountTypes
  <2>4. PageInv' BY <1>2 DEF Return, PageInv, StepInv
  <2>5. CountInv' BY <1>2 DEF Return, CountInv, PageInv, StepInv, CountTypes, Rec, Batch, Whole
  <2> QED BY <1>2, <2>1, <2>2, <2>3, <2>4, <2>5 DEF Return
<1>3. ASSUME StopRequest PROVE CaptureInv'
  <2>1. StepInv' BY <1>3 DEF StopRequest, CallStop, StepInv, Active
  <2>2. FileInv' BY <1>3 DEF StopRequest, CallStop, FileInv, StepInv
  <2>3. CountTypes' BY <1>3 DEF StopRequest, CallStop, CountTypes
  <2>4. PageInv' BY <1>3 DEF StopRequest, CallStop, PageInv, StepInv
  <2>5. CountInv'
    BY <1>3 DEF StopRequest, CallStop, CountInv, PageInv, StepInv, CountTypes, Rec, Batch,
       Whole
  <2> QED BY <1>3, <2>1, <2>2, <2>3, <2>4, <2>5 DEF StopRequest, CallStop
<1>4. ASSUME CloseRequest PROVE CaptureInv'
  <2>1. StepInv' BY <1>4 DEF CloseRequest, Ask, Gone, StepInv, Active
  <2>2. FileInv' BY <1>4 DEF CloseRequest, Ask, Gone, FileInv, StepInv
  <2>3. CountTypes' BY <1>4 DEF CloseRequest, Ask, Gone, CountTypes
  <2>4. PageInv' BY <1>4 DEF CloseRequest, Ask, Gone, PageInv, StepInv
  <2>5. CountInv'
    BY <1>4 DEF CloseRequest, Ask, Gone, CountInv, PageInv, StepInv, CountTypes, Rec, Batch,
       Whole
  <2> QED BY <1>4, <2>1, <2>2, <2>3, <2>4, <2>5 DEF CloseRequest, Ask, Gone
<1>5. ASSUME QuitRequest PROVE CaptureInv'
  <2>1. StepInv' BY <1>5 DEF QuitRequest, Ask, StepInv, Active
  <2>2. FileInv' BY <1>5 DEF QuitRequest, Ask, FileInv, StepInv
  <2>3. CountTypes' BY <1>5 DEF QuitRequest, Ask, CountTypes
  <2>4. PageInv' BY <1>5 DEF QuitRequest, Ask, PageInv, StepInv
  <2>5. CountInv'
    BY <1>5 DEF QuitRequest, Ask, CountInv, PageInv, StepInv, CountTypes, Rec, Batch, Whole
  <2> QED BY <1>5, <2>1, <2>2, <2>3, <2>4, <2>5 DEF QuitRequest, Ask
<1>6. ASSUME Exit PROVE CaptureInv'
  <2>0. page' = NoPage /\ ~Running'
    BY <1>6 DEF Exit, Running
  <2>1. StepInv' BY <1>6 DEF Exit, StepInv, Active
  <2>2. FileInv' BY <1>6 DEF Exit, FileInv, StepInv
  <2>3. state = "idle" => drain = NoDrain BY DEF StepInv, PageInv, CountTypes, Batch
  <2>4. UNCHANGED <<state, drain>> BY <1>6 DEF Exit
  <2> QED BY <2>0, <2>1, <2>2, <2>3, <2>4
<1>7. ASSUME ConfirmKeep PROVE CaptureInv'
  <2>1. StepInv' BY <1>7 DEF ConfirmKeep, Decide, Ask, Gone, StepInv, Active
  <2>2. FileInv' BY <1>7 DEF ConfirmKeep, Decide, Ask, Gone, FileInv, StepInv
  <2>3. CountTypes' BY <1>7 DEF ConfirmKeep, Decide, Ask, Gone, CountTypes
  <2>4. PageInv' BY <1>7 DEF ConfirmKeep, Decide, Ask, Gone, PageInv, StepInv
  <2>5. CountInv'
    BY <1>7 DEF ConfirmKeep, Decide, Ask, Gone, CountInv, PageInv, StepInv, CountTypes, Rec,
       Batch, Whole
  <2> QED BY <1>7, <2>1, <2>2, <2>3, <2>4, <2>5 DEF ConfirmKeep, Decide, Ask, Gone
<1>8. ASSUME ConfirmStop PROVE CaptureInv'
  <2>1. StepInv' BY <1>8 DEF ConfirmStop, Decide, Ask, Gone, Report, CallStop, StepInv, Active
  <2>2. FileInv' BY <1>8 DEF ConfirmStop, Decide, Ask, Gone, Report, CallStop, FileInv, StepInv
  <2>3. CountTypes' BY <1>8 DEF ConfirmStop, Decide, Ask, Gone, Report, CallStop, CountTypes
  <2>4. PageInv' BY <1>8 DEF ConfirmStop, Decide, Ask, Gone, Report, CallStop, PageInv, StepInv
  <2>5. CountInv'
    BY <1>8 DEF ConfirmStop, Decide, Ask, Gone, Report, CallStop, CountInv, PageInv, StepInv,
       CountTypes, Rec, Batch, Whole
  <2> QED
    BY <1>8, <2>1, <2>2, <2>3, <2>4, <2>5 DEF ConfirmStop, Decide, Ask, Gone, Report, CallStop
<1>9. ASSUME ConfirmStopped PROVE CaptureInv'
  <2>1. StepInv' BY <1>9 DEF ConfirmStopped, Decide, Ask, Gone, Report, StepInv, Active
  <2>2. FileInv' BY <1>9 DEF ConfirmStopped, Decide, Ask, Gone, Report, FileInv, StepInv
  <2>3. CountTypes' BY <1>9 DEF ConfirmStopped, Decide, Ask, Gone, Report, CountTypes
  <2>4. PageInv' BY <1>9 DEF ConfirmStopped, Decide, Ask, Gone, Report, PageInv, StepInv
  <2>5. CountInv'
    BY <1>9 DEF ConfirmStopped, Decide, Ask, Gone, Report, CountInv, PageInv, StepInv,
       CountTypes, Rec, Batch, Whole
  <2> QED BY <1>9, <2>1, <2>2, <2>3, <2>4, <2>5 DEF ConfirmStopped, Decide, Ask, Gone, Report
<1>10. ASSUME ConfirmReported PROVE CaptureInv'
  <2>1. StepInv' BY <1>10 DEF ConfirmReported, Decide, Ask, Gone, StepInv, Active
  <2>2. FileInv' BY <1>10 DEF ConfirmReported, Decide, Ask, Gone, FileInv, StepInv
  <2>3. CountTypes' BY <1>10 DEF ConfirmReported, Decide, Ask, Gone, CountTypes
  <2>4. PageInv' BY <1>10 DEF ConfirmReported, Decide, Ask, Gone, PageInv, StepInv
  <2>5. CountInv'
    BY <1>10 DEF ConfirmReported, Decide, Ask, Gone, CountInv, PageInv, StepInv, CountTypes,
       Rec, Batch, Whole
  <2> QED BY <1>10, <2>1, <2>2, <2>3, <2>4, <2>5 DEF ConfirmReported, Decide, Ask, Gone
<1> QED BY <1>1, <1>2, <1>3, <1>4, <1>5, <1>6, <1>7, <1>8, <1>9, <1>10

LEMMA CaptureStep == CaptureInv /\ [Next]_vars => CaptureInv'
<1> SUFFICES ASSUME CaptureInv, [Next]_vars PROVE CaptureInv'
  OBVIOUS
<1>1. CASE Next
  BY <1>1, StartSteps, DrainSteps, StopSteps, WindowSteps DEF Next, JobStep, PageStep, WindowStep
<1>2. CASE UNCHANGED vars
  <2>1. StepInv' /\ FileInv' BY <1>2 DEF vars, CaptureInv, StepInv, FileInv, Live
  <2>2. CountTypes => CountTypes' BY <1>2 DEF vars, CountTypes
  <2>3. PageInv => PageInv' BY <1>2 DEF vars, PageInv
  <2>4. CountInv => CountInv' BY <1>2 DEF vars, CountInv, Whole
  <2> QED BY <1>2, <2>1, <2>2, <2>3, <2>4 DEF vars, CaptureInv, Running
<1> QED BY <1>1, <1>2

LEMMA CaptureInvariant == Spec => []CaptureInv
BY CaptureInit, CaptureStep, PTL DEF Spec

\* Once a recording is over no page, grant or drain of it is left, and a
\* recorder page is there only for a recording that has a file and no outcome
\* yet (finish and begin of capture.cjs).
THEOREM RecordingLeavesNothing == Spec => []NothingLeftRunning
<1>1. CaptureInv => NothingLeftRunning
  <2> SUFFICES ASSUME CaptureInv PROVE NothingLeftRunning
    OBVIOUS
  <2>1. StepInv /\ FileInv BY DEF CaptureInv
  <2>2. CASE Running
    <3>1. PageInv /\ CountTypes BY <2>2 DEF CaptureInv
    <3>2. state = "idle" => page = NoPage /\ drain = NoDrain /\ step = "none"
      BY <2>1, <3>1 DEF StepInv, PageInv, CountTypes, Batch, Capturing
    <3>3. page.at # "none" => step \in Capturing BY <3>1, Fresh DEF PageInv
    <3>4. step \in Capturing => file \notin {"nothing", "foreign"} /\ outcome = "none"
      BY <2>1 DEF StepInv, FileInv, Capturing
    <3> QED BY <3>2, <3>3, <3>4 DEF NothingLeftRunning
  <2>3. CASE ~Running
    BY <2>1, <2>3, Fresh DEF CaptureInv, NothingLeftRunning, StepInv
  <2> QED BY <2>2, <2>3
<1> QED BY <1>1, CaptureInvariant, PTL

\* A close that was asked about goes through only if the recording it was asked
\* about was saved or canceled and no other one runs (confirmStop of main.cjs).
THEOREM ClosesAreSafe == Spec => CloseAfterSave
<1> DEFINE Safe == confirm.at # "off" /\ window' = "closed" /\ window # "closed"
                     => state' = "idle" /\ Asked \in {"saved", "canceled"}
<1>1. [Next]_vars => [Safe]_vars
  <2> SUFFICES ASSUME Next, confirm.at # "off", window' = "closed", window # "closed"
               PROVE  state' = "idle" /\ Asked \in {"saved", "canceled"}
    BY DEF vars
  <2>1. ASSUME NEW allowed \in BOOLEAN, Decide(allowed), UNCHANGED state PROVE allowed /\ state' = "idle"
    BY <2>1 DEF Decide, Active
  <2>2. ASSUME ConfirmStop PROVE state' = "idle" /\ Asked \in {"saved", "canceled"}
    <3>1. Decide(FALSE) \/ (Allows /\ Decide(TRUE) /\ UNCHANGED state) \/ UNCHANGED window
      BY <2>2 DEF ConfirmStop, Report
    <3>2. ~Decide(FALSE) BY DEF Decide
    <3> QED BY <2>1, <3>1, <3>2 DEF Allows
  <2>3. ASSUME ConfirmStopped PROVE state' = "idle" /\ Asked \in {"saved", "canceled"}
    <3>1. Decide(FALSE) \/ (Allows /\ Decide(TRUE) /\ UNCHANGED state) \/ UNCHANGED window
      BY <2>3 DEF ConfirmStopped, Report
    <3>2. ~Decide(FALSE) BY DEF Decide
    <3> QED BY <2>1, <3>1, <3>2 DEF Allows
  <2>4. ~Decide(FALSE) BY DEF Decide
  <2>5. ~CloseRequest BY DEF CloseRequest
  <2>6. CASE Start \/ OtherDialog \/ FolderAnswer \/ JobStep \/ PageStep \/ Pump \/ Kick
             \/ Toggle \/ ToggleReply \/ Foreign
    BY <2>6 DEF Start, OtherDialog, FolderAnswer, JobStep, PageStep, Pump, Kick, Toggle,
       ToggleReply, Foreign, ChooseFolder, OpenFile, LoadPage, StartReply, DrainReply,
       DrainStore, StopPump, StopPage, StopDrain, Publish, Unlink, Close, Notify,
       PageStarts, PageChunk, PageFails, PageGone, winVars
  <2>7. CASE WindowStep
    BY <2>2, <2>3, <2>4, <2>5, <2>7 DEF WindowStep, Leave, Return, StopRequest, QuitRequest,
       Exit, ConfirmKeep, ConfirmReported, winVars
  <2> QED BY <2>6, <2>7 DEF Next
<1> QED BY <1>1, PTL DEF Spec, CloseAfterSave

-----------------------------------------------------------------------------
(* The refinement.                                                         *)

\* These steps are not seen by the promise.
LEMMA Unseen ==
  ASSUME CaptureInv, CaptureInv',
            OtherDialog \/ ChooseFolder \/ LoadPage \/ StartReply \/ DrainReply
         \/ DrainStore \/ StopPump \/ StopPage \/ StopDrain \/ PageStarts
         \/ PageChunk \/ PageFails \/ PageGone \/ Pump \/ Kick
         \/ Toggle \/ ToggleReply \/ Leave \/ Return \/ StopRequest
         \/ CloseRequest \/ QuitRequest \/ Exit \/ ConfirmKeep \/ ConfirmStop
         \/ ConfirmStopped \/ ConfirmReported
  PROVE  UNCHANGED Promise!vars
<1> USE DEF pageVars, folderVars, winVars
<1>1. UNCHANGED <<outcome, file>>
  BY DEF OtherDialog, ChooseFolder, LoadPage, StartReply, DrainReply, DrainStore, StopPump,
     StopPage, StopDrain, PageStarts, PageChunk, PageFails, PageGone, Pump, Kick, Toggle,
     ToggleReply, Leave, Return, StopRequest, CloseRequest, QuitRequest, Exit, ConfirmKeep,
     ConfirmStop, ConfirmStopped, ConfirmReported, Fail, Finish, DrainEnds, DrainBegins,
     CallStop
<1>2. (step = "none") = (step' = "none")
  BY DEF OtherDialog, ChooseFolder, LoadPage, StartReply, DrainReply, DrainStore, StopPump,
     StopPage, StopDrain, PageStarts, PageChunk, PageFails, PageGone, Pump, Kick, Toggle,
     ToggleReply, Leave, Return, StopRequest, CloseRequest, QuitRequest, Exit, ConfirmKeep,
     ConfirmStop, ConfirmStopped, ConfirmReported, Fail, Finish, DrainEnds, DrainBegins,
     CallStop, CaptureInv, StepInv, Live
<1> QED BY <1>1, <1>2 DEF Promise!vars, Active, CaptureInv, StepInv

\* Every step of the component is a step of the promise or is not seen by it:
\* a start begins a recording, the file steps write it, a cancel or the close of
\* the file settles its outcome, and the last step of finish ends it.
LEMMA PromiseStep ==
  ASSUME CaptureInv, CaptureInv', Next
  PROVE  Promise!Next \/ UNCHANGED Promise!vars
<1> USE DEF pageVars, folderVars, winVars
<1>0. StepInv /\ StepInv' /\ FileInv BY DEF CaptureInv
<1>a. Running => CountInv BY DEF CaptureInv
<1>1. CASE Start
  BY <1>0, <1>1 DEF Start, Promise!Next, Promise!Begin, Active
<1>2. CASE FolderAnswer
  <2>1. CASE JobCancels /\ step \in {"dialog", "wait"}
    <3>1. file' = file BY <1>2 DEF FolderAnswer
    <3>2. Promise!Settle("canceled")
      BY <1>0, <2>1, <3>1 DEF JobCancels, Promise!Settle, Active, StepInv, FileInv, Beginning
    <3> QED BY <3>2 DEF Promise!Next, Promise!Outcome
  <2>2. CASE ~(JobCancels /\ step \in {"dialog", "wait"})
    BY <1>0, <1>2, <2>2 DEF FolderAnswer, Fail, Finish, Promise!vars, Active
  <2> QED BY <2>1, <2>2
<1>3. CASE OpenFile
  BY <1>0, <1>3 DEF OpenFile, Fail, Finish, Promise!Next, Promise!Write, Promise!Grow,
     Promise!vars,
     Active, StepInv
<1>4. CASE Publish
  <2>1. made = written BY <1>4, <1>a DEF Publish, CountInv, Next
  <2> QED BY <1>0, <1>4, <2>1 DEF Publish, Promise!Next, Promise!Write, Promise!Grow,
             Promise!vars, Active, StepInv
<1>5. CASE Unlink
  BY <1>0, <1>5 DEF Unlink, Promise!Next, Promise!Write, Promise!Grow, Promise!vars, Active,
     StepInv, FileInv
<1>6. CASE Close
  <2>1. /\ step = "close" /\ UNCHANGED <<state, file>> /\ outcome' \in {"saved", "failed"}
        /\ outcome' = "saved" => ~error
    BY <1>6 DEF Close
  <2>2. Promise!Settle(outcome')
    BY <1>0, <2>1 DEF Promise!Settle, Active, StepInv, FileInv
  <2> QED BY <2>1, <2>2 DEF Promise!Next, Promise!Outcome
<1>7. CASE Notify
  BY <1>0, <1>7 DEF Notify, Promise!Next, Promise!Rest, Active, StepInv
<1>8. CASE Foreign
  BY <1>8 DEF Foreign, Promise!Next, Promise!Foreign, Promise!Grow, Active
<1>9. CASE ~(Start \/ FolderAnswer \/ OpenFile \/ Publish \/ Unlink \/ Close \/ Notify \/ Foreign)
  BY <1>9, Unseen DEF Next, JobStep, PageStep, WindowStep
<1> QED BY <1>1, <1>2, <1>3, <1>4, <1>5, <1>6, <1>7, <1>8, <1>9

\* Recordings come one at a time, "saved" is said only of a whole file at its
\* destination, no outcome changes, nobody's file is replaced and nothing
\* written is taken away: capture.cjs implements RecordingPromise.
THEOREM RecordingKept == Spec => KeepsPromise
<1>1. Init => Promise!Init
  BY DEF Init, Promise!Init, Active
<1>2. CaptureInv /\ CaptureInv' /\ [Next]_vars => [Promise!Next]_(Promise!vars)
  <2> SUFFICES ASSUME CaptureInv, CaptureInv', [Next]_vars
               PROVE  Promise!Next \/ UNCHANGED Promise!vars
    OBVIOUS
  <2>1. CASE Next BY <2>1, PromiseStep
  <2>2. CASE UNCHANGED vars BY <2>2 DEF vars, Promise!vars, Active
  <2> QED BY <2>1, <2>2
<1> QED BY <1>1, <1>2, CaptureInvariant, PTL DEF Spec, KeepsPromise, Promise!Spec

=============================================================================
