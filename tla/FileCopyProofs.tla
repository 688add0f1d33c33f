--------------------------- MODULE FileCopyProofs ---------------------------
(***************************************************************************)
(* Theorems about FileCopy, for any number of actions, jobs, keys,         *)
(* terminals and bridges, and for every limit: what a copy owns and        *)
(* reports; then consent, which is never outlived by a publication; then   *)
(* the order of locks, and the jobs that serve a request.                  *)
(***************************************************************************)
EXTENDS FileCopy, FiniteSetTheorems, TLAPS

-----------------------------------------------------------------------------
(* The inductive invariant: what each thread and its record agree on.      *)

\* A thread has a slot exactly where the code says it owns one.
SlotOwner(c) ==
  /\ worker[c].pc \in {"none", "prepare", "reread", "slot"} => ~worker[c].slot
  /\ worker[c].pc = "begin" => worker[c].slot

\* How far the thread has got and what the record says of it.
Progress(c) ==
  /\ worker[c].pc \in {"prepare", "reread", "insert", "abort"}
       => c \in Job /\ copies[c].key \in Key
  /\ c \in Job /\ worker[c].pc \in {"none", "prepare", "reread", "insert"}
       => copies[c].status = "unused"
  /\ c \in Action /\ copies[c].status \in {"unused", "pending_approval"}
       => worker[c].pc = "none"
  /\ worker[c].pc = "fetch" => worker[c].left > 0

\* Only the thread that passed the barrier and has not yet recorded the
\* outcome works on a committing copy, and it knows whether it published.
Commit(c) ==
  /\ copies[c].status = "committing" => worker[c].pc \in {"publish", "confirm", "fail"}
  /\ worker[c].pc \in {"publish", "confirm"} => copies[c].status = "committing"
  /\ worker[c].pc = "publish" => c \notin published
  /\ worker[c].pc = "confirm" => c \in published
  /\ worker[c].pc = "fail" /\ copies[c].status = "committing" /\ c \in published
       => worker[c].err = "unknown"

Outcome(c) ==
  /\ copies[c].status = "completed" => c \in published
  /\ c \in published =>
       \/ copies[c].status \in {"committing", "completed"}
       \/ copies[c].status = "failed" /\ copies[c].code = "unknown"

Local(c) == SlotOwner(c) /\ Progress(c) /\ Commit(c) /\ Outcome(c)

CopyInv == TypeOK /\ SlotsBalance /\ \A c \in Copy : Local(c)

-----------------------------------------------------------------------------
(* The slots.                                                              *)

Owners == {c \in Copy : worker[c].slot}

LEMMA OwnersFinite == IsFiniteSet(Owners) /\ IsFiniteSet(Owners')
<1>1. IsFiniteSet(Copy)
  BY CopiesAssumption, FS_Union DEF Copy
<1>2. Owners \subseteq Copy /\ Owners' \subseteq Copy
  BY DEF Owners
<1> QED BY <1>1, <1>2, FS_Subset

LEMMA Balance == SlotsBalance <=> slots + Cardinality(Owners) = Slots
BY DEF SlotsBalance, Owners

LEMMA SlotsUnchanged ==
  ASSUME TypeOK, SlotsBalance, slots' = slots,
         \A d \in Copy : worker'[d].slot = worker[d].slot
  PROVE  slots' \in 0..Slots /\ SlotsBalance'
<1>1. Owners' = Owners
  BY DEF Owners
<1> QED BY <1>1 DEF SlotsBalance, Owners, TypeOK

LEMMA SlotTaken ==
  ASSUME TypeOK, SlotsBalance, NEW c \in Copy, slots > 0, slots' = slots - 1,
         ~worker[c].slot, worker'[c].slot,
         \A d \in Copy \ {c} : worker'[d].slot = worker[d].slot
  PROVE  slots' \in 0..Slots /\ SlotsBalance'
<1>1. Owners' = Owners \cup {c} /\ c \notin Owners
  BY DEF Owners
<1>2. Cardinality(Owners') = Cardinality(Owners) + 1
  BY <1>1, OwnersFinite, FS_AddElement
<1>3. Cardinality(Owners) \in Nat
  BY OwnersFinite, FS_CardinalityType
<1>4. slots \in 0..Slots /\ Slots \in Nat /\ slots + Cardinality(Owners) = Slots
  BY LimitsAssumption, Balance DEF TypeOK
<1>5. slots' + Cardinality(Owners') = Slots
  BY <1>2, <1>3, <1>4
<1>6. SlotsBalance'
  BY <1>5 DEF SlotsBalance, Owners
<1> QED BY <1>4, <1>6

LEMMA SlotReturned ==
  ASSUME TypeOK, SlotsBalance, NEW c \in Copy, slots' = slots + 1,
         worker[c].slot, ~worker'[c].slot,
         \A d \in Copy \ {c} : worker'[d].slot = worker[d].slot
  PROVE  slots' \in 0..Slots /\ SlotsBalance'
<1>1. Owners' = Owners \ {c} /\ c \in Owners
  BY DEF Owners
<1>2. Cardinality(Owners') = Cardinality(Owners) - 1
  BY <1>1, OwnersFinite, FS_RemoveElement
<1>3. Cardinality(Owners) \in Nat /\ Cardinality(Owners') \in Nat
  BY OwnersFinite, FS_CardinalityType
<1>4. slots \in 0..Slots /\ Slots \in Nat /\ slots + Cardinality(Owners) = Slots
  BY LimitsAssumption, Balance DEF TypeOK
<1>5. slots' + Cardinality(Owners') = Slots /\ slots' \in 0..Slots
  BY <1>2, <1>3, <1>4
<1>6. SlotsBalance'
  BY <1>5 DEF SlotsBalance, Owners
<1> QED BY <1>5, <1>6

\* A thread returns with Finish whether or not it owns a slot.
LEMMA FinishSlots ==
  ASSUME TypeOK, SlotsBalance, NEW c \in Copy, Finish(c)
  PROVE  slots' \in 0..Slots /\ SlotsBalance'
<1>0. /\ worker'[c].slot = FALSE
      /\ \A d \in Copy \ {c} : worker'[d].slot = worker[d].slot
      /\ worker[c].slot \in BOOLEAN
  BY DEF Finish, NoWorker, TypeOK, WorkerRec
<1>1. CASE worker[c].slot
  BY <1>0, <1>1, SlotReturned DEF Finish
<1>2. CASE ~worker[c].slot
  <2>1. \A d \in Copy : worker'[d].slot = worker[d].slot
    BY <1>0, <1>2
  <2> QED BY <1>2, <2>1, SlotsUnchanged DEF Finish
<1> QED BY <1>1, <1>2

-----------------------------------------------------------------------------
(* Copies that a step is not about.                                        *)

\* The record keeps its place in the invariant: it is as it was, or stopped.
SameRecord(c) ==
  /\ copies'[c].key = copies[c].key
  /\ \/ copies'[c].status = copies[c].status /\ copies'[c].code = copies[c].code
     \/ /\ copies[c].status \in Stoppable
        /\ copies'[c].status \in {"failed", "rejected", "cancelled"}

LEMMA Bystander ==
  ASSUME NEW c \in Copy, Local(c), SameRecord(c),
         worker'[c] = worker[c], c \in published' <=> c \in published
  PROVE  Local(c)'
BY DEF Local, SlotOwner, Progress, Commit, Outcome, SameRecord, Stoppable

\* A step that no thread takes.
LEMMA Bystanders ==
  ASSUME CopyInv, TypeOK', UNCHANGED <<worker, slots, published>>,
         \A c \in Copy : SameRecord(c)
  PROVE  CopyInv'
<1>1. \A c \in Copy : Local(c)'
  BY Bystander DEF CopyInv
<1>2. SlotsBalance'
  BY SlotsUnchanged DEF CopyInv
<1> QED BY <1>1, <1>2 DEF CopyInv

\* The updates of a record keep its type.
LEMMA RecordType ==
  ASSUME NEW r \in CopyRec
  PROVE  /\ \A b \in BOOLEAN : [r EXCEPT !.kept = b] \in CopyRec
         /\ \A st \in CopyStatus : [r EXCEPT !.status = st] \in CopyRec
         /\ \A st \in CopyStatus, e \in Code :
              [r EXCEPT !.status = st, !.code = e] \in CopyRec
         /\ \A st \in CopyStatus, b \in BOOLEAN :
              [r EXCEPT !.status = st, !.kept = b] \in CopyRec
<1>1. \A b \in BOOLEAN : [r EXCEPT !.kept = b] \in CopyRec
  BY DEF CopyRec
<1>2. \A st \in CopyStatus : [r EXCEPT !.status = st] \in CopyRec
  BY DEF CopyRec
<1>3. ASSUME NEW st \in CopyStatus
      PROVE  /\ \A e \in Code : [r EXCEPT !.status = st, !.code = e] \in CopyRec
             /\ \A b \in BOOLEAN : [r EXCEPT !.status = st, !.kept = b] \in CopyRec
  <2> DEFINE q == [r EXCEPT !.status = st]
  <2>1. q \in CopyRec BY <1>2
  <2> HIDE DEF q
  <2>2. /\ \A e \in Code : [q EXCEPT !.code = e] \in CopyRec
        /\ \A b \in BOOLEAN : [q EXCEPT !.kept = b] \in CopyRec
    BY <2>1 DEF CopyRec
  <2> QED BY <2>2 DEF q
<1> QED BY <1>1, <1>2, <1>3

LEMMA CancelledType ==
  ASSUME TypeOK, NEW C
  PROVE  Cancelled(C) \in [Copy -> CopyRec]
<1>1. ASSUME NEW c \in Copy
      PROVE  /\ copies[c] \in CopyRec
             /\ [copies[c] EXCEPT !.status = "failed", !.code = "stopped"] \in CopyRec
  BY RecordType DEF TypeOK, CopyStatus, Ended, Code
<1> QED BY <1>1 DEF Cancelled

LEMMA CancelledIsSame ==
  ASSUME TypeOK, NEW C, copies' = Cancelled(C)
  PROVE  \A c \in Copy : SameRecord(c)
<1> SUFFICES ASSUME NEW c \in Copy PROVE SameRecord(c)
  OBVIOUS
<1>1. copies[c] \in CopyRec
  BY DEF TypeOK
<1> QED BY <1>1 DEF Cancelled, SameRecord, CopyRec

LEMMA CopyOfType ==
  ASSUME TypeOK, NEW s \in Terminal, NEW d \in Terminal, NEW n \in 0..MaxChunks,
         NEW k \in Key \cup {Nobody}, NEW st \in CopyStatus, NEW b \in BOOLEAN
  PROVE  CopyOf(s, d, n, k, st, b) \in CopyRec
<1>1. End(s) \in EndRec /\ End(d) \in EndRec
  BY DEF TypeOK, End, EndRec, ConsentRec
<1> QED BY <1>1, LimitsAssumption DEF CopyOf, CopyRec, Code

\* Dropping records from their table changes nothing else of them.
LEMMA DroppedType ==
  ASSUME TypeOK, NEW gone
  PROVE  /\ Dropped(gone) \in [Copy -> CopyRec]
         /\ \A c \in Copy : /\ Dropped(gone)[c].key = copies[c].key
                            /\ Dropped(gone)[c].status = copies[c].status
                            /\ Dropped(gone)[c].code = copies[c].code
                            /\ Dropped(gone)[c].size = copies[c].size
<1> SUFFICES ASSUME NEW c \in Copy
             PROVE  LET r == IF c \in gone THEN [copies[c] EXCEPT !.kept = FALSE]
                             ELSE copies[c]
                    IN  /\ r \in CopyRec /\ r.key = copies[c].key
                        /\ r.status = copies[c].status /\ r.code = copies[c].code
                        /\ r.size = copies[c].size
  BY DEF Dropped
<1> QED BY DEF TypeOK, CopyRec

LEMMA UnchangedIsSame ==
  ASSUME UNCHANGED copies
  PROVE  \A c \in Copy : SameRecord(c)
BY DEF SameRecord

-----------------------------------------------------------------------------
LEMMA InitInv == Init => CopyInv
<1> SUFFICES ASSUME Init PROVE CopyInv
  OBVIOUS
<1>1. TypeOK
  <2>1. NoCopy \in CopyRec
    BY LimitsAssumption DEF NoCopy, NoEnd, CopyRec, EndRec, CopyStatus, Code
  <2>2. NoWorker \in WorkerRec
    BY DEF NoWorker, WorkerRec, Pc, Code
  <2>3. NoConsent \in ConsentRec
    BY DEF NoConsent, ConsentRec
  <2> QED
    BY <2>1, <2>2, <2>3, LimitsAssumption DEF Init, TypeOK
<1>2. SlotsBalance
  <2>1. Owners = {}
    BY DEF Init, Owners, NoWorker
  <2> QED BY <2>1, FS_EmptySet, LimitsAssumption DEF Init, SlotsBalance, Owners
<1>3. \A c \in Copy : Local(c)
  BY DEF Init, Local, SlotOwner, Progress, Commit, Outcome, NoWorker, NoCopy
<1> QED BY <1>1, <1>2, <1>3 DEF CopyInv

-----------------------------------------------------------------------------
(* Agent states, tokens and terminals.                                     *)

LEMMA InvalidateStep ==
  ASSUME CopyInv, NEW T, Invalidate(T), online' \in BOOLEAN,
         bridge' \in [Terminal -> 0..MaxBridge],
         ending' \in [Terminal -> {"no", "closing", "popped"}]
  PROVE  CopyInv'
<1>1. copies' \in [Copy -> CopyRec] /\ \A c \in Copy : SameRecord(c)
  BY CancelledType, CancelledIsSame DEF CopyInv, Invalidate
<1>2. consent' \in [Terminal -> ConsentRec]
  BY DEF CopyInv, TypeOK, Invalidate, NoConsent, ConsentRec
<1>3. token' \in [Terminal -> {"none", "live", "expired", "revoked"}]
  BY DEF CopyInv, TypeOK, Invalidate
<1>4. TypeOK'
  BY <1>1, <1>2, <1>3 DEF CopyInv, TypeOK, Invalidate, lockVars
<1> QED BY <1>1, <1>4, Bystanders DEF Invalidate

LEMMA TerminalStep ==
  ASSUME CopyInv, NEW t \in Terminal,
         Start(t) \/ CloseInvalidate(t) \/ ClosePop(t) \/ EndPop(t) \/ EndInvalidate(t)
  PROVE  CopyInv'
<1>1. CASE CloseInvalidate(t) \/ EndInvalidate(t)
  BY <1>1, InvalidateStep DEF CloseInvalidate, EndInvalidate, CopyInv, TypeOK
<1>2. CASE ClosePop(t) \/ EndPop(t)
  <2>1. TypeOK'
    BY <1>2, LimitsAssumption
    DEF ClosePop, EndPop, TerminalOnly, CopyInv, TypeOK, consentVars, lockVars
  <2> QED BY <1>2, <2>1, Bystanders, UnchangedIsSame DEF ClosePop, EndPop, TerminalOnly
<1>3. CASE Start(t)
  <2>1. created[t] + 1 \in 0..MaxBridge
    BY <1>3, LimitsAssumption DEF Start, CopyInv, TypeOK
  <2>2. TypeOK'
    BY <1>3, <2>1 DEF Start, TerminalOnly, CopyInv, TypeOK, consentVars, lockVars
  <2> QED BY <1>3, <2>2, Bystanders, UnchangedIsSame DEF Start, TerminalOnly
<1> QED BY <1>1, <1>2, <1>3

LEMMA ConsentStep ==
  ASSUME CopyInv, NEW t \in Terminal, NEW opens \in BOOLEAN, NEW resume \in BOOLEAN,
         Attach(t, opens) \/ Control(t, opens, resume) \/ Detach(t)
  PROVE  CopyInv'
<1>1. CASE Attach(t, opens)
  <2>1. consent' \in [Terminal -> ConsentRec] /\ bindings' \in [Terminal -> Nat]
    BY <1>1 DEF Attach, CopyInv, TypeOK, ConsentRec
  <2>2. TypeOK'
    BY <1>1, <2>1 DEF Attach, CopyInv, TypeOK, terminalVars, lockVars
  <2> QED BY <1>1, <2>2, Bystanders, UnchangedIsSame DEF Attach
<1>2. CASE Control(t, opens, resume)
  <2> DEFINE w == [consent[t] EXCEPT !.version = @ + 1]
             u == [w EXCEPT !.open = opens]
  <2>1. w \in ConsentRec
    BY DEF CopyInv, TypeOK, ConsentRec
  <2>2. consent' = [consent EXCEPT ![t] = u]
    BY <1>2 DEF Control, CopyInv, TypeOK
  <2> HIDE DEF w
  <2>3. u \in ConsentRec
    BY <2>1 DEF ConsentRec
  <2> HIDE DEF u
  <2>4. consent' \in [Terminal -> ConsentRec]
    BY <2>2, <2>3 DEF CopyInv, TypeOK
  <2>5. copies' \in [Copy -> CopyRec] /\ \A c \in Copy : SameRecord(c)
    BY <1>2, CancelledType, CancelledIsSame, UnchangedIsSame DEF Control, CopyInv, TypeOK
  <2>6. TypeOK'
    BY <1>2, <2>4, <2>5 DEF Control, CopyInv, TypeOK, terminalVars, lockVars
  <2> QED BY <1>2, <2>5, <2>6, Bystanders DEF Control
<1>3. CASE Detach(t)
  BY <1>3, InvalidateStep DEF Detach, CopyInv, TypeOK
<1> QED BY <1>1, <1>2, <1>3

LEMMA TokenStep ==
  ASSUME CopyInv, NEW t \in Terminal,
         \/ Mint(t) \/ TokenExpires(t) \/ TokenRenewed(t)
         \/ RevokeToken(t) \/ RevokeCancel(t)
  PROVE  CopyInv'
<1>1. CASE Mint(t) \/ TokenExpires(t) \/ TokenRenewed(t) \/ RevokeToken(t)
  <2>1. TypeOK'
    BY <1>1 DEF Mint, TokenExpires, TokenRenewed, RevokeToken, SetToken,
                CopyInv, TypeOK, terminalVars, lockVars
  <2> QED BY <1>1, <2>1, Bystanders, UnchangedIsSame
      DEF Mint, TokenExpires, TokenRenewed, RevokeToken, SetToken
<1>2. CASE RevokeCancel(t)
  <2>1. copies' \in [Copy -> CopyRec] /\ \A c \in Copy : SameRecord(c)
    BY <1>2, CancelledType, CancelledIsSame DEF RevokeCancel, CopyInv
  <2>2. TypeOK'
    BY <1>2, <2>1 DEF RevokeCancel, CopyInv, TypeOK, consentVars, terminalVars, lockVars
  <2> QED BY <1>2, <2>1, <2>2, Bystanders DEF RevokeCancel
<1> QED BY <1>1, <1>2

LEMMA SettingStep == CopyInv /\ Setting => CopyInv'
<1> SUFFICES ASSUME CopyInv, Setting PROVE CopyInv'
  OBVIOUS
<1>1. CASE Disconnect
  BY <1>1, InvalidateStep DEF Disconnect, CopyInv, TypeOK
<1>2. CASE ~Disconnect
  BY <1>2, TerminalStep, ConsentStep, TokenStep DEF Setting
<1> QED BY <1>1, <1>2

-----------------------------------------------------------------------------
(* Threads.                                                                *)

\* A step about one copy.
LEMMA OneCopy ==
  ASSUME CopyInv, TypeOK', SlotsBalance', NEW c \in Copy, Local(c)',
         \A d \in Copy \ {c} :
           SameRecord(d) /\ worker'[d] = worker[d] /\ (d \in published' <=> d \in published)
  PROVE  CopyInv'
<1>1. \A d \in Copy \ {c} : Local(d)'
  BY Bystander DEF CopyInv
<1> QED BY <1>1 DEF CopyInv

\* What the three ways to move a thread do to it.
LEMMA GotoWorker ==
  ASSUME TypeOK, NEW c \in Copy, NEW p \in Pc, Goto(c, p)
  PROVE  /\ worker' \in [Copy -> WorkerRec]
         /\ worker'[c].pc = p /\ worker'[c].slot = worker[c].slot
         /\ worker'[c].left = worker[c].left /\ worker'[c].err = worker[c].err
         /\ \A d \in Copy \ {c} : worker'[d] = worker[d]
BY DEF TypeOK, Goto, WorkerRec

LEMMA FailsWorker ==
  ASSUME TypeOK, NEW c \in Copy, NEW e \in Code, Fails(c, e)
  PROVE  /\ worker' \in [Copy -> WorkerRec]
         /\ worker'[c].pc = "fail" /\ worker'[c].slot = worker[c].slot
         /\ worker'[c].err = e
         /\ \A d \in Copy \ {c} : worker'[d] = worker[d]
<1> DEFINE w == [worker[c] EXCEPT !.pc = "fail"]
           u == [w EXCEPT !.err = e]
<1>1. w \in WorkerRec /\ w.pc = "fail" /\ w.slot = worker[c].slot
  BY DEF TypeOK, WorkerRec, Pc
<1>2. worker' = [worker EXCEPT ![c] = u]
  BY DEF TypeOK, Fails
<1> HIDE DEF w
<1>3. u \in WorkerRec /\ u.pc = w.pc /\ u.slot = w.slot /\ u.err = e
  BY <1>1 DEF WorkerRec
<1> HIDE DEF u
<1> QED BY <1>1, <1>2, <1>3 DEF TypeOK

LEMMA FinishWorker ==
  ASSUME TypeOK, NEW c \in Copy, Finish(c)
  PROVE  /\ worker' \in [Copy -> WorkerRec]
         /\ worker'[c].pc = "done" /\ worker'[c].slot = FALSE
         /\ \A d \in Copy \ {c} : worker'[d] = worker[d]
BY DEF TypeOK, Finish, NoWorker, WorkerRec, Pc, Code

LEMMA SlotsStay ==
  ASSUME TypeOK, SlotsBalance, NEW c \in Copy, slots' = slots,
         worker'[c].slot = worker[c].slot, \A d \in Copy \ {c} : worker'[d] = worker[d]
  PROVE  slots' \in 0..Slots /\ SlotsBalance'
BY SlotsUnchanged

\* A thread that only moves on, or gives up, while no record changes.
LEMMA MoveOn ==
  ASSUME CopyInv, NEW c \in Copy, NEW p \in Pc, Goto(c, p), WorkerOnly,
         worker[c].pc # "none", Local(c)'
  PROVE  CopyInv'
<1>1. slots' \in 0..Slots /\ SlotsBalance'
  BY SlotsStay, GotoWorker DEF CopyInv, WorkerOnly
<1>2. TypeOK'
  BY <1>1, GotoWorker DEF CopyInv, TypeOK, WorkerOnly, CopyOnly, consentVars, terminalVars, lockVars
<1>3. \A d \in Copy \ {c} :
        SameRecord(d) /\ worker'[d] = worker[d] /\ (d \in published' <=> d \in published)
  BY GotoWorker, UnchangedIsSame DEF CopyInv, WorkerOnly, CopyOnly
<1> QED BY <1>1, <1>2, <1>3, OneCopy

-----------------------------------------------------------------------------
(* Agent actions.                                                          *)

LEMMA ProposeStep ==
  ASSUME CopyInv, NEW a \in Action, NEW s \in Terminal, NEW d \in Terminal,
         NEW n \in 0..MaxChunks, Propose(a, s, d, n)
  PROVE  CopyInv'
<1> DEFINE new == CopyOf(s, d, n, Nobody, "pending_approval", TRUE)
<1>1. PICK gone \in Room(s) : copies' = [Dropped(gone) EXCEPT ![a] = new]
  BY DEF Propose
<1>4. new \in CopyRec /\ new.status = "pending_approval" /\ new.code = "none" /\ new.key = Nobody
  BY CopyOfType DEF CopyInv, CopyStatus, Retained, CopyOf
<1> HIDE DEF new
<1>6. a \in Copy /\ copies' \in [Copy -> CopyRec] /\ copies'[a] = new
  BY <1>1, <1>4, DroppedType DEF CopyInv, Copy
<1>7. \A c \in Copy \ {a} : SameRecord(c)
  BY <1>1, DroppedType DEF CopyInv, SameRecord
<1>8. TypeOK'
  BY <1>6 DEF Propose, CopyInv, TypeOK, CopyOnly, consentVars, terminalVars, lockVars
<1>9. SlotsBalance'
  BY SlotsUnchanged DEF CopyInv, Propose
<1>10. Local(a)'
  BY <1>4, <1>6, CopiesAssumption
  DEF Propose, CopyOnly, CopyInv, Local, SlotOwner, Progress, Commit, Outcome
<1> QED BY <1>6, <1>7, <1>8, <1>9, <1>10, OneCopy DEF Propose, CopyOnly

LEMMA DecisionStep ==
  ASSUME CopyInv, NEW a \in Action, Approve(a) \/ Reject(a) \/ Cancel(a)
  PROVE  CopyInv'
<1>0. a \in Copy /\ a \notin Job
  BY CopiesAssumption DEF Copy
<1>1. CASE Approve(a)
  <2> DEFINE r == [copies[a] EXCEPT !.status = "approved"]
  <2>0. copies[a] \in CopyRec /\ "approved" \in CopyStatus
    BY <1>0 DEF CopyInv, TypeOK, CopyStatus, Retained
  <2>1. r \in CopyRec /\ r.status = "approved"
    BY <2>0, RecordType DEF CopyRec
  <2>2. copies' = [copies EXCEPT ![a] = r]
    BY <1>1 DEF Approve
  <2> HIDE DEF r
  <2>3. Goto(a, "slot") /\ "slot" \in Pc
    BY <1>1 DEF Approve, Goto, Pc
  <2>4. TypeOK' /\ SlotsBalance'
    BY <1>0, <1>1, <2>1, <2>2, <2>3, GotoWorker, SlotsStay
    DEF Approve, CopyInv, TypeOK, CopyOnly, consentVars, terminalVars, lockVars
  <2>5. worker[a].pc = "none"
    BY <1>0, <1>1 DEF Approve, CopyInv, Local, Progress
  <2>6. worker'[a].pc = "slot" /\ worker'[a].slot = worker[a].slot
    BY <1>0, <2>3, GotoWorker DEF CopyInv
  <2>7. copies'[a].status = "approved"
    BY <1>0, <2>1, <2>2 DEF CopyInv, TypeOK
  <2>8. Local(a)'
    BY <1>0, <1>1, <2>5, <2>6, <2>7
    DEF Approve, CopyOnly, CopyInv, Local, SlotOwner, Progress, Commit, Outcome
  <2>9. \A d \in Copy \ {a} : SameRecord(d) /\ worker'[d] = worker[d]
    BY <1>0, <2>2, <2>3, GotoWorker DEF CopyInv, TypeOK, SameRecord
  <2> QED BY <1>0, <1>1, <2>4, <2>8, <2>9, OneCopy DEF Approve, CopyOnly
<1>2. CASE Reject(a)
  <2>1. copies' \in [Copy -> CopyRec]
    BY <1>0, <1>2, RecordType DEF Reject, CopyInv, TypeOK, CopyStatus, Ended
  <2>2. \A c \in Copy : SameRecord(c)
    BY <1>0, <1>2 DEF Reject, CopyInv, TypeOK, CopyRec, SameRecord, Stoppable
  <2>3. TypeOK'
    BY <1>2, <2>1 DEF Reject, CopyInv, TypeOK, CopyOnly, consentVars, terminalVars, lockVars
  <2> QED BY <1>2, <2>2, <2>3, Bystanders DEF Reject, CopyOnly
<1>3. CASE Cancel(a)
  <2>1. copies' \in [Copy -> CopyRec] /\ \A c \in Copy : SameRecord(c)
    BY <1>3, CancelledType, CancelledIsSame DEF Cancel, CopyInv
  <2>2. TypeOK'
    BY <1>3, <2>1 DEF Cancel, CopyInv, TypeOK, CopyOnly, consentVars, terminalVars, lockVars
  <2> QED BY <1>3, <2>1, <2>2, Bystanders DEF Cancel, CopyOnly
<1> QED BY <1>1, <1>2, <1>3

\* Steps of the thread of one copy that change its place and its slot, but no
\* record, request or consent.
LEMMA ActionSlotStep ==
  ASSUME CopyInv, NEW c \in Copy, ActionSlot(c)
  PROVE  CopyInv'
<1>1. CASE slots = 0
  <2>1. Fails(c, "busy") /\ slots' = slots
    BY <1>1 DEF ActionSlot
  <2>2. "busy" \in Code
    BY DEF Code
  <2>3. TypeOK' /\ SlotsBalance'
    BY <2>1, <2>2, FailsWorker, SlotsStay
    DEF ActionSlot, CopyInv, TypeOK, CopyOnly, consentVars, terminalVars, lockVars
  <2>4. Local(c)'
    BY <2>1, <2>2, FailsWorker
    DEF ActionSlot, CopyOnly, CopyInv, Local, SlotOwner, Progress, Commit, Outcome
  <2> QED BY <2>1, <2>2, <2>3, <2>4, FailsWorker, UnchangedIsSame, OneCopy
      DEF ActionSlot, CopyOnly, CopyInv
<1>2. CASE slots # 0
  <2> DEFINE w == [worker[c] EXCEPT !.pc = "begin"]
             u == [w EXCEPT !.slot = TRUE]
             v == [u EXCEPT !.left = copies[c].size]
  <2>1. w \in WorkerRec /\ w.pc = "begin"
    BY DEF CopyInv, TypeOK, WorkerRec, Pc
  <2>2. worker' = [worker EXCEPT ![c] = v]
    BY <1>2 DEF ActionSlot, CopyInv, TypeOK
  <2> HIDE DEF w
  <2>3. u \in WorkerRec /\ u.pc = "begin" /\ u.slot = TRUE
    BY <2>1 DEF WorkerRec
  <2> HIDE DEF u
  <2>4. v \in WorkerRec /\ v.pc = "begin" /\ v.slot = TRUE
    BY <2>3 DEF WorkerRec, CopyInv, TypeOK, CopyRec
  <2> HIDE DEF v
  <2>5. /\ worker' \in [Copy -> WorkerRec]
        /\ worker'[c].pc = "begin" /\ worker'[c].slot = TRUE
        /\ \A d \in Copy \ {c} : worker'[d] = worker[d]
    BY <2>2, <2>4 DEF CopyInv, TypeOK
  <2>6. ~worker[c].slot /\ worker[c].pc = "slot"
    BY DEF ActionSlot, CopyInv, Local, SlotOwner
  <2>7. slots > 0 /\ slots' = slots - 1
    BY <1>2, LimitsAssumption DEF ActionSlot, CopyInv, TypeOK
  <2>8. slots' \in 0..Slots /\ SlotsBalance'
    BY <2>5, <2>6, <2>7, SlotTaken DEF CopyInv
  <2>9. TypeOK'
    BY <2>5, <2>8
    DEF ActionSlot, CopyInv, TypeOK, CopyOnly, consentVars, terminalVars, lockVars
  <2>10. Local(c)'
    BY <2>5, <2>6
    DEF ActionSlot, CopyOnly, CopyInv, Local, SlotOwner, Progress, Commit, Outcome
  <2> QED BY <2>5, <2>8, <2>9, <2>10, UnchangedIsSame, OneCopy DEF ActionSlot, CopyOnly
<1> QED BY <1>1, <1>2

LEMMA ActionNotStartedStep ==
  ASSUME CopyInv, NEW c \in Copy, ActionNotStarted(c)
  PROVE  CopyInv'
<1> DEFINE w == [worker[c] EXCEPT !.pc = "fail"]
           u == [w EXCEPT !.err = "busy"]
           v == [u EXCEPT !.slot = FALSE]
<1>1. w \in WorkerRec /\ w.pc = "fail"
  BY DEF CopyInv, TypeOK, WorkerRec, Pc
<1>2. worker' = [worker EXCEPT ![c] = v]
  BY DEF ActionNotStarted, CopyInv, TypeOK
<1> HIDE DEF w
<1>3. u \in WorkerRec /\ u.pc = "fail"
  BY <1>1 DEF WorkerRec, Code
<1> HIDE DEF u
<1>4. v \in WorkerRec /\ v.pc = "fail" /\ v.slot = FALSE
  BY <1>3 DEF WorkerRec
<1> HIDE DEF v
<1>5. /\ worker' \in [Copy -> WorkerRec]
      /\ worker'[c].pc = "fail" /\ worker'[c].slot = FALSE
      /\ \A d \in Copy \ {c} : worker'[d] = worker[d]
  BY <1>2, <1>4 DEF CopyInv, TypeOK
<1>6. worker[c].slot /\ worker[c].pc = "begin"
  BY DEF ActionNotStarted, CopyInv, Local, SlotOwner
<1>7. slots' \in 0..Slots /\ SlotsBalance'
  BY <1>5, <1>6, SlotReturned DEF CopyInv, ActionNotStarted
<1>8. TypeOK'
  BY <1>5, <1>7
  DEF ActionNotStarted, CopyInv, TypeOK, CopyOnly, consentVars, terminalVars, lockVars
<1>9. Local(c)'
  BY <1>5, <1>6
  DEF ActionNotStarted, CopyOnly, CopyInv, Local, SlotOwner, Progress, Commit, Outcome
<1> QED BY <1>5, <1>7, <1>8, <1>9, UnchangedIsSame, OneCopy DEF ActionNotStarted, CopyOnly

\* What recording an error does to a record.
LEMMA FailRecordType ==
  ASSUME TypeOK, NEW c \in Copy, NEW e \in Code
  PROVE  /\ FailRecord(c, e) \in CopyRec
         /\ FailRecord(c, e).key = copies[c].key
         /\ \/ /\ copies[c].status \in {"approved", "running", "committing"}
               /\ FailRecord(c, e).status = "failed" /\ FailRecord(c, e).code = e
            \/ /\ copies[c].status \notin {"approved", "running", "committing"}
               /\ FailRecord(c, e) = copies[c]
<1>1. copies[c] \in CopyRec
  BY DEF TypeOK
<1>2. CASE copies[c].status \in {"approved", "running", "committing"}
  <2> DEFINE q == [copies[c] EXCEPT !.status = "failed", !.code = e]
  <2>1. q \in CopyRec
    BY <1>1, RecordType DEF CopyStatus, Ended
  <2>2. q.key = copies[c].key /\ q.status = "failed" /\ q.code = e
    BY <1>1 DEF CopyRec
  <2>3. FailRecord(c, e) = q
    BY <1>2 DEF FailRecord
  <2> QED BY <1>2, <2>1, <2>2, <2>3
<1>3. CASE copies[c].status \notin {"approved", "running", "committing"}
  BY <1>1, <1>3 DEF FailRecord
<1> QED BY <1>2, <1>3

LEMMA BeginStep ==
  ASSUME CopyInv, NEW c \in Copy, Begin(c)
  PROVE  CopyInv'
<1>0. worker[c].pc = "begin" /\ copies[c] \in CopyRec /\ Denial(c) \in Code
  BY DEF Begin, CopyInv, TypeOK, Denial, Code
<1>1. CASE Stored(c) /\ AgentAllowed(c)
  <2>1. copies' = [copies EXCEPT ![c].status = "running"] /\ Goto(c, "recheck") /\ slots' = slots
    BY <1>1 DEF Begin
  <2>2. "recheck" \in Pc /\ "running" \in CopyStatus
    BY DEF Pc, CopyStatus, Retained
  <2>3. copies' \in [Copy -> CopyRec]
    BY <1>0, <2>1, <2>2, RecordType DEF CopyInv, TypeOK
  <2>4. /\ copies'[c].status = "running"
        /\ \A d \in Copy \ {c} : copies'[d] = copies[d]
    BY <1>0, <2>1 DEF CopyInv, TypeOK, CopyRec
  <2>5. TypeOK' /\ SlotsBalance'
    BY <2>1, <2>2, <2>3, GotoWorker, SlotsStay
    DEF Begin, CopyInv, TypeOK, CopyOnly, consentVars, terminalVars, lockVars
  <2>6. c \notin published
    BY <1>1 DEF AgentAllowed, CopyInv, Local, Outcome
  <2>7. worker'[c].pc = "recheck"
    BY <2>1, <2>2, GotoWorker DEF CopyInv
  <2>8. Local(c)'
    BY <1>0, <2>4, <2>6, <2>7
    DEF Begin, CopyOnly, Local, SlotOwner, Progress, Commit, Outcome
  <2> QED BY <2>1, <2>2, <2>4, <2>5, <2>8, GotoWorker, OneCopy
      DEF Begin, CopyOnly, CopyInv, SameRecord
<1>2. CASE Stored(c) /\ ~AgentAllowed(c)
  <2>1. copies' = [copies EXCEPT ![c] = FailRecord(c, Denial(c))] /\ Finish(c)
    BY <1>2 DEF Begin
  <2>2. /\ copies' \in [Copy -> CopyRec]
        /\ copies'[c] = FailRecord(c, Denial(c))
        /\ \A d \in Copy \ {c} : copies'[d] = copies[d]
    BY <1>0, <2>1, FailRecordType DEF CopyInv, TypeOK
  <2>3. TypeOK' /\ SlotsBalance'
    BY <2>1, <2>2, FinishWorker, FinishSlots
    DEF Begin, CopyInv, TypeOK, CopyOnly, consentVars, terminalVars, lockVars
  <2>4. copies[c].status \notin {"committing", "unused", "pending_approval"} \/ c \notin Action
    BY <1>0 DEF CopyInv, Local, Progress, Commit
  <2>5. copies[c].status # "committing" /\ worker'[c].pc = "done" /\ worker'[c].slot = FALSE
    BY <1>0, <2>1, FinishWorker DEF CopyInv, Local, Commit
  <2>6. Local(c)'
    BY <1>0, <2>2, <2>4, <2>5, FailRecordType
    DEF Begin, CopyOnly, CopyInv, Local, SlotOwner, Progress, Commit, Outcome
  <2> QED BY <2>1, <2>2, <2>3, <2>6, FinishWorker, OneCopy
      DEF Begin, CopyOnly, CopyInv, SameRecord
<1>3. CASE ~Stored(c)
  <2>1. Finish(c) /\ UNCHANGED copies
    BY <1>3 DEF Begin
  <2>2. TypeOK' /\ SlotsBalance'
    BY <2>1, FinishWorker, FinishSlots
    DEF Begin, CopyInv, TypeOK, CopyOnly, consentVars, terminalVars, lockVars
  <2>3. worker'[c].pc = "done" /\ worker'[c].slot = FALSE
    BY <2>1, FinishWorker DEF CopyInv
  <2>4. Local(c)'
    BY <1>0, <2>1, <2>3
    DEF Begin, CopyOnly, CopyInv, Local, SlotOwner, Progress, Commit, Outcome
  <2> QED BY <2>1, <2>2, <2>4, FinishWorker, UnchangedIsSame, OneCopy
      DEF Begin, CopyOnly, CopyInv
<1> QED BY <1>1, <1>2, <1>3

-----------------------------------------------------------------------------
(* The copying procedure.                                                  *)

LEMMA UnwindType ==
  ASSUME TypeOK, NEW c \in Copy, Unwind(c)
  PROVE  /\ copyLock' \in Copy \cup {Nobody}
         /\ busy' \in [Bridge -> Copy \cup {Nobody, "transfer"}]
         /\ transfers' = transfers
BY DEF TypeOK, Unwind

\* A copy gives up before the barrier or at it.
LEMMA CopyFailsStep ==
  ASSUME CopyInv, NEW c \in Copy, NEW e \in Code, CopyFails(c, e),
         worker[c].pc \in {"recheck", "wait", "dest", "check", "fetch", "verify", "barrier"}
  PROVE  CopyInv'
<1>1. Fails(c, e) /\ UNCHANGED <<copies, slots, published>>
  BY DEF CopyFails, CopyOnly
<1>2. TypeOK' /\ SlotsBalance'
  BY <1>1, FailsWorker, SlotsStay, UnwindType
  DEF CopyFails, CopyInv, TypeOK, CopyOnly, consentVars, terminalVars
<1>3. Local(c)'
  BY <1>1, FailsWorker DEF CopyInv, Local, SlotOwner, Progress, Commit, Outcome
<1> QED BY <1>1, <1>2, <1>3, FailsWorker, UnchangedIsSame, OneCopy DEF CopyInv

LEMMA DenialType == \A c \in Copy : Denial(c) \in Code
BY DEF Denial, Code

LEMMA CheckStep ==
  ASSUME CopyInv, NEW c \in Copy, Check(c) \/ Verify(c) \/ TransferFails(c)
  PROVE  CopyInv'
<1>0. worker[c] \in WorkerRec
  BY DEF CopyInv, TypeOK
<1>1. CASE Check(c) /\ ~CopyAllowed(c)
  BY <1>1, CopyFailsStep, DenialType DEF Check
<1>2. CASE Check(c) /\ CopyAllowed(c)
  <2> DEFINE p == IF worker[c].pc = "recheck" THEN "wait"
                  ELSE IF worker[c].left = 0 THEN "verify" ELSE "fetch"
  <2>1. p \in Pc /\ p \in {"wait", "verify", "fetch"} /\ (p = "fetch" => worker[c].left # 0)
    BY DEF Pc
  <2>2. Goto(c, p) /\ WorkerOnly /\ worker[c].pc \in {"recheck", "check"}
    BY <1>2 DEF Check
  <2> HIDE DEF p
  <2>3. worker'[c].pc = p /\ worker'[c].left = worker[c].left
    BY <2>1, <2>2, GotoWorker DEF CopyInv
  <2>4. p = "fetch" => worker[c].left > 0
    BY <1>0, <2>1 DEF WorkerRec
  <2>5. Local(c)'
    BY <2>1, <2>2, <2>3, <2>4
    DEF WorkerOnly, CopyOnly, CopyInv, Local, SlotOwner, Progress, Commit, Outcome
  <2> QED BY <2>1, <2>2, <2>5, MoveOn
<1>3. CASE Verify(c)
  <2>1. Goto(c, "barrier") /\ WorkerOnly /\ worker[c].pc = "verify" /\ "barrier" \in Pc
    BY <1>3 DEF Verify, Pc
  <2>2. Local(c)'
    BY <2>1, GotoWorker
    DEF WorkerOnly, CopyOnly, CopyInv, Local, SlotOwner, Progress, Commit, Outcome
  <2> QED BY <2>1, <2>2, MoveOn
<1>4. CASE TransferFails(c)
  BY <1>4, CopyFailsStep DEF TransferFails, Code
<1> QED BY <1>1, <1>2, <1>3, <1>4

LEMMA TakeCopyLockStep ==
  ASSUME CopyInv, NEW c \in Copy, TakeCopyLock(c)
  PROVE  CopyInv'
<1>1. CASE ~CopyAllowed(c)
  BY <1>1, CopyFailsStep, DenialType DEF TakeCopyLock
<1>2. CASE CopyAllowed(c)
  <2>1. /\ Goto(c, "dest") /\ "dest" \in Pc /\ worker[c].pc = "wait"
        /\ UNCHANGED <<copies, slots, published>>
    BY <1>2 DEF TakeCopyLock, CopyOnly, Pc
  <2>2. TypeOK' /\ SlotsBalance'
    BY <1>2, <2>1, GotoWorker, SlotsStay
    DEF TakeCopyLock, CopyInv, TypeOK, CopyOnly, consentVars, terminalVars
  <2>3. Local(c)'
    BY <2>1, GotoWorker DEF CopyInv, Local, SlotOwner, Progress, Commit, Outcome
  <2> QED BY <2>1, <2>2, <2>3, GotoWorker, UnchangedIsSame, OneCopy DEF CopyInv
<1> QED BY <1>1, <1>2

LEMMA OpenDestinationStep ==
  ASSUME CopyInv, NEW c \in Copy, OpenDestination(c)
  PROVE  CopyInv'
<1> DEFINE p == IF worker[c].left = 0 THEN "verify" ELSE "check"
<1>1. /\ Goto(c, p) /\ worker[c].pc = "dest"
      /\ UNCHANGED <<copies, slots, published>>
  BY DEF OpenDestination, CopyOnly
<1>2. p \in Pc /\ p \in {"verify", "check"}
  BY DEF Pc
<1> HIDE DEF p
<1>3. TypeOK' /\ SlotsBalance'
  BY <1>1, <1>2, GotoWorker, SlotsStay
  DEF OpenDestination, CopyInv, TypeOK, CopyOnly, consentVars, terminalVars
<1>4. Local(c)'
  BY <1>1, <1>2, GotoWorker DEF CopyInv, Local, SlotOwner, Progress, Commit, Outcome
<1> QED BY <1>1, <1>2, <1>3, <1>4, GotoWorker, UnchangedIsSame, OneCopy DEF CopyInv

LEMMA FetchStep ==
  ASSUME CopyInv, NEW c \in Copy, Fetch(c)
  PROVE  CopyInv'
<1> DEFINE w == [worker[c] EXCEPT !.pc = "check"]
           u == [w EXCEPT !.left = @ - 1]
<1>1. worker[c].left > 0 /\ worker[c].pc = "fetch"
  BY DEF Fetch, CopyInv, Local, Progress
<1>2. w \in WorkerRec /\ w.pc = "check" /\ w.left = worker[c].left /\ w.slot = worker[c].slot
  BY DEF CopyInv, TypeOK, WorkerRec, Pc
<1>3. worker' = [worker EXCEPT ![c] = u]
  BY DEF Fetch, CopyInv, TypeOK
<1> HIDE DEF w
<1>4. w.left - 1 \in Nat
  BY <1>1, <1>2 DEF WorkerRec
<1>5. u \in WorkerRec /\ u.pc = "check" /\ u.slot = worker[c].slot
  BY <1>2, <1>4 DEF WorkerRec
<1> HIDE DEF u
<1>6. /\ worker' \in [Copy -> WorkerRec]
      /\ worker'[c].pc = "check" /\ worker'[c].slot = worker[c].slot
      /\ \A d \in Copy \ {c} : worker'[d] = worker[d]
  BY <1>3, <1>5 DEF CopyInv, TypeOK
<1>7. TypeOK' /\ SlotsBalance'
  BY <1>6, SlotsStay
  DEF Fetch, CopyInv, TypeOK, CopyOnly, consentVars, terminalVars
<1>8. Local(c)'
  BY <1>1, <1>6 DEF Fetch, CopyOnly, CopyInv, Local, SlotOwner, Progress, Commit, Outcome
<1> QED BY <1>6, <1>7, <1>8, UnchangedIsSame, OneCopy DEF Fetch, CopyOnly

-----------------------------------------------------------------------------
(* The commit barrier, and what follows it.                                *)

LEMMA AllowedIsOpen ==
  ASSUME NEW c \in Copy, CopyAllowed(c)
  PROVE  copies[c].status \in {"approved", "running"}
BY DEF CopyAllowed, AgentAllowed, JobAllowed

LEMMA BeginCommitStep ==
  ASSUME CopyInv, NEW c \in Copy, BeginCommit(c)
  PROVE  CopyInv'
<1>1. CASE CopyAllowed(c) /\ copies[c].status = "running"
  <2>1. /\ copies' = [copies EXCEPT ![c].status = "committing"]
        /\ Goto(c, "publish") /\ worker[c].pc = "barrier" /\ UNCHANGED <<slots, published>>
    BY <1>1 DEF BeginCommit, CopyOnly
  <2>2. "publish" \in Pc /\ "committing" \in CopyStatus
    BY DEF Pc, CopyStatus, Retained
  <2>3. copies' \in [Copy -> CopyRec]
    BY <2>1, <2>2, RecordType DEF CopyInv, TypeOK
  <2>4. copies'[c].status = "committing" /\ \A d \in Copy \ {c} : copies'[d] = copies[d]
    BY <2>1 DEF CopyInv, TypeOK, CopyRec
  <2>5. TypeOK' /\ SlotsBalance'
    BY <1>1, <2>1, <2>2, <2>3, GotoWorker, SlotsStay
    DEF BeginCommit, CopyInv, TypeOK, CopyOnly, consentVars, terminalVars, lockVars
  <2>6. c \notin published
    BY <1>1 DEF CopyInv, Local, Outcome
  <2>7. worker'[c].pc = "publish"
    BY <2>1, <2>2, GotoWorker DEF CopyInv
  <2>8. Local(c)'
    BY <2>1, <2>4, <2>6, <2>7 DEF Local, SlotOwner, Progress, Commit, Outcome
  <2> QED BY <2>1, <2>2, <2>4, <2>5, <2>8, GotoWorker, OneCopy DEF CopyInv, SameRecord
<1>2. CASE ~(CopyAllowed(c) /\ copies[c].status = "running")
  BY <1>2, CopyFailsStep, DenialType DEF BeginCommit
<1> QED BY <1>1, <1>2

LEMMA PublishStep ==
  ASSUME CopyInv, NEW c \in Copy, Publish(c)
  PROVE  CopyInv'
<1>0. /\ worker[c].pc = "publish" /\ copies[c].status = "committing" /\ c \notin published
      /\ UNCHANGED <<copies, slots>>
  BY DEF Publish, CopyInv, Local, Commit
<1>1. /\ published' \subseteq Copy
      /\ \A d \in Copy \ {c} : d \in published' <=> d \in published
  BY DEF Publish, CopyInv, TypeOK
<1>2. /\ worker' \in [Copy -> WorkerRec]
      /\ worker'[c].slot = worker[c].slot
      /\ \A d \in Copy \ {c} : worker'[d] = worker[d]
      /\ \/ worker'[c].pc = "confirm" /\ c \in published'
         \/ worker'[c].pc = "fail" /\ c \notin published'
         \/ worker'[c].pc = "fail" /\ worker'[c].err = "unknown"
  <2>1. CASE Goto(c, "confirm") /\ published' = published \cup {c}
    BY <2>1, GotoWorker DEF CopyInv, Pc
  <2>2. CASE Fails(c, "io") /\ UNCHANGED published
    BY <1>0, <2>2, FailsWorker DEF CopyInv, Code
  <2>3. CASE Fails(c, "unknown")
    BY <2>3, FailsWorker DEF CopyInv, Code
  <2> QED BY <2>1, <2>2, <2>3 DEF Publish
<1>3. TypeOK' /\ SlotsBalance'
  BY <1>0, <1>1, <1>2, SlotsStay, UnwindType
  DEF Publish, CopyInv, TypeOK, consentVars, terminalVars
<1>4. Local(c)'
  BY <1>0, <1>2 DEF CopyInv, Local, SlotOwner, Progress, Commit, Outcome
<1> QED BY <1>0, <1>1, <1>2, <1>3, <1>4, UnchangedIsSame, OneCopy

LEMMA ConfirmStep ==
  ASSUME CopyInv, NEW c \in Copy, Confirm(c)
  PROVE  CopyInv'
<1>0. worker[c].pc = "confirm" /\ copies[c].status = "committing" /\ c \in published
  BY DEF Confirm, CopyInv, Local, Commit
<1>1. copies' = [copies EXCEPT ![c].status = "completed"] /\ Finish(c)
  BY <1>0 DEF Confirm, CopyInv, TypeOK
<1>2. copies' \in [Copy -> CopyRec]
  BY <1>1, RecordType DEF CopyInv, TypeOK, CopyStatus, Ended
<1>3. copies'[c].status = "completed" /\ \A d \in Copy \ {c} : copies'[d] = copies[d]
  BY <1>1 DEF CopyInv, TypeOK, CopyRec
<1>4. TypeOK' /\ SlotsBalance'
  BY <1>1, <1>2, FinishWorker, FinishSlots
  DEF Confirm, CopyInv, TypeOK, CopyOnly, consentVars, terminalVars, lockVars
<1>5. worker'[c].pc = "done" /\ published' = published
  BY <1>1, FinishWorker DEF CopyInv, Confirm, CopyOnly
<1>6. Local(c)'
  BY <1>0, <1>3, <1>5 DEF Local, SlotOwner, Progress, Commit, Outcome
<1> QED BY <1>1, <1>3, <1>4, <1>5, <1>6, FinishWorker, OneCopy DEF CopyInv, SameRecord

LEMMA RecordFailureStep ==
  ASSUME CopyInv, NEW c \in Copy, RecordFailure(c)
  PROVE  CopyInv'
<1>0. worker[c].pc = "fail" /\ worker[c].err \in Code
  BY DEF RecordFailure, CopyInv, TypeOK, WorkerRec
<1>1. copies' = [copies EXCEPT ![c] = FailRecord(c, worker[c].err)] /\ Finish(c)
  BY DEF RecordFailure
<1>2. /\ copies' \in [Copy -> CopyRec] /\ copies'[c] = FailRecord(c, worker[c].err)
      /\ \A d \in Copy \ {c} : copies'[d] = copies[d]
  BY <1>0, <1>1, FailRecordType DEF CopyInv, TypeOK
<1>3. TypeOK' /\ SlotsBalance'
  BY <1>1, <1>2, FinishWorker, FinishSlots
  DEF RecordFailure, CopyInv, TypeOK, CopyOnly, consentVars, terminalVars, lockVars
<1>4. worker'[c].pc = "done" /\ published' = published
  BY <1>1, FinishWorker DEF CopyInv, RecordFailure, CopyOnly
<1>5. c \in published /\ copies[c].status = "committing" => worker[c].err = "unknown"
  BY <1>0 DEF CopyInv, Local, Commit
<1>6. copies'[c].status # "committing"
  BY <1>0, <1>2, FailRecordType DEF CopyInv
<1>7. Outcome(c)'
  BY <1>0, <1>2, <1>4, <1>5, FailRecordType DEF CopyInv, Local, Outcome
<1>8. Progress(c)'
  BY <1>0, <1>2, <1>4, FailRecordType DEF CopyInv, Local, Progress
<1>9. Local(c)'
  BY <1>4, <1>6, <1>7, <1>8 DEF Local, SlotOwner, Commit
<1> QED BY <1>1, <1>2, <1>3, <1>4, <1>9, FinishWorker, OneCopy DEF CopyInv, SameRecord

-----------------------------------------------------------------------------
(* Jobs.                                                                   *)

LEMMA RequestsType ==
  ASSUME TypeOK, NEW gone, NEW old
  PROVE  TrimmedRequests(gone, old) \in [Key -> {"none", "reserved"} \cup Job]
BY DEF TypeOK, TrimmedRequests

LEMMA DroppedIsSame ==
  ASSUME TypeOK, NEW gone, NEW c \in Copy, copies'[c] = Dropped(gone)[c]
  PROVE  SameRecord(c)
BY DroppedType DEF SameRecord

LEMMA JobRequestStep ==
  ASSUME CopyInv, NEW j \in Job, NEW k \in Key, NEW s \in Terminal, NEW d \in Terminal,
         NEW n \in 0..MaxChunks, JobRequest(j, k, s, d, n)
  PROVE  CopyInv'
<1>0. j \in Copy /\ j \notin Action
  BY CopiesAssumption DEF Copy
<1>1. PICK gone \in SUBSET Job, old \in SUBSET Key :
        /\ worker[j].pc = "none" /\ lapsed' = lapsed \cup old
        /\ LET left == TrimmedRequests(gone, old) IN
           \/ request' = left /\ copies' = Dropped(gone) /\ Goto(j, "done")
           \/ /\ request' = [left EXCEPT ![k] = "reserved"]
              /\ copies' = [Dropped(gone) EXCEPT ![j] = CopyOf(s, d, n, k, "unused", FALSE)]
              /\ Goto(j, "prepare")
        /\ CopyOnly /\ UNCHANGED <<slots, lockVars>>
  BY DEF JobRequest
<1> DEFINE left == TrimmedRequests(gone, old)
           new  == CopyOf(s, d, n, k, "unused", FALSE)
<1>2. left \in [Key -> {"none", "reserved"} \cup Job]
  BY RequestsType DEF CopyInv
<1>3. copies[j].status = "unused" /\ j \notin published /\ ~worker[j].slot
  BY <1>0, <1>1 DEF CopyInv, Local, SlotOwner, Progress, Outcome
<1>4. CASE request' = left /\ copies' = Dropped(gone) /\ Goto(j, "done")
  <2> HIDE DEF left
  <2>1. "done" \in Pc
    BY DEF Pc
  <2>2. TypeOK' /\ SlotsBalance'
    BY <1>0, <1>1, <1>2, <1>4, <2>1, GotoWorker, SlotsStay, DroppedType
    DEF CopyInv, TypeOK, CopyOnly, consentVars, terminalVars, lockVars
  <2>3. \A c \in Copy : SameRecord(c)
    BY <1>4, DroppedIsSame DEF CopyInv
  <2>4. worker'[j].pc = "done" /\ copies'[j].status = "unused"
    BY <1>0, <1>3, <1>4, <2>1, GotoWorker, DroppedType DEF CopyInv
  <2>5. Local(j)'
    BY <1>0, <1>1, <1>3, <2>4
    DEF CopyOnly, Local, SlotOwner, Progress, Commit, Outcome
  <2> QED BY <1>0, <1>1, <1>4, <2>1, <2>2, <2>3, <2>5, GotoWorker, OneCopy DEF CopyInv, CopyOnly
<1>5. CASE /\ request' = [left EXCEPT ![k] = "reserved"]
           /\ copies' = [Dropped(gone) EXCEPT ![j] = new]
           /\ Goto(j, "prepare")
  <2>0. new \in CopyRec /\ new.status = "unused" /\ new.key = k
    BY CopyOfType DEF CopyInv, CopyStatus, CopyOf
  <2> HIDE DEF left, new
  <2>1. "prepare" \in Pc
    BY DEF Pc
  <2>2. /\ copies' \in [Copy -> CopyRec] /\ copies'[j] = new
        /\ \A c \in Copy \ {j} : copies'[c] = Dropped(gone)[c]
    BY <1>0, <1>5, <2>0, DroppedType DEF CopyInv
  <2>3. TypeOK' /\ SlotsBalance'
    BY <1>0, <1>1, <1>2, <1>5, <2>1, <2>2, GotoWorker, SlotsStay
    DEF CopyInv, TypeOK, CopyOnly, consentVars, terminalVars, lockVars
  <2>4. \A c \in Copy \ {j} : SameRecord(c)
    BY <2>2, DroppedIsSame DEF CopyInv
  <2>5. worker'[j].pc = "prepare" /\ ~worker'[j].slot
    BY <1>0, <1>3, <1>5, <2>1, GotoWorker DEF CopyInv
  <2>6. Local(j)'
    BY <1>0, <1>1, <1>3, <2>0, <2>2, <2>5
    DEF CopyOnly, Local, SlotOwner, Progress, Commit, Outcome
  <2> QED BY <1>0, <1>1, <1>5, <2>1, <2>3, <2>4, <2>6, GotoWorker, OneCopy DEF CopyInv, CopyOnly
<1> HIDE DEF left, new
<1> QED BY <1>1, <1>4, <1>5 DEF left, new

LEMMA JobDiscardStep ==
  ASSUME CopyInv, NEW j \in Copy, worker[j].pc \in {"prepare", "reread"}, JobDiscard(j)
  PROVE  CopyInv'
<1>1. /\ Goto(j, "done") /\ "done" \in Pc /\ UNCHANGED <<slots, published>>
      /\ copies' = [copies EXCEPT ![j] = NoCopy]
  BY DEF JobDiscard, CopyOnly, Pc
<1>2. NoCopy \in CopyRec /\ NoCopy.status = "unused"
  BY LimitsAssumption DEF NoCopy, NoEnd, CopyRec, EndRec, CopyStatus, Code
<1>3. /\ copies' \in [Copy -> CopyRec] /\ copies'[j] = NoCopy
      /\ \A c \in Copy \ {j} : copies'[c] = copies[c]
  BY <1>1, <1>2 DEF CopyInv, TypeOK
<1>4. TypeOK' /\ SlotsBalance'
  BY <1>1, <1>3, GotoWorker, SlotsStay
  DEF JobDiscard, CopyInv, TypeOK, CopyOnly, consentVars, terminalVars, lockVars
<1>5. worker'[j].pc = "done"
  BY <1>1, GotoWorker DEF CopyInv
<1>6. j \in Job /\ j \notin Action /\ copies[j].status = "unused" /\ j \notin published
  BY CopiesAssumption DEF CopyInv, Local, Progress, Outcome
<1>7. Local(j)'
  BY <1>1, <1>2, <1>3, <1>5, <1>6 DEF Local, SlotOwner, Progress, Commit, Outcome
<1> QED BY <1>1, <1>3, <1>4, <1>7, GotoWorker, OneCopy DEF CopyInv, SameRecord

LEMMA JobPrepareStep ==
  ASSUME CopyInv, NEW j \in Copy, JobPrepare(j) \/ JobReread(j)
  PROVE  CopyInv'
<1>0. j \in Job /\ copies[j].key \in Key /\ copies[j].status = "unused" /\ ~worker[j].slot
  BY DEF JobPrepare, JobReread, CopyInv, Local, SlotOwner, Progress
<1>1. CASE JobDiscard(j)
  BY <1>1, JobDiscardStep DEF JobPrepare, JobReread
<1>2. CASE JobPrepare(j) /\ ~JobDiscard(j)
  <2>1. Goto(j, "reread") /\ WorkerOnly /\ worker[j].pc = "prepare" /\ "reread" \in Pc
    BY <1>2 DEF JobPrepare, Pc
  <2>2. Local(j)'
    BY <1>0, <2>1, GotoWorker
    DEF WorkerOnly, CopyOnly, CopyInv, Local, SlotOwner, Progress, Commit, Outcome
  <2> QED BY <2>1, <2>2, MoveOn
<1>3. CASE JobReread(j) /\ ~JobDiscard(j)
  <2> DEFINE w == [worker[j] EXCEPT !.pc = "insert"]
             u == [w EXCEPT !.slot = TRUE]
             v == [u EXCEPT !.left = copies[j].size]
  <2>1. w \in WorkerRec /\ w.pc = "insert"
    BY DEF CopyInv, TypeOK, WorkerRec, Pc
  <2>2. worker' = [worker EXCEPT ![j] = v]
    BY <1>3 DEF JobReread, CopyInv, TypeOK
  <2> HIDE DEF w
  <2>3. u \in WorkerRec /\ u.pc = "insert" /\ u.slot = TRUE
    BY <2>1 DEF WorkerRec
  <2> HIDE DEF u
  <2>4. v \in WorkerRec /\ v.pc = "insert" /\ v.slot = TRUE
    BY <2>3 DEF WorkerRec, CopyInv, TypeOK, CopyRec
  <2> HIDE DEF v
  <2>5. /\ worker' \in [Copy -> WorkerRec]
        /\ worker'[j].pc = "insert" /\ worker'[j].slot = TRUE
        /\ \A d \in Copy \ {j} : worker'[d] = worker[d]
    BY <2>2, <2>4 DEF CopyInv, TypeOK
  <2>6. slots > 0 /\ slots' = slots - 1 /\ UNCHANGED <<copies, published>>
    BY <1>3 DEF JobReread, CopyOnly
  <2>7. slots' \in 0..Slots /\ SlotsBalance'
    BY <1>0, <2>5, <2>6, SlotTaken DEF CopyInv
  <2>8. TypeOK'
    BY <1>3, <2>5, <2>7
    DEF JobReread, CopyInv, TypeOK, CopyOnly, consentVars, terminalVars, lockVars
  <2>9. Local(j)'
    BY <1>0, <2>5, <2>6, CopiesAssumption
    DEF CopyInv, Local, SlotOwner, Progress, Commit, Outcome
  <2> QED BY <2>5, <2>6, <2>7, <2>8, <2>9, UnchangedIsSame, OneCopy
<1> QED BY <1>1, <1>2, <1>3

LEMMA JobInsertStep ==
  ASSUME CopyInv, NEW j \in Copy, JobInsert(j)
  PROVE  CopyInv'
<1>0. /\ j \in Job /\ j \notin Action /\ copies[j].key \in Key
      /\ worker[j].pc = "insert" /\ copies[j].status = "unused" /\ j \notin published
  BY CopiesAssumption DEF JobInsert, CopyInv, Local, Progress, Outcome
<1>1. PICK gone \in SUBSET Job, old \in SUBSET Key :
        LET left == TrimmedRequests(gone, old)
            full == Cardinality(Store \ gone) >= MaxJobs
            k    == copies[j].key
        IN
        /\ lapsed' = lapsed \cup old
        /\ copies' = IF full THEN Dropped(gone)
                     ELSE [Dropped(gone) EXCEPT ![j].status = "running", ![j].kept = TRUE]
        /\ request' = IF full \/ left[k] = "none" THEN left ELSE [left EXCEPT ![k] = j]
        /\ \/ Goto(j, "abort")
           \/ ~full /\ left[k] # "none" /\ Goto(j, "wait")
        /\ CopyOnly /\ UNCHANGED <<slots, lockVars>>
  BY DEF JobInsert
<1> DEFINE full == Cardinality(Store \ gone) >= MaxJobs
           r == Dropped(gone)[j]
           q == [r EXCEPT !.status = "running"]
           new == [q EXCEPT !.kept = TRUE]
<1>2. Dropped(gone) \in [Copy -> CopyRec] /\ r \in CopyRec /\ r.key = copies[j].key /\ r.status = "unused"
  BY <1>0, DroppedType DEF CopyInv
<1>3. request' \in [Key -> {"none", "reserved"} \cup Job]
  BY <1>0, <1>1, RequestsType DEF CopyInv
<1>4. copies' = IF full THEN Dropped(gone) ELSE [Dropped(gone) EXCEPT ![j] = new]
  BY <1>1, <1>2
<1>5. (Goto(j, "abort") \/ (Goto(j, "wait") /\ ~full)) /\ {"abort", "wait"} \subseteq Pc
  BY <1>1 DEF Pc
<1> HIDE DEF r, full
<1>6. q \in CopyRec /\ q.key = r.key /\ q.status = "running"
  BY <1>2 DEF CopyRec, CopyStatus, Retained
<1> HIDE DEF q
<1>7. new \in CopyRec /\ new.key = copies[j].key /\ new.status = "running"
  BY <1>2, <1>6 DEF CopyRec
<1> HIDE DEF new
<1>8. /\ copies' \in [Copy -> CopyRec]
      /\ copies'[j].key = copies[j].key
      /\ copies'[j].status = IF full THEN "unused" ELSE "running"
      /\ \A c \in Copy \ {j} : copies'[c] = Dropped(gone)[c]
  <2>1. CASE full
    BY <1>2, <1>4, <2>1 DEF r
  <2>2. CASE ~full
    BY <1>2, <1>4, <1>7, <2>2
  <2> QED BY <2>1, <2>2
<1>9. TypeOK' /\ SlotsBalance'
  BY <1>1, <1>3, <1>5, <1>8, GotoWorker, SlotsStay
  DEF CopyInv, TypeOK, CopyOnly, consentVars, terminalVars, lockVars
<1>10. \A c \in Copy \ {j} : SameRecord(c)
  BY <1>8, DroppedIsSame DEF CopyInv
<1>11. worker'[j].pc = "abort" \/ worker'[j].pc = "wait"
  BY <1>5, GotoWorker DEF CopyInv
<1>12. Local(j)'
  BY <1>0, <1>1, <1>8, <1>11 DEF CopyOnly, Local, SlotOwner, Progress, Commit, Outcome
<1> QED BY <1>1, <1>5, <1>9, <1>10, <1>12, GotoWorker, OneCopy DEF CopyInv, CopyOnly

LEMMA JobAbortStep ==
  ASSUME CopyInv, NEW j \in Copy, JobAbort(j)
  PROVE  CopyInv'
<1> DEFINE ours == copies[j].kept /\ copies[j].status = "running"
           new  == IF ours THEN FailRecord(j, "busy") ELSE [copies[j] EXCEPT !.kept = FALSE]
<1>0. /\ worker[j].pc = "abort" /\ j \in Job /\ j \notin Action /\ copies[j].key \in Key
      /\ copies[j].status # "committing" /\ copies[j] \in CopyRec
  BY CopiesAssumption DEF JobAbort, CopyInv, TypeOK, Local, Progress, Commit
<1>1. copies' = [copies EXCEPT ![j] = new] /\ Finish(j) /\ published' = published
  BY DEF JobAbort, CopyOnly, CopyInv, TypeOK
<1>2. /\ new \in CopyRec /\ new.key = copies[j].key /\ new.status # "committing"
      /\ \/ new.status = "failed" /\ copies[j].status = "running"
         \/ new.status = copies[j].status /\ new.code = copies[j].code
  <2>1. CASE ours
    BY <1>0, <2>1, FailRecordType DEF CopyInv, Code
  <2>2. CASE ~ours
    <3>1. [copies[j] EXCEPT !.kept = FALSE] \in CopyRec
      BY <1>0, RecordType
    <3> QED BY <1>0, <2>2, <3>1 DEF CopyRec
  <2> QED BY <2>1, <2>2
<1> HIDE DEF new
<1>3. /\ copies' \in [Copy -> CopyRec] /\ copies'[j] = new
      /\ \A c \in Copy \ {j} : copies'[c] = copies[c]
  BY <1>1, <1>2 DEF CopyInv, TypeOK
<1>4. request' \in [Key -> {"none", "reserved"} \cup Job] /\ lapsed' \subseteq Key
  BY <1>0 DEF JobAbort, CopyInv, TypeOK
<1>5. TypeOK' /\ SlotsBalance'
  BY <1>1, <1>3, <1>4, FinishWorker, FinishSlots
  DEF JobAbort, CopyInv, TypeOK, CopyOnly, consentVars, terminalVars, lockVars
<1>6. worker'[j].pc = "done"
  BY <1>1, FinishWorker DEF CopyInv
<1>7. Local(j)'
  BY <1>0, <1>1, <1>2, <1>3, <1>6
  DEF CopyInv, Local, SlotOwner, Progress, Commit, Outcome
<1> QED BY <1>1, <1>3, <1>5, <1>7, FinishWorker, OneCopy DEF CopyInv, SameRecord

LEMMA JobCancelStep ==
  ASSUME CopyInv, NEW j \in Job, JobCancel(j)
  PROVE  CopyInv'
<1>0. j \in Copy
  BY DEF Copy
<1>1. PICK gone \in SUBSET Job, old \in SUBSET Key :
        /\ copies[j].status = "running" /\ lapsed' = lapsed \cup old
        /\ request' = TrimmedRequests(gone, old)
        /\ copies' = [Dropped(gone) EXCEPT ![j].status = "cancelled", ![j].code = "stopped"]
        /\ CopyOnly /\ UNCHANGED <<worker, slots, lockVars>>
  BY DEF JobCancel
<1> DEFINE r == Dropped(gone)[j]
           new == [r EXCEPT !.status = "cancelled", !.code = "stopped"]
<1>2. Dropped(gone) \in [Copy -> CopyRec] /\ r \in CopyRec /\ r.key = copies[j].key
  BY <1>0, DroppedType DEF CopyInv
<1>3. copies' = [Dropped(gone) EXCEPT ![j] = new]
  BY <1>1, <1>2
<1> HIDE DEF r
<1>4. new \in CopyRec
  BY <1>2, RecordType DEF CopyStatus, Ended, Code
<1>5. new.key = r.key /\ new.status = "cancelled"
  BY <1>2 DEF CopyRec
<1> HIDE DEF new
<1>6. /\ copies' \in [Copy -> CopyRec] /\ copies'[j] = new
      /\ \A c \in Copy \ {j} : copies'[c] = Dropped(gone)[c]
  BY <1>0, <1>2, <1>3, <1>4
<1>7. \A c \in Copy : SameRecord(c)
  BY <1>1, <1>2, <1>5, <1>6, DroppedIsSame DEF CopyInv, SameRecord, Stoppable
<1>8. TypeOK'
  BY <1>1, <1>6, RequestsType
  DEF CopyInv, TypeOK, CopyOnly, consentVars, terminalVars, lockVars
<1> QED BY <1>1, <1>7, <1>8, Bystanders DEF CopyOnly

LEMMA TransferStep ==
  ASSUME CopyInv, NEW g \in Bridge, TransferStarts(g) \/ TransferEnds(g)
  PROVE  CopyInv'
<1>1. TypeOK'
  BY DEF TransferStarts, TransferEnds, CopyInv, TypeOK, CopyOnly, consentVars, terminalVars
<1> QED BY <1>1, Bystanders, UnchangedIsSame DEF TransferStarts, TransferEnds, CopyOnly

-----------------------------------------------------------------------------
LEMMA WorkStep ==
  ASSUME CopyInv, NEW c \in Copy, Work(c)
  PROVE  CopyInv'
BY ActionSlotStep, ActionNotStartedStep, BeginStep, JobPrepareStep, JobInsertStep,
   JobAbortStep, TakeCopyLockStep, CheckStep, OpenDestinationStep, FetchStep,
   BeginCommitStep, PublishStep, ConfirmStep, RecordFailureStep DEF Work

LEMMA RequestedStep == CopyInv /\ Requested => CopyInv'
BY ProposeStep, DecisionStep, JobRequestStep, JobCancelStep, TransferStep DEF Requested

LEMMA StutterStep == CopyInv /\ UNCHANGED vars => CopyInv'
<1> SUFFICES ASSUME CopyInv, UNCHANGED vars PROVE CopyInv'
  OBVIOUS
<1>1. TypeOK'
  BY DEF CopyInv, TypeOK, vars
<1> QED BY <1>1, Bystanders, UnchangedIsSame DEF vars

THEOREM CopyInvariant == Spec => []CopyInv
<1>1. CopyInv /\ [Next]_vars => CopyInv'
  BY SettingStep, RequestedStep, WorkStep, TransferStep, StutterStep DEF Next
<1> QED BY <1>1, InitInv, PTL DEF Spec

\* Every reachable state is well typed, and the slot semaphore stays within
\* its bounds: no thread releases a slot that none has taken (TypeOK).
THEOREM CopyTypes == Spec => []TypeOK
<1>1. CopyInv => TypeOK
  BY DEF CopyInv
<1> QED BY <1>1, CopyInvariant, PTL

\* The pool of worker slots and the threads that own one always make up the
\* limit, whichever start fails and whichever copy is cancelled.
THEOREM NoSlotIsLost == Spec => []SlotsBalance
<1>1. CopyInv => SlotsBalance
  BY DEF CopyInv
<1> QED BY <1>1, CopyInvariant, PTL

\* A copy that is reported completed was published, and one that is reported
\* otherwise never was, unless it says that it does not know.
THEOREM OutcomesAreTrue == Spec => []OutcomeIsTrue
<1>1. CopyInv => OutcomeIsTrue
  BY DEF CopyInv, Local, Outcome, OutcomeIsTrue
<1> QED BY <1>1, CopyInvariant, PTL

-----------------------------------------------------------------------------
(* Consent and terminals only go forward.                                  *)

\* The counters bound what is in use, and no state that allows copies is empty.
Numbered ==
  \A t \in Terminal :
    /\ bridge[t] <= created[t]
    /\ consent[t].binding <= bindings[t]
    /\ consent[t].open => consent[t].binding # 0

\* What no step takes back: a bridge or a state that is replaced never returns,
\* a version only grows and decides whether copies are allowed, a revoked token
\* goes only with the state it was bound to, and a lost browser stays lost.
Later ==
  /\ online' => online
  /\ \A t \in Terminal :
       /\ created[t] <= created'[t] /\ bindings[t] <= bindings'[t]
       /\ bridge'[t] = bridge[t] \/ bridge'[t] = 0 \/ bridge'[t] > created[t]
       /\ \/ /\ consent'[t].binding = consent[t].binding
             /\ consent[t].version <= consent'[t].version
             /\ consent'[t].version = consent[t].version
                  => consent'[t].open = consent[t].open
             /\ token[t] = "revoked" => token'[t] = "revoked"
          \/ consent'[t].binding = 0
          \/ consent'[t].binding > bindings[t]

LEMMA Still ==
  ASSUME TypeOK, UNCHANGED <<consentVars, terminalVars>>
  PROVE  Later /\ (Numbered => Numbered')
BY DEF Later, Numbered, TypeOK, ConsentRec, consentVars, terminalVars

LEMMA InvalidateLater ==
  ASSUME TypeOK, Numbered, NEW T, Invalidate(T), online' => online,
         \A t \in Terminal : bridge'[t] = bridge[t] \/ bridge'[t] = 0
  PROVE  Later /\ Numbered'
<1>1. created' = created /\ bindings' = bindings
  BY DEF Invalidate
<1>2. \A t \in Terminal :
        \/ consent'[t] = consent[t] /\ token'[t] = token[t]
        \/ consent'[t] = [binding |-> 0, version |-> 0, open |-> FALSE]
  BY DEF Invalidate, NoConsent
<1>3. \A t \in Terminal :
        /\ created[t] \in 0..MaxBridge /\ bindings[t] \in Nat /\ consent[t].version \in Nat
  BY DEF TypeOK, ConsentRec
<1>4. Later
  BY <1>1, <1>2, <1>3, LimitsAssumption DEF Later
<1>5. Numbered'
  BY <1>1, <1>2, <1>3, LimitsAssumption DEF Numbered
<1> QED BY <1>4, <1>5

LEMMA SettingLater ==
  ASSUME TypeOK, Numbered, Setting
  PROVE  Later /\ Numbered'
<1>0. \A t \in Terminal :
        /\ created[t] \in 0..MaxBridge /\ bindings[t] \in Nat
        /\ consent[t] \in ConsentRec /\ bridge[t] \in 0..MaxBridge
  BY DEF TypeOK
<1>1. CASE Disconnect
  BY <1>1, InvalidateLater DEF Disconnect
<1>2. ASSUME NEW t \in Terminal,
             Detach(t) \/ CloseInvalidate(t) \/ EndInvalidate(t)
      PROVE  Later /\ Numbered'
  BY <1>2, InvalidateLater DEF Detach, CloseInvalidate, EndInvalidate
<1>3. ASSUME NEW t \in Terminal, ClosePop(t) \/ EndPop(t)
      PROVE  Later /\ Numbered'
  <2>1. /\ UNCHANGED <<consent, bindings, token, online, created>>
        /\ bridge' = [bridge EXCEPT ![t] = 0]
    BY <1>3 DEF ClosePop, EndPop, TerminalOnly, consentVars
  <2>2. \A u \in Terminal : bridge'[u] = bridge[u] \/ bridge'[u] = 0
    BY <2>1 DEF TypeOK
  <2>3. Later
    BY <1>0, <2>1, <2>2, LimitsAssumption DEF Later, ConsentRec
  <2>4. Numbered'
    BY <1>0, <2>1, <2>2, LimitsAssumption DEF Numbered
  <2> QED BY <2>3, <2>4
<1>4. ASSUME NEW t \in Terminal, Start(t)
      PROVE  Later /\ Numbered'
  <2>1. /\ UNCHANGED <<consent, bindings, token, online>>
        /\ created' = [created EXCEPT ![t] = created[t] + 1]
        /\ bridge' = [bridge EXCEPT ![t] = created[t] + 1]
    BY <1>4 DEF Start, TerminalOnly, consentVars, TypeOK
  <2>2. \A u \in Terminal :
          \/ u = t /\ created'[u] = created[u] + 1 /\ bridge'[u] = created[u] + 1
          \/ u # t /\ created'[u] = created[u] /\ bridge'[u] = bridge[u]
    BY <2>1 DEF TypeOK
  <2>3. Later
    BY <1>0, <2>1, <2>2, LimitsAssumption DEF Later, ConsentRec
  <2>4. Numbered'
    BY <1>0, <2>1, <2>2, LimitsAssumption DEF Numbered
  <2> QED BY <2>3, <2>4
<1>5. ASSUME NEW t \in Terminal, NEW opens \in BOOLEAN, Attach(t, opens)
      PROVE  Later /\ Numbered'
  <2>1. /\ UNCHANGED <<token, online, bridge, created>>
        /\ bindings' = [bindings EXCEPT ![t] = bindings[t] + 1]
        /\ consent' = [consent EXCEPT ![t] = [binding |-> bindings[t] + 1,
                                              version |-> 1, open |-> opens]]
    BY <1>5 DEF Attach, terminalVars, TypeOK
  <2>2. \A u \in Terminal :
          \/ /\ u = t /\ bindings'[u] = bindings[u] + 1
             /\ consent'[u].binding = bindings[u] + 1
          \/ u # t /\ bindings'[u] = bindings[u] /\ consent'[u] = consent[u]
    BY <2>1 DEF TypeOK
  <2>3. Later
    BY <1>0, <2>1, <2>2, LimitsAssumption DEF Later, ConsentRec
  <2>4. Numbered'
    BY <1>0, <2>1, <2>2, LimitsAssumption DEF Numbered
  <2> QED BY <2>3, <2>4
<1>6. ASSUME NEW t \in Terminal, NEW opens \in BOOLEAN, NEW resume \in BOOLEAN,
             Control(t, opens, resume)
      PROVE  Later /\ Numbered'
  <2>1. /\ UNCHANGED <<bindings, token, online, bridge, created>>
        /\ consent[t].binding # 0
        /\ consent' = [consent EXCEPT ![t].version = @ + 1, ![t].open = opens]
    BY <1>6 DEF Control, terminalVars
  <2>2. \A u \in Terminal :
          \/ /\ u = t /\ consent'[u].binding = consent[u].binding
             /\ consent'[u].version = consent[u].version + 1
          \/ u # t /\ consent'[u] = consent[u]
    <3> DEFINE w == [consent[t] EXCEPT !.version = @ + 1]
               x == [w EXCEPT !.open = opens]
    <3>1. w \in ConsentRec /\ w.binding = consent[t].binding /\ w.version = consent[t].version + 1
      BY <1>0 DEF ConsentRec
    <3>2. consent' = [consent EXCEPT ![t] = x]
      BY <2>1 DEF TypeOK
    <3> HIDE DEF w
    <3>3. x.binding = w.binding /\ x.version = w.version
      BY <3>1 DEF ConsentRec
    <3> HIDE DEF x
    <3> QED BY <3>1, <3>2, <3>3 DEF TypeOK
  <2>3. Later
    <3>1. UNCHANGED <<bindings, token, online, bridge, created>>
      BY <2>1
    <3>2. \A u \in Terminal : /\ consent[u].version \in Nat /\ bindings[u] \in Nat
                              /\ created[u] \in Nat
      BY <1>0, LimitsAssumption DEF ConsentRec
    <3> SUFFICES ASSUME NEW u \in Terminal
                 PROVE  /\ consent'[u].binding = consent[u].binding
                        /\ consent[u].version <= consent'[u].version
                        /\ consent'[u].version = consent[u].version
                             => consent'[u].open = consent[u].open
      BY <3>1, <3>2 DEF Later
    <3> QED BY <2>2, <3>2
  <2>4. Numbered'
    BY <1>0, <2>1, <2>2 DEF Numbered
  <2> QED BY <2>3, <2>4
<1>7. ASSUME NEW t \in Terminal,
             \/ Mint(t) \/ TokenExpires(t) \/ TokenRenewed(t)
             \/ RevokeToken(t) \/ RevokeCancel(t)
      PROVE  Later /\ Numbered'
  <2>1. /\ UNCHANGED <<consent, bindings, online, bridge, created>>
        /\ \A u \in Terminal : token[u] = "revoked" => token'[u] = "revoked"
    BY <1>7 DEF Mint, TokenExpires, TokenRenewed, RevokeToken, RevokeCancel, SetToken,
                consentVars, terminalVars, TypeOK
  <2>2. Later
    BY <1>0, <2>1, LimitsAssumption DEF Later, ConsentRec
  <2>3. Numbered'
    BY <2>1 DEF Numbered
  <2> QED BY <2>2, <2>3
<1> QED BY <1>1, <1>2, <1>3, <1>4, <1>5, <1>6, <1>7 DEF Setting

-----------------------------------------------------------------------------
(* What a copy recorded stays comparable with what there is now.           *)

KnownEnd(t, e) == t \in Terminal /\ e.bridge # 0 /\ e.bridge <= created[t]

BoundTo(t, e) ==
  /\ e.binding # 0 /\ e.binding <= bindings[t]
  /\ consent[t].binding = e.binding => e.version <= consent[t].version

LEMMA EndStays ==
  ASSUME TypeOK, TypeOK', Later, NEW t, NEW e \in EndRec, KnownEnd(t, e)
  PROVE  /\ KnownEnd(t, e)'
         /\ bridge[t] # e.bridge => bridge'[t] # e.bridge
<1>1. /\ t \in Terminal /\ created[t] \in Nat /\ created'[t] \in Nat
      /\ bridge'[t] \in Nat /\ e.bridge \in Nat
  BY LimitsAssumption DEF TypeOK, KnownEnd, EndRec
<1> QED BY <1>1 DEF KnownEnd, Later

LEMMA BoundStays ==
  ASSUME TypeOK, TypeOK', Later, NEW t \in Terminal, NEW e \in EndRec, BoundTo(t, e)
  PROVE  /\ BoundTo(t, e)'
         /\ ~ConsentHolds(t, e) => ~ConsentHolds(t, e)'
         /\ token[t] = "revoked" => token'[t] = "revoked" \/ ~ConsentHolds(t, e)'
<1>1. /\ bindings[t] \in Nat /\ bindings'[t] \in Nat
      /\ consent[t] \in ConsentRec /\ consent'[t] \in ConsentRec
  BY DEF TypeOK
<1>2. /\ consent[t].binding \in Nat /\ consent[t].version \in Nat
      /\ consent'[t].binding \in Nat /\ consent'[t].version \in Nat
      /\ e.binding \in Nat /\ e.version \in Nat
  BY <1>1 DEF ConsentRec, EndRec
<1>3. bindings[t] <= bindings'[t]
  BY DEF Later
<1>4. CASE /\ consent'[t].binding = consent[t].binding
           /\ consent[t].version <= consent'[t].version
           /\ consent'[t].version = consent[t].version
                => consent'[t].open = consent[t].open
           /\ token[t] = "revoked" => token'[t] = "revoked"
  BY <1>1, <1>2, <1>3, <1>4 DEF BoundTo, ConsentHolds
<1>5. CASE consent'[t].binding = 0 \/ consent'[t].binding > bindings[t]
  <2>1. consent'[t].binding # e.binding
    BY <1>1, <1>2, <1>5 DEF BoundTo
  <2> QED BY <1>1, <1>2, <1>3, <2>1 DEF BoundTo, ConsentHolds
<1> QED BY <1>4, <1>5 DEF Later

-----------------------------------------------------------------------------
(* What a step may do to a record.                                         *)

Live(c) == copies[c].status # "unused" \/ worker[c].pc \notin {"none", "done"}

SameEnds(c) ==
  /\ copies'[c].src = copies[c].src /\ copies'[c].dst = copies[c].dst
  /\ copies'[c].from = copies[c].from /\ copies'[c].into = copies[c].into

Fresh(c) ==
  /\ UNCHANGED <<consentVars, terminalVars>> /\ worker[c].pc = "none"
  /\ \E s, d \in Terminal :
       /\ s # d /\ bridge[s] # 0 /\ bridge[d] # 0
       /\ copies'[c].src = s /\ copies'[c].from = End(s)
       /\ copies'[c].dst = d /\ copies'[c].into = End(d)
       /\ c \in Action => consent[s].open /\ consent[d].open

\* A stoppable copy stays so or ends, unless its own check lets it commit.
Guarded(c) ==
  copies[c].status \in Stoppable =>
    /\ SameEnds(c)
    /\ \/ copies'[c].status \in Stoppable \cup {"failed", "rejected", "cancelled"}
       \/ CopyAllowed(c)

RecordStep(c) ==
  /\ Live(c)' => (Live(c) /\ SameEnds(c)) \/ Fresh(c)
  /\ Guarded(c)

LEMMA PlainRecord ==
  ASSUME NEW c \in Copy, SameEnds(c), SameRecord(c), worker'[c] = worker[c]
  PROVE  RecordStep(c)
BY DEF RecordStep, Guarded, SameRecord, Live, Stoppable

LEMMA OwnRecord ==
  ASSUME NEW c \in Copy, worker[c].pc \notin {"none", "done"},
         SameEnds(c), Guarded(c)
  PROVE  RecordStep(c)
BY DEF RecordStep, Live

LEMMA CancelledEnds ==
  ASSUME TypeOK, NEW C, copies' = Cancelled(C), NEW c \in Copy
  PROVE  SameEnds(c)
<1>1. copies[c] \in CopyRec
  BY DEF TypeOK
<1> QED BY <1>1 DEF Cancelled, SameEnds, CopyRec

LEMMA DroppedEnds ==
  ASSUME TypeOK, NEW gone, NEW c \in Copy, copies'[c] = Dropped(gone)[c]
  PROVE  SameEnds(c)
<1>1. copies[c] \in CopyRec
  BY DEF TypeOK
<1> QED BY <1>1 DEF Dropped, SameEnds, CopyRec

LEMMA UnchangedRecord ==
  ASSUME NEW c \in Copy, copies'[c] = copies[c], worker'[c] = worker[c]
  PROVE  RecordStep(c)
BY PlainRecord DEF SameEnds, SameRecord

LEMMA CancelledRecords ==
  ASSUME TypeOK, NEW C, copies' = Cancelled(C), worker' = worker, NEW c \in Copy
  PROVE  RecordStep(c)
BY CancelledEnds, CancelledIsSame, PlainRecord

LEMMA DroppedRecord ==
  ASSUME TypeOK, NEW gone, NEW c \in Copy, copies'[c] = Dropped(gone)[c],
         worker'[c] = worker[c]
  PROVE  RecordStep(c)
BY DroppedEnds, DroppedIsSame, PlainRecord

LEMMA SettingRecords ==
  ASSUME TypeOK, Setting, NEW c \in Copy
  PROVE  RecordStep(c)
<1>1. ASSUME NEW T, Invalidate(T) PROVE RecordStep(c)
  BY <1>1, CancelledRecords DEF Invalidate
<1>2. CASE Disconnect
  BY <1>1, <1>2 DEF Disconnect
<1>3. ASSUME NEW t \in Terminal,
             Detach(t) \/ CloseInvalidate(t) \/ EndInvalidate(t)
      PROVE  RecordStep(c)
  BY <1>1, <1>3 DEF Detach, CloseInvalidate, EndInvalidate
<1>4. ASSUME NEW t \in Terminal,
             \/ Mint(t) \/ TokenExpires(t) \/ TokenRenewed(t) \/ RevokeToken(t)
             \/ Start(t) \/ ClosePop(t) \/ EndPop(t)
             \/ \E opens \in BOOLEAN : Attach(t, opens)
      PROVE  RecordStep(c)
  BY <1>4, UnchangedRecord DEF Mint, TokenExpires, TokenRenewed, RevokeToken, SetToken,
     Start, ClosePop, EndPop, TerminalOnly, Attach
<1>5. ASSUME NEW t \in Terminal, RevokeCancel(t)
      PROVE  RecordStep(c)
  BY <1>5, CancelledRecords DEF RevokeCancel
<1>6. ASSUME NEW t \in Terminal, NEW opens \in BOOLEAN, NEW resume \in BOOLEAN,
             Control(t, opens, resume)
      PROVE  RecordStep(c)
  BY <1>6, CancelledRecords, UnchangedRecord DEF Control
<1> QED BY <1>2, <1>3, <1>4, <1>5, <1>6 DEF Setting

LEMMA RequestedRecords ==
  ASSUME CopyInv, Requested, NEW c \in Copy
  PROVE  RecordStep(c)
<1>0. TypeOK
  BY DEF CopyInv
<1>1. ASSUME NEW a \in Action, NEW s \in Terminal, NEW d \in Terminal,
             NEW n \in 0..MaxChunks, Propose(a, s, d, n)
      PROVE  RecordStep(c)
  <2> DEFINE new == CopyOf(s, d, n, Nobody, "pending_approval", TRUE)
  <2>1. PICK gone \in Room(s) : copies' = [Dropped(gone) EXCEPT ![a] = new]
    BY <1>1 DEF Propose
  <2>2. worker' = worker /\ UNCHANGED <<consentVars, terminalVars>> /\ a \in Copy
    BY <1>1 DEF Propose, CopyOnly, Copy
  <2>3. new.src = s /\ new.dst = d /\ new.from = End(s) /\ new.into = End(d)
    BY DEF CopyOf
  <2> HIDE DEF new
  <2>4. Dropped(gone) \in [Copy -> CopyRec]
    BY <1>0, DroppedType
  <2>5. CASE c = a
    <3>1. copies'[c] = new
      BY <2>1, <2>2, <2>4, <2>5
    <3>2. worker[c].pc = "none"
      BY <1>1, <2>2, <2>5 DEF CopyInv, Local, Progress, Propose
    <3>3. Fresh(c)
      BY <1>1, <2>2, <2>3, <3>1, <3>2 DEF Fresh, Propose
    <3> QED BY <1>1, <2>5, <3>3 DEF RecordStep, Guarded, Propose, Stoppable
  <2>6. CASE c # a
    BY <1>0, <2>1, <2>2, <2>4, <2>6, DroppedRecord
  <2> QED BY <2>5, <2>6
<1>2. ASSUME NEW a \in Action, Approve(a)
      PROVE  RecordStep(c)
  <2>1. a \in Copy /\ copies' = [copies EXCEPT ![a].status = "approved"]
    BY <1>2 DEF Approve, Copy
  <2>2. CASE c = a
    <3>1. copies'[c].status = "approved" /\ SameEnds(c)
      BY <1>0, <2>1, <2>2 DEF TypeOK, CopyRec, SameEnds
    <3> QED BY <1>2, <2>2, <3>1 DEF RecordStep, Guarded, Live, Approve, Stoppable
  <2>3. CASE c # a
    BY <1>0, <1>2, <2>1, <2>3, UnchangedRecord DEF Approve, TypeOK
  <2> QED BY <2>2, <2>3
<1>3. ASSUME NEW a \in Action, Reject(a)
      PROVE  RecordStep(c)
  <2>1. SameEnds(c) /\ SameRecord(c)
    BY <1>0, <1>3 DEF Reject, TypeOK, Copy, CopyRec, SameEnds, SameRecord, Stoppable
  <2> QED BY <1>3, <2>1, PlainRecord DEF Reject
<1>4. ASSUME NEW a \in Action, Cancel(a)
      PROVE  RecordStep(c)
  BY <1>0, <1>4, CancelledRecords DEF Cancel
<1>5. ASSUME NEW j \in Job, NEW k \in Key, NEW s \in Terminal, NEW d \in Terminal,
             NEW n \in 0..MaxChunks, JobRequest(j, k, s, d, n)
      PROVE  RecordStep(c)
  <2> DEFINE new == CopyOf(s, d, n, k, "unused", FALSE)
  <2>1. PICK gone \in SUBSET Job :
          \/ copies' = Dropped(gone) /\ Goto(j, "done")
          \/ copies' = [Dropped(gone) EXCEPT ![j] = new] /\ Goto(j, "prepare")
    BY <1>5 DEF JobRequest
  <2>2. /\ UNCHANGED <<consentVars, terminalVars>> /\ j \in Copy
        /\ s # d /\ bridge[s] # 0 /\ bridge[d] # 0 /\ worker[j].pc = "none"
    BY <1>5 DEF JobRequest, CopyOnly, Copy
  <2>3. new.src = s /\ new.dst = d /\ new.from = End(s) /\ new.into = End(d)
    BY DEF CopyOf
  <2> HIDE DEF new
  <2>4. Dropped(gone) \in [Copy -> CopyRec] /\ Dropped(gone)[j].status = copies[j].status
    BY <1>0, <2>2, DroppedType
  <2>5. copies[j].status = "unused" /\ j \notin Action
    BY <2>2, CopiesAssumption DEF CopyInv, Local, Progress
  <2>6. \A d2 \in Copy \ {j} : worker'[d2] = worker[d2]
    BY <1>0, <2>1, <2>2, GotoWorker DEF Pc
  <2>7. CASE c = j /\ copies' = Dropped(gone) /\ Goto(j, "done")
    <3>1. worker'[c].pc = "done" /\ copies'[c].status = "unused"
      BY <1>0, <2>2, <2>4, <2>5, <2>7, GotoWorker DEF Pc
    <3> QED BY <2>5, <2>7, <3>1 DEF RecordStep, Guarded, Live, Stoppable
  <2>8. CASE c = j /\ copies' = [Dropped(gone) EXCEPT ![j] = new]
    <3>1. copies'[c] = new
      BY <2>2, <2>4, <2>8
    <3>2. Fresh(c)
      BY <2>2, <2>3, <2>5, <2>8, <3>1 DEF Fresh
    <3> QED BY <2>5, <2>8, <3>2 DEF RecordStep, Guarded, Stoppable
  <2>9. CASE c # j
    BY <1>0, <2>1, <2>4, <2>6, <2>9, DroppedRecord
  <2> QED BY <2>1, <2>7, <2>8, <2>9
<1>6. ASSUME NEW j \in Job, JobCancel(j)
      PROVE  RecordStep(c)
  <2>1. PICK gone \in SUBSET Job :
          copies' = [Dropped(gone) EXCEPT ![j].status = "cancelled", ![j].code = "stopped"]
    BY <1>6 DEF JobCancel
  <2>2. worker' = worker /\ copies[j].status = "running" /\ j \in Copy
    BY <1>6 DEF JobCancel, Copy
  <2>3. Dropped(gone) \in [Copy -> CopyRec]
    BY <1>0, DroppedType
  <2>4. CASE c = j
    <3> DEFINE r == Dropped(gone)[j]
               new == [r EXCEPT !.status = "cancelled", !.code = "stopped"]
    <3>1. copies'[c] = new /\ r \in CopyRec
      BY <2>1, <2>2, <2>3, <2>4
    <3>2. /\ r.src = copies[c].src /\ r.dst = copies[c].dst /\ r.from = copies[c].from
          /\ r.into = copies[c].into /\ r.key = copies[c].key
      BY <1>0, <2>2, <2>4 DEF TypeOK, Dropped, CopyRec
    <3> HIDE DEF r
    <3>3. /\ new.src = r.src /\ new.dst = r.dst /\ new.from = r.from /\ new.into = r.into
          /\ new.key = r.key /\ new.status = "cancelled"
      BY <3>1 DEF CopyRec
    <3> HIDE DEF new
    <3>4. SameEnds(c) /\ SameRecord(c)
      BY <2>2, <2>4, <3>1, <3>2, <3>3 DEF SameEnds, SameRecord, Stoppable
    <3> QED BY <2>2, <3>4, PlainRecord
  <2>5. CASE c # j
    BY <1>0, <2>1, <2>2, <2>3, <2>5, DroppedRecord
  <2> QED BY <2>4, <2>5
<1>7. ASSUME NEW g \in Bridge, TransferStarts(g)
      PROVE  RecordStep(c)
  BY <1>7, UnchangedRecord DEF TransferStarts
<1> QED BY <1>1, <1>2, <1>3, <1>4, <1>5, <1>6, <1>7 DEF Requested

-----------------------------------------------------------------------------
(* The threads.                                                            *)

\* A step of the thread of d that changes no record.
Quiet(d) ==
  \/ ActionSlot(d) \/ ActionNotStarted(d) \/ TakeCopyLock(d) \/ Check(d)
  \/ OpenDestination(d) \/ Fetch(d) \/ Verify(d) \/ TransferFails(d) \/ Publish(d)
  \/ (JobPrepare(d) \/ JobReread(d)) /\ ~JobDiscard(d)

LEMMA OthersStay ==
  ASSUME TypeOK, NEW d \in Copy, Work(d)
  PROVE  /\ \A c \in Copy \ {d} : worker'[c] = worker[c]
         /\ worker[d].pc \notin {"none", "done"}
<1>1. /\ \A p : Goto(d, p) => \A c \in Copy \ {d} : worker'[c] = worker[c]
      /\ \A e : Fails(d, e) => \A c \in Copy \ {d} : worker'[c] = worker[c]
      /\ Finish(d) => \A c \in Copy \ {d} : worker'[c] = worker[c]
  BY DEF Goto, Fails, Finish, TypeOK
<1>2. ASSUME ActionSlot(d) \/ ActionNotStarted(d) \/ Begin(d)
      PROVE  \A c \in Copy \ {d} : worker'[c] = worker[c]
  BY <1>1, <1>2 DEF ActionSlot, ActionNotStarted, Begin, TypeOK
<1>3. ASSUME JobPrepare(d) \/ JobReread(d) \/ JobInsert(d) \/ JobAbort(d)
      PROVE  \A c \in Copy \ {d} : worker'[c] = worker[c]
  BY <1>1, <1>3 DEF JobPrepare, JobReread, JobInsert, JobAbort, JobDiscard, TypeOK
<1>4. ASSUME \/ TakeCopyLock(d) \/ Check(d) \/ OpenDestination(d) \/ Fetch(d)
             \/ Verify(d) \/ TransferFails(d)
      PROVE  \A c \in Copy \ {d} : worker'[c] = worker[c]
  BY <1>1, <1>4 DEF TakeCopyLock, Check, OpenDestination, Fetch, Verify,
     TransferFails, CopyFails, TypeOK
<1>5. ASSUME BeginCommit(d) \/ Publish(d) \/ Confirm(d) \/ RecordFailure(d)
      PROVE  \A c \in Copy \ {d} : worker'[c] = worker[c]
  BY <1>1, <1>5 DEF BeginCommit, CopyFails, Publish, Confirm, RecordFailure
<1>6. worker[d].pc \notin {"none", "done"}
  BY DEF Work, ActionSlot, ActionNotStarted, Begin, JobPrepare, JobReread, JobInsert,
     JobAbort, TakeCopyLock, Check, OpenDestination, Fetch, Verify, TransferFails,
     BeginCommit, Publish, Confirm, RecordFailure
<1> QED BY <1>2, <1>3, <1>4, <1>5, <1>6 DEF Work

LEMMA QuietKeeps ==
  ASSUME NEW d \in Copy, Quiet(d)
  PROVE  copies' = copies
BY DEF Quiet, ActionSlot, ActionNotStarted, JobPrepare, JobReread, TakeCopyLock, Check,
   OpenDestination, Fetch, Verify, TransferFails, Publish, CopyFails, WorkerOnly

\* Recording an error keeps the ends of a copy.
LEMMA FailEnds ==
  ASSUME TypeOK, NEW d \in Copy, NEW e \in Code, copies'[d] = FailRecord(d, e)
  PROVE  SameEnds(d) /\ Guarded(d)
<1>1. copies[d] \in CopyRec
  BY DEF TypeOK
<1>2. CASE copies[d].status \in {"approved", "running", "committing"}
  BY <1>1, <1>2 DEF FailRecord, SameEnds, Guarded, CopyRec
<1>3. CASE copies[d].status \notin {"approved", "running", "committing"}
  BY <1>1, <1>3 DEF FailRecord, SameEnds, Guarded
<1> QED BY <1>2, <1>3

\* What each step of a thread does to the record of its own copy.
LEMMA OwnSteps ==
  ASSUME CopyInv, NEW d \in Copy, Work(d), copies' # copies
  PROVE  /\ RecordStep(d)
         /\ \/ \A c \in Copy \ {d} : copies'[c] = copies[c]
            \/ \E gone : \A c \in Copy \ {d} : copies'[c] = Dropped(gone)[c]
<1>0. /\ TypeOK /\ worker[d].pc \notin {"none", "done"}
      /\ copies[d] \in CopyRec /\ copies \in [Copy -> CopyRec]
      /\ Denial(d) \in Code /\ worker[d].err \in Code
  BY OthersStay, DenialType DEF CopyInv, TypeOK, WorkerRec
<1>1. ASSUME JobDiscard(d), worker[d].pc \in {"prepare", "reread"}
      PROVE  RecordStep(d) /\ \A c \in Copy \ {d} : copies'[c] = copies[c]
  <2>1. copies[d].status = "unused"
    BY <1>1 DEF CopyInv, Local, Progress
  <2>2. worker'[d].pc = "done" /\ copies'[d].status = "unused"
    BY <1>0, <1>1, GotoWorker DEF JobDiscard, Pc, NoCopy
  <2> QED BY <1>0, <1>1, <2>1, <2>2 DEF JobDiscard, RecordStep, Live, Guarded, Stoppable
<1>2. CASE Begin(d)
  <2>1. CASE copies' = [copies EXCEPT ![d].status = "running"]
    <3>1. copies'[d].status = "running" /\ SameEnds(d)
      BY <1>0, <2>1 DEF CopyRec, SameEnds
    <3> QED BY <1>0, <2>1, <3>1, OwnRecord DEF Guarded, Stoppable
  <2>2. CASE copies' = [copies EXCEPT ![d] = FailRecord(d, Denial(d))]
    BY <1>0, <2>2, FailEnds, OwnRecord
  <2> QED BY <1>2, <2>1, <2>2 DEF Begin
<1>3. CASE JobInsert(d)
  <2> DEFINE r(g) == Dropped(g)[d]
             u(g) == [r(g) EXCEPT !.status = "running"]
             v(g) == [u(g) EXCEPT !.kept = TRUE]
  <2>1. PICK gone \in SUBSET Job :
          \/ copies' = Dropped(gone)
          \/ copies' = [Dropped(gone) EXCEPT ![d].status = "running", ![d].kept = TRUE]
    BY <1>3 DEF JobInsert
  <2>2. Dropped(gone) \in [Copy -> CopyRec] /\ copies[d].status = "unused"
    BY <1>0, <1>3, DroppedType, CopiesAssumption
    DEF JobInsert, CopyInv, Local, Progress
  <2>3. /\ r(gone).src = copies[d].src /\ r(gone).dst = copies[d].dst
        /\ r(gone).from = copies[d].from /\ r(gone).into = copies[d].into
        /\ r(gone) \in CopyRec
    BY <1>0, <2>2 DEF Dropped, CopyRec
  <2>4. copies' = Dropped(gone) \/ copies' = [Dropped(gone) EXCEPT ![d] = v(gone)]
    BY <2>1, <2>2
  <2>5. copies'[d] = r(gone) \/ copies'[d] = v(gone)
    BY <2>2, <2>4
  <2>6. \A c \in Copy \ {d} : copies'[c] = Dropped(gone)[c]
    BY <2>2, <2>4
  <2> HIDE DEF r
  <2>7. /\ u(gone) \in CopyRec
        /\ u(gone).src = r(gone).src /\ u(gone).dst = r(gone).dst
        /\ u(gone).from = r(gone).from /\ u(gone).into = r(gone).into
    BY <2>3 DEF CopyRec, CopyStatus, Retained
  <2> HIDE DEF u
  <2>8. /\ v(gone).src = u(gone).src /\ v(gone).dst = u(gone).dst
        /\ v(gone).from = u(gone).from /\ v(gone).into = u(gone).into
    BY <2>7 DEF CopyRec
  <2> HIDE DEF v
  <2>9. SameEnds(d) /\ Guarded(d)
    BY <2>2, <2>3, <2>5, <2>7, <2>8 DEF SameEnds, Guarded, Stoppable
  <2> QED BY <1>0, <2>6, <2>9, OwnRecord
<1>4. CASE JobAbort(d)
  <2> DEFINE w == [copies[d] EXCEPT !.kept = FALSE]
  <2>1. \/ copies' = [copies EXCEPT ![d] = FailRecord(d, "busy")]
        \/ copies' = [copies EXCEPT ![d] = w]
    BY <1>0, <1>4 DEF JobAbort
  <2>2. CASE copies' = [copies EXCEPT ![d] = FailRecord(d, "busy")]
    <3>1. "busy" \in Code
      BY DEF Code
    <3> QED BY <1>0, <2>2, <3>1, FailEnds, OwnRecord
  <2>3. CASE copies' = [copies EXCEPT ![d] = w]
    <3>1. /\ w.status = copies[d].status /\ w.src = copies[d].src /\ w.dst = copies[d].dst
          /\ w.from = copies[d].from /\ w.into = copies[d].into
      BY <1>0 DEF CopyRec
    <3> HIDE DEF w
    <3> QED BY <1>0, <2>3, <3>1, OwnRecord DEF SameEnds, Guarded
  <2> QED BY <2>1, <2>2, <2>3
<1>5. CASE BeginCommit(d)
  <2>1. CopyAllowed(d) /\ copies' = [copies EXCEPT ![d].status = "committing"]
    BY <1>5 DEF BeginCommit, CopyFails
  <2>2. SameEnds(d)
    BY <1>0, <2>1 DEF SameEnds, CopyRec
  <2> QED BY <1>0, <2>1, <2>2, OwnRecord DEF Guarded
<1>6. CASE Confirm(d)
  <2>1. copies' = [copies EXCEPT ![d].status =
                     IF @ = "committing" THEN "completed" ELSE @]
    BY <1>6 DEF Confirm
  <2>2. SameEnds(d) /\ (copies[d].status # "committing" => copies'[d].status = copies[d].status)
    BY <1>0, <2>1 DEF SameEnds, CopyRec
  <2> QED BY <1>0, <2>1, <2>2, OwnRecord DEF Guarded, Stoppable
<1>7. CASE RecordFailure(d)
  <2>1. copies' = [copies EXCEPT ![d] = FailRecord(d, worker[d].err)]
    BY <1>7 DEF RecordFailure
  <2> QED BY <1>0, <2>1, FailEnds, OwnRecord
<1>8. ~Quiet(d)
  BY QuietKeeps
<1> QED BY <1>1, <1>2, <1>3, <1>4, <1>5, <1>6, <1>7, <1>8
    DEF Work, Quiet, JobPrepare, JobReread

LEMMA WorkRecords ==
  ASSUME CopyInv, NEW d \in Copy, Work(d), NEW c \in Copy
  PROVE  RecordStep(c)
<1>0. TypeOK
  BY DEF CopyInv
<1>1. CASE copies' = copies
  <2>1. CASE c = d
    BY <1>0, <1>1, <2>1, OthersStay, OwnRecord DEF SameEnds, Guarded
  <2> QED BY <1>0, <1>1, <2>1, OthersStay, UnchangedRecord
<1>2. CASE copies' # copies
  BY <1>0, <1>2, OwnSteps, OthersStay, UnchangedRecord, DroppedRecord
<1> QED BY <1>1, <1>2

-----------------------------------------------------------------------------
(* The invariant: what a copy recorded existed, and was allowed, before.   *)

Known(c) ==
  Live(c) =>
    LET r == copies[c] IN
    /\ KnownEnd(r.src, r.from) /\ KnownEnd(r.dst, r.into) /\ r.src # r.dst
    /\ c \in Action => BoundTo(r.src, r.from) /\ BoundTo(r.dst, r.into)

ConsentInv == CopyInv /\ Numbered /\ \A c \in Copy : Known(c)

LEMMA ConsentInit == Init => ConsentInv
<1> SUFFICES ASSUME Init PROVE ConsentInv
  OBVIOUS
<1>1. Numbered
  BY DEF Init, Numbered, NoConsent
<1>2. \A c \in Copy : Known(c)
  BY DEF Init, Known, Live, NoCopy, NoWorker
<1> QED BY <1>1, <1>2, InitInv DEF ConsentInv

LEMMA NextRecords ==
  ASSUME CopyInv, Numbered, [Next]_vars
  PROVE  CopyInv' /\ Later /\ Numbered' /\ \A c \in Copy : RecordStep(c)
<1>0. TypeOK /\ CopyInv'
  BY SettingStep, RequestedStep, WorkStep, TransferStep, StutterStep DEF Next, CopyInv
<1>1. CASE Setting
  BY <1>0, <1>1, SettingLater, SettingRecords
<1>2. CASE Requested
  <2>1. \A a \in Action :
          /\ \A s, d \in Terminal, n \in 0..MaxChunks : Propose(a, s, d, n) => CopyOnly
          /\ Approve(a) \/ Reject(a) \/ Cancel(a) => CopyOnly
    BY DEF Propose, Approve, Reject, Cancel
  <2>2. ASSUME NEW j \in Job
        PROVE  /\ \A k \in Key, s, d \in Terminal, n \in 0..MaxChunks :
                    JobRequest(j, k, s, d, n) => CopyOnly
               /\ JobCancel(j) => CopyOnly
    <3>1. ASSUME NEW k \in Key, NEW s \in Terminal, NEW d \in Terminal, NEW n \in 0..MaxChunks,
                 JobRequest(j, k, s, d, n)
          PROVE  CopyOnly
      BY <3>1 DEF JobRequest
    <3>2. ASSUME JobCancel(j) PROVE CopyOnly
      BY <3>2 DEF JobCancel
    <3> QED BY <3>1, <3>2
  <2>3. \A g \in Bridge : TransferStarts(g) => CopyOnly
    BY DEF TransferStarts
  <2>4. UNCHANGED <<consentVars, terminalVars>>
    BY <1>2, <2>1, <2>2, <2>3 DEF Requested, CopyOnly
  <2> QED BY <1>0, <1>2, <2>4, Still, RequestedRecords
<1>3. ASSUME NEW d \in Copy, Work(d)
      PROVE  Later /\ Numbered' /\ \A c \in Copy : RecordStep(c)
  <2>1. UNCHANGED <<consentVars, terminalVars>>
    BY <1>3 DEF Work, ActionSlot, ActionNotStarted, Begin, JobPrepare, JobReread,
       JobInsert, JobAbort, JobDiscard, TakeCopyLock, Check, OpenDestination, Fetch,
       Verify, TransferFails, BeginCommit, Publish, Confirm, RecordFailure, CopyFails,
       WorkerOnly, CopyOnly
  <2> QED BY <1>0, <1>3, <2>1, Still, WorkRecords
<1>4. ASSUME (\E g \in Bridge : TransferEnds(g)) \/ UNCHANGED vars
      PROVE  Later /\ Numbered' /\ \A c \in Copy : RecordStep(c)
  <2>1. UNCHANGED <<consentVars, terminalVars, copies, worker>>
    BY <1>4 DEF TransferEnds, CopyOnly, vars, consentVars, terminalVars
  <2> QED BY <1>0, <2>1, Still, UnchangedRecord
<1> QED BY <1>0, <1>1, <1>2, <1>3, <1>4 DEF Next

LEMMA KnownStays ==
  ASSUME TypeOK, TypeOK', Numbered, Later, NEW c \in Copy, Known(c), RecordStep(c)
  PROVE  Known(c)'
<1>1. CASE Live(c) /\ SameEnds(c)
  <2>1. copies[c].from \in EndRec /\ copies[c].into \in EndRec
    BY DEF TypeOK, CopyRec
  <2>2. /\ KnownEnd(copies[c].src, copies[c].from)'
        /\ KnownEnd(copies[c].dst, copies[c].into)'
        /\ copies'[c].src # copies'[c].dst
    BY <1>1, <2>1, EndStays DEF Known, KnownEnd, SameEnds
  <2>3. ASSUME c \in Action
        PROVE  /\ BoundTo(copies[c].src, copies[c].from)'
               /\ BoundTo(copies[c].dst, copies[c].into)'
    BY <1>1, <2>1, <2>3, BoundStays DEF Known, KnownEnd, SameEnds, BoundTo
  <2> QED BY <2>2, <2>3 DEF Known
<1>2. CASE Fresh(c)
  <2>1. PICK s, d \in Terminal :
          /\ s # d /\ bridge[s] # 0 /\ bridge[d] # 0
          /\ copies'[c].src = s /\ copies'[c].from = End(s)
          /\ copies'[c].dst = d /\ copies'[c].into = End(d)
          /\ c \in Action => consent[s].open /\ consent[d].open
    BY <1>2 DEF Fresh
  <2>2. UNCHANGED <<consent, bindings, created>>
    BY <1>2 DEF Fresh, consentVars, terminalVars
  <2>3. ASSUME NEW t \in Terminal, bridge[t] # 0
        PROVE  /\ End(t).bridge # 0 /\ End(t).bridge <= created[t]
               /\ consent[t].open =>
                    /\ End(t).binding # 0 /\ End(t).binding <= bindings[t]
                    /\ End(t).version <= consent[t].version
    BY <2>3 DEF Numbered, End, TypeOK, ConsentRec
  <2> QED BY <2>1, <2>2, <2>3 DEF Known, KnownEnd, BoundTo
<1> QED BY <1>1, <1>2 DEF RecordStep, Known

THEOREM ConsentInvariant == Spec => []ConsentInv
<1>1. ConsentInv /\ [Next]_vars => ConsentInv'
  BY NextRecords, KnownStays DEF ConsentInv, CopyInv
<1> QED BY <1>1, ConsentInit, PTL DEF Spec

-----------------------------------------------------------------------------
\* Consent that is withdrawn from a copy on either terminal before its commit
\* barrier is never given back to it, and no step takes it through the barrier.
LEMMA WithdrawnStep ==
  ASSUME ConsentInv, [Next]_vars, NEW c \in Copy, Withdrawn(c)
  PROVE  \/ Withdrawn(c)' /\ c \notin published'
         \/ copies'[c].status \in {"failed", "rejected", "cancelled"}
<1> DEFINE r == copies[c]
           q == copies'[c]
<1>1. CopyInv' /\ TypeOK /\ TypeOK' /\ Later /\ Guarded(c)
  BY NextRecords DEF ConsentInv, CopyInv, RecordStep
<1>2. ~CopyAllowed(c)
  BY CopiesAssumption DEF Withdrawn, CopyAllowed, AgentAllowed, JobAllowed, TokenLive
<1>3. /\ q.src = r.src /\ q.dst = r.dst /\ q.from = r.from /\ q.into = r.into
      /\ q.status \in Stoppable \cup {"failed", "rejected", "cancelled"}
  BY <1>1, <1>2 DEF Guarded, SameEnds, Withdrawn
<1>4. r.from \in EndRec /\ r.into \in EndRec
  BY <1>1 DEF TypeOK, CopyRec
<1>5. /\ KnownEnd(r.src, r.from) /\ KnownEnd(r.dst, r.into)
      /\ r.src \in Terminal /\ r.dst \in Terminal
      /\ c \in Action => BoundTo(r.src, r.from) /\ BoundTo(r.dst, r.into)
  BY DEF ConsentInv, Known, Live, Withdrawn, Stoppable, KnownEnd
<1>6. CASE q.status \in Stoppable
  <2>1. /\ bridge[r.src] # r.from.bridge => bridge'[r.src] # r.from.bridge
        /\ bridge[r.dst] # r.into.bridge => bridge'[r.dst] # r.into.bridge
        /\ ~online => ~online'
    BY <1>1, <1>4, <1>5, EndStays DEF Later
  <2>2. ASSUME c \in Action
        PROVE  /\ ~ConsentHolds(r.src, r.from) => ~ConsentHolds(r.src, r.from)'
               /\ ~ConsentHolds(r.dst, r.into) => ~ConsentHolds(r.dst, r.into)'
               /\ token[r.src] = "revoked"
                    => token'[r.src] = "revoked" \/ ~ConsentHolds(r.src, r.from)'
               /\ token[r.dst] = "revoked"
                    => token'[r.dst] = "revoked" \/ ~ConsentHolds(r.dst, r.into)'
    BY <1>1, <1>3, <1>4, <1>5, <2>2, BoundStays DEF ConsentHolds
  <2>3. Withdrawn(c)'
    BY <1>3, <1>6, <2>1, <2>2 DEF Withdrawn, ConsentHolds
  <2>4. c \notin published'
    BY <1>1, <1>6 DEF CopyInv, Local, Outcome, Stoppable
  <2> QED BY <2>3, <2>4
<1> QED BY <1>3, <1>6

\* A copy from which consent was withdrawn is never published: it stays as it
\* is or ends, whatever is resumed, re-attached or restarted afterwards.
THEOREM NoCommitAfterWithdrawal == Spec => WithdrawnNeverCommits
<1>1. ConsentInv /\ [Next]_vars =>
        [\A c \in Copy : Withdrawn(c) =>
           \/ Withdrawn(c)' /\ c \notin published'
           \/ copies'[c].status \in {"failed", "rejected", "cancelled"}]_vars
  BY WithdrawnStep
<1>2. Spec => [][Next]_vars
  BY DEF Spec
<1> QED BY <1>1, <1>2, ConsentInvariant, PTL DEF WithdrawnNeverCommits

-----------------------------------------------------------------------------
(* Copies do not wait for each other's locks in a circle.                  *)
(*                                                                         *)
(* The invariant: who holds which lock, by the place of its thread.        *)

\* Where a thread holds the copy lock.
Holding == {"dest", "check", "fetch", "verify", "barrier", "publish"}

\* The transfer locks it may hold there.
MayHold(c, g) ==
  \/ g = Dst(c) /\ worker[c].pc \in Holding \ {"dest"}
  \/ g = Src(c) /\ worker[c].pc \in {"check", "fetch"} /\ worker[c].left > 0

Owned(c) ==
  /\ worker[c].pc \in Holding <=> copyLock = c
  /\ \A g \in Bridge : busy[g] = c => MayHold(c, g)

LockInv == ConsentInv /\ \A c \in Copy : Owned(c)

LEMMA LockInit == Init => LockInv
<1> SUFFICES ASSUME Init PROVE LockInv
  OBVIOUS
<1>1. \A c \in Copy : Owned(c)
  BY CopiesAssumption DEF Init, Owned, NoWorker, Holding, Copy
<1> QED BY <1>1, ConsentInit DEF LockInv

\* The thread of c stays where it is and gets no lock.
LEMMA OwnedStays ==
  ASSUME NEW c \in Copy, Owned(c), RecordStep(c), worker'[c] = worker[c],
         copyLock' = c <=> copyLock = c,
         \A g \in Bridge : busy'[g] = c => busy[g] = c
  PROVE  Owned(c)'
<1>1. CASE worker[c].pc \in Holding
  <2>1. SameEnds(c)
    BY <1>1 DEF RecordStep, Live, Fresh, Holding
  <2> QED BY <2>1 DEF Owned, MayHold, SameEnds, Src, Dst
<1>2. CASE worker[c].pc \notin Holding
  BY <1>2 DEF Owned, MayHold, Holding
<1> QED BY <1>1, <1>2

\* A thread that has no lock before and after a step.
LEMMA OwnedOutside ==
  ASSUME NEW c \in Copy, worker'[c].pc \notin Holding, copyLock' # c,
         \A g \in Bridge : busy'[g] # c
  PROVE  Owned(c)'
BY DEF Owned

LEMMA NothingOutside ==
  ASSUME NEW c \in Copy, Owned(c), worker[c].pc \notin Holding
  PROVE  copyLock # c /\ \A g \in Bridge : busy[g] # c
BY DEF Owned, MayHold, Holding

LEMMA OwnedElsewhere ==
  ASSUME NEW c \in Copy, Owned(c), UNCHANGED lockVars,
         worker[c].pc \notin Holding, worker'[c].pc \notin Holding
  PROVE  Owned(c)'
BY NothingOutside, OwnedOutside DEF lockVars

-----------------------------------------------------------------------------
(* Steps outside the threads.                                              *)

LEMMA SettingOwned ==
  ASSUME LockInv, Setting, NEW c \in Copy
  PROVE  Owned(c)'
<1>1. UNCHANGED <<worker, lockVars>>
  BY DEF Setting, Disconnect, Detach, CloseInvalidate, EndInvalidate, Invalidate,
     Mint, TokenExpires, TokenRenewed, RevokeToken, RevokeCancel, SetToken, Start,
     ClosePop, EndPop, TerminalOnly, Attach, Control
<1>2. RecordStep(c)
  BY SettingRecords DEF LockInv, ConsentInv, CopyInv
<1> QED BY <1>1, <1>2, OwnedStays DEF LockInv, lockVars

LEMMA RequestedOwned ==
  ASSUME LockInv, Requested, NEW c \in Copy
  PROVE  Owned(c)'
<1>0. RecordStep(c) /\ Owned(c) /\ CopyInv /\ TypeOK
  BY RequestedRecords DEF LockInv, ConsentInv, CopyInv
<1>1. ASSUME UNCHANGED <<worker, lockVars>> PROVE Owned(c)'
  BY <1>0, <1>1, OwnedStays DEF lockVars
<1>2. ASSUME NEW d \in Copy, worker[d].pc = "none", UNCHANGED lockVars,
             NEW p \in {"slot", "done", "prepare"}, Goto(d, p)
      PROVE  Owned(c)'
  <2>1. p \in Pc /\ p \notin Holding /\ "none" \notin Holding
    BY <1>2 DEF Pc, Holding
  <2>2. CASE c = d
    BY <1>0, <1>2, <2>1, <2>2, GotoWorker, OwnedElsewhere
  <2>3. CASE c # d
    BY <1>0, <1>2, <2>1, <2>3, GotoWorker, OwnedStays DEF lockVars
  <2> QED BY <2>2, <2>3
<1>3. ASSUME NEW a \in Action, NEW s \in Terminal, NEW d \in Terminal,
             NEW n \in 0..MaxChunks, Propose(a, s, d, n)
      PROVE  Owned(c)'
  BY <1>1, <1>3 DEF Propose
<1>4. ASSUME NEW a \in Action, Approve(a)
      PROVE  Owned(c)'
  <2>1. worker[a].pc = "none" /\ a \in Copy
    BY <1>0, <1>4 DEF CopyInv, Local, Progress, Approve, Copy
  <2>2. Goto(a, "slot") /\ UNCHANGED lockVars
    BY <1>4 DEF Approve, Goto
  <2> QED BY <1>2, <2>1, <2>2
<1>5. ASSUME NEW a \in Action, Reject(a) \/ Cancel(a)
      PROVE  Owned(c)'
  BY <1>1, <1>5 DEF Reject, Cancel
<1>6. ASSUME NEW j \in Job, NEW k \in Key, NEW s \in Terminal, NEW d \in Terminal,
             NEW n \in 0..MaxChunks, JobRequest(j, k, s, d, n)
      PROVE  Owned(c)'
  <2>1. /\ worker[j].pc = "none" /\ UNCHANGED lockVars /\ j \in Copy
        /\ Goto(j, "done") \/ Goto(j, "prepare")
    BY <1>6 DEF JobRequest, Copy
  <2> QED BY <1>2, <2>1
<1>7. ASSUME NEW j \in Job, JobCancel(j)
      PROVE  Owned(c)'
  BY <1>1, <1>7 DEF JobCancel
<1>8. ASSUME NEW g \in Bridge, TransferStarts(g)
      PROVE  Owned(c)'
  <2>1. /\ worker' = worker /\ copyLock' = copyLock
        /\ \A h \in Bridge : busy'[h] = c => busy[h] = c
    BY <1>0, <1>8, CopiesAssumption DEF TransferStarts, TypeOK, Copy
  <2> QED BY <1>0, <2>1, OwnedStays
<1> QED BY <1>3, <1>4, <1>5, <1>6, <1>7, <1>8 DEF Requested

-----------------------------------------------------------------------------
(* Steps of the threads.                                                   *)

\* On the way out every lock is given back.
LEMMA UnwindFrees ==
  ASSUME TypeOK, NEW c \in Copy, Unwind(c)
  PROVE  /\ copyLock' # c /\ \A g \in Bridge : busy'[g] # c
         /\ \A d \in Copy \ {c} :
              (copyLock' = d <=> copyLock = d) /\ \A g \in Bridge : busy'[g] = d => busy[g] = d
BY CopiesAssumption DEF Unwind, Copy, TypeOK

\* The locks that the step of one thread leaves to the others.
LEMMA OthersLocks ==
  ASSUME TypeOK, NEW d \in Copy, Work(d), NEW c \in Copy \ {d}
  PROVE  (copyLock' = c <=> copyLock = c) /\ \A g \in Bridge : busy'[g] = c => busy[g] = c
<1>1. CASE Unwind(d)
  BY <1>1, UnwindFrees
<1>2. CASE UNCHANGED lockVars
  BY <1>2 DEF lockVars
<1>3. CASE TakeCopyLock(d)
  BY <1>1, <1>3, CopiesAssumption DEF TakeCopyLock, CopyFails, Copy
<1>4. CASE OpenDestination(d)
  BY <1>4 DEF OpenDestination, TypeOK
<1>5. CASE Fetch(d)
  BY <1>5, CopiesAssumption DEF Fetch, TypeOK, Copy
<1> QED BY <1>1, <1>2, <1>3, <1>4, <1>5
    DEF Work, ActionSlot, ActionNotStarted, Begin, JobPrepare, JobReread, JobInsert,
        JobAbort, JobDiscard, Check, Verify, TransferFails, BeginCommit, Publish,
        Confirm, RecordFailure, CopyFails, WorkerOnly

LEMMA FetchWorker ==
  ASSUME TypeOK, NEW c \in Copy, Fetch(c), worker[c].left > 0
  PROVE  worker'[c].pc = "check" /\ worker'[c].left = worker[c].left - 1
<1> DEFINE w == [worker[c] EXCEPT !.pc = "check"]
           u == [w EXCEPT !.left = @ - 1]
<1>1. w \in WorkerRec /\ w.pc = "check" /\ w.left = worker[c].left
  BY DEF TypeOK, WorkerRec, Pc
<1>2. worker' = [worker EXCEPT ![c] = u]
  BY DEF TypeOK, Fetch
<1> HIDE DEF w
<1>3. u.pc = w.pc /\ u.left = w.left - 1
  BY <1>1 DEF WorkerRec
<1> HIDE DEF u
<1> QED BY <1>1, <1>2, <1>3 DEF TypeOK

\* Where a thread that takes or returns a slot goes.
LEMMA SlotWorker ==
  ASSUME TypeOK, NEW c \in Copy
  PROVE  /\ \A p \in Pc : worker' = [worker EXCEPT ![c].pc = p, ![c].slot = TRUE,
                                              ![c].left = copies[c].size]
                       => worker'[c].pc = p
         /\ ActionNotStarted(c) => worker'[c].pc = "fail"
<1>1. ASSUME NEW p \in Pc
      PROVE  /\ [worker[c] EXCEPT !.pc = p] \in WorkerRec
             /\ [worker[c] EXCEPT !.pc = p].pc = p
  BY DEF TypeOK, WorkerRec
<1>2. ASSUME NEW w \in WorkerRec, NEW n
      PROVE  [w EXCEPT !.slot = TRUE, !.left = n].pc = w.pc
  BY DEF WorkerRec
<1>3. ASSUME NEW w \in WorkerRec, NEW e
      PROVE  [w EXCEPT !.err = e, !.slot = FALSE].pc = w.pc
  BY DEF WorkerRec
<1>4. ASSUME NEW p \in Pc, worker' = [worker EXCEPT ![c].pc = p, ![c].slot = TRUE,
                                                 ![c].left = copies[c].size]
      PROVE  worker'[c].pc = p
  <2> DEFINE w == [worker[c] EXCEPT !.pc = p]
  <2>1. worker'[c] = [w EXCEPT !.slot = TRUE, !.left = copies[c].size]
    BY <1>4 DEF TypeOK
  <2>2. w \in WorkerRec /\ w.pc = p
    BY <1>1
  <2> HIDE DEF w
  <2> QED BY <1>2, <2>1, <2>2
<1>5. ASSUME ActionNotStarted(c)
      PROVE  worker'[c].pc = "fail"
  <2> DEFINE w == [worker[c] EXCEPT !.pc = "fail"]
  <2>1. worker'[c] = [w EXCEPT !.err = "busy", !.slot = FALSE]
    BY <1>5 DEF TypeOK, ActionNotStarted
  <2>2. w \in WorkerRec /\ w.pc = "fail"
    BY <1>1 DEF Pc
  <2> HIDE DEF w
  <2> QED BY <1>3, <2>1, <2>2
<1> QED BY <1>4, <1>5

\* What the step of a thread does to its own locks.
LEMMA OwnLocks ==
  ASSUME LockInv, NEW c \in Copy, Work(c)
  PROVE  Owned(c)'
<1>0. /\ CopyInv /\ TypeOK /\ Owned(c) /\ RecordStep(c) /\ Local(c)
      /\ worker[c] \in WorkerRec /\ Denial(c) \in Code /\ worker[c].pc # "none"
  BY WorkRecords, DenialType, OthersStay DEF LockInv, ConsentInv, CopyInv, TypeOK
<1>1. worker'[c].pc \in Holding => SameEnds(c)
  BY <1>0 DEF RecordStep, Live, Fresh, Holding
<1>2. ASSUME Unwind(c), NEW p \in {"confirm", "fail"}, worker'[c].pc = p
      PROVE  Owned(c)'
  BY <1>0, <1>2, UnwindFrees, OwnedOutside DEF Holding
<1>3. ASSUME NEW e \in Code, CopyFails(c, e)
      PROVE  Owned(c)'
  BY <1>0, <1>2, <1>3, FailsWorker DEF CopyFails
<1>4. CASE ActionSlot(c) \/ ActionNotStarted(c) \/ Begin(c)
  <2>1. worker'[c].pc \in {"fail", "begin", "recheck", "done"}
    BY <1>0, <1>4, SlotWorker, FailsWorker, GotoWorker, FinishWorker
    DEF ActionSlot, Begin, Pc, Code
  <2> QED BY <1>0, <1>4, <2>1, OwnedElsewhere
      DEF ActionSlot, ActionNotStarted, Begin, Holding
<1>5. CASE JobPrepare(c) \/ JobReread(c) \/ JobInsert(c) \/ JobAbort(c)
  <2>1. worker'[c].pc \in {"done", "reread", "insert", "abort", "wait"}
    BY <1>0, <1>5, SlotWorker, GotoWorker, FinishWorker
    DEF JobPrepare, JobReread, JobInsert, JobAbort, JobDiscard, Pc
  <2>2. UNCHANGED lockVars /\ worker[c].pc \in {"prepare", "reread", "insert", "abort"}
    BY <1>5 DEF JobPrepare, JobReread, JobInsert, JobAbort, JobDiscard, WorkerOnly
  <2> QED BY <1>0, <2>1, <2>2, OwnedElsewhere DEF Holding
<1>6. CASE Confirm(c) \/ RecordFailure(c)
  BY <1>0, <1>6, FinishWorker, OwnedElsewhere DEF Confirm, RecordFailure, Holding
<1>7. CASE TakeCopyLock(c)
  <2>1. CASE Goto(c, "dest") /\ copyLock' = c /\ busy' = busy
    <3>1. worker'[c].pc = "dest"
      BY <1>0, <2>1, GotoWorker DEF Pc
    <3>2. \A g \in Bridge : busy[g] # c
      BY <1>0, <1>7, NothingOutside DEF TakeCopyLock, Holding
    <3> QED BY <2>1, <3>1, <3>2 DEF Owned, Holding
  <2> QED BY <1>0, <1>3, <1>7, <2>1 DEF TakeCopyLock
<1>8. CASE Check(c)
  <2>1. CASE worker[c].pc = "recheck" /\ Goto(c, "wait") /\ UNCHANGED lockVars
    BY <1>0, <2>1, GotoWorker, OwnedElsewhere DEF Holding, Pc
  <2>2. CASE worker[c].pc = "check" /\ UNCHANGED lockVars
             /\ Goto(c, IF worker[c].left = 0 THEN "verify" ELSE "fetch")
    <3>1. /\ worker'[c].left = worker[c].left
          /\ worker'[c].pc = IF worker[c].left = 0 THEN "verify" ELSE "fetch"
      BY <1>0, <2>2, GotoWorker DEF Pc
    <3>2. SameEnds(c)
      BY <1>1, <3>1 DEF Holding
    <3> QED BY <1>0, <2>2, <3>1, <3>2
        DEF Owned, MayHold, Holding, SameEnds, Src, Dst, lockVars, WorkerRec
  <2> QED BY <1>0, <1>3, <1>8, <2>1, <2>2 DEF Check, WorkerOnly
<1>9. CASE OpenDestination(c)
  <2>1. worker[c].pc = "dest" /\ copyLock' = copyLock /\ busy' = [busy EXCEPT ![Dst(c)] = c]
    BY <1>9 DEF OpenDestination
  <2>2. worker'[c].pc \in {"verify", "check"}
    BY <1>0, <1>9, GotoWorker DEF OpenDestination, Pc
  <2>3. SameEnds(c)
    BY <1>1, <2>2 DEF Holding
  <2>4. \A g \in Bridge : busy'[g] = c => g = Dst(c)
    <3>1. \A g \in Bridge : busy[g] # c
      BY <1>0, <2>1 DEF Owned, MayHold
    <3> QED BY <1>0, <2>1, <3>1 DEF TypeOK
  <2> QED BY <1>0, <2>1, <2>2, <2>3, <2>4 DEF Owned, MayHold, Holding, SameEnds, Dst
<1>10. CASE Fetch(c)
  <2>1. worker[c].left > 0 /\ worker[c].left \in Nat /\ worker[c].pc = "fetch"
    BY <1>0, <1>10 DEF Fetch, Local, Progress, WorkerRec
  <2>2. worker'[c].pc = "check" /\ worker'[c].left = worker[c].left - 1
    BY <1>0, <1>10, <2>1, FetchWorker
  <2>3. SameEnds(c)
    BY <1>1, <2>2 DEF Holding
  <2>4. \A g \in Bridge : busy'[g] = c => g = Dst(c) \/ (g = Src(c) /\ worker[c].left # 1)
    <3>1. busy' = [busy EXCEPT ![Src(c)] = IF worker[c].left = 1 THEN Nobody ELSE c]
      BY <1>10 DEF Fetch
    <3>2. Nobody # c
      BY CopiesAssumption DEF Copy
    <3>3. \A g \in Bridge : busy[g] = c => g = Dst(c) \/ g = Src(c)
      BY <1>0 DEF Owned, MayHold
    <3>4. \A g \in Bridge : IF g = Src(c) THEN busy'[g] = IF worker[c].left = 1 THEN Nobody ELSE c
                            ELSE busy'[g] = busy[g]
      BY <1>0, <3>1, Zenon DEF TypeOK
    <3> QED BY <3>2, <3>3, <3>4
  <2>5. copyLock' = copyLock /\ copyLock = c
    BY <1>0, <1>10, <2>1 DEF Fetch, Owned, Holding
  <2> QED BY <2>1, <2>2, <2>3, <2>4, <2>5 DEF Owned, MayHold, Holding, SameEnds, Src, Dst
<1>11. CASE Verify(c) \/ BeginCommit(c)
  <2>1. CASE /\ worker[c].pc \in {"verify", "barrier"} /\ UNCHANGED lockVars
             /\ Goto(c, "barrier") \/ Goto(c, "publish")
    <3>1. worker'[c].pc \in {"barrier", "publish"}
      BY <1>0, <2>1, GotoWorker DEF Pc
    <3>2. SameEnds(c)
      BY <1>1, <3>1 DEF Holding
    <3> QED BY <1>0, <2>1, <3>1, <3>2
        DEF Owned, MayHold, Holding, SameEnds, Src, Dst, lockVars
  <2> QED BY <1>0, <1>3, <1>11, <2>1 DEF Verify, BeginCommit, WorkerOnly
<1>12. CASE TransferFails(c)
  BY <1>3, <1>12 DEF TransferFails, Code
<1>13. CASE Publish(c)
  <2>1. worker'[c].pc = "confirm" \/ worker'[c].pc = "fail"
    <3>1. {"io", "unknown"} \subseteq Code /\ "confirm" \in Pc
      BY DEF Code, Pc
    <3> QED BY <1>0, <1>13, <3>1, GotoWorker, FailsWorker DEF Publish
  <2> QED BY <1>2, <1>13, <2>1 DEF Publish
<1> QED BY <1>4, <1>5, <1>6, <1>7, <1>8, <1>9, <1>10, <1>11, <1>12, <1>13 DEF Work

LEMMA LockStep == LockInv /\ [Next]_vars => LockInv'
<1> SUFFICES ASSUME LockInv, [Next]_vars PROVE LockInv'
  OBVIOUS
<1>0. CopyInv /\ TypeOK /\ Numbered
  BY DEF LockInv, ConsentInv, CopyInv
<1>1. ConsentInv' /\ \A c \in Copy : RecordStep(c)
  BY <1>0, NextRecords, KnownStays DEF LockInv, ConsentInv, CopyInv
<1>2. ASSUME NEW c \in Copy PROVE Owned(c)'
  <2>1. ASSUME NEW d \in Copy, Work(d) PROVE Owned(c)'
    <3>1. CASE c = d
      BY <2>1, <3>1, OwnLocks
    <3>2. CASE c # d
      BY <1>0, <1>1, <2>1, <3>2, OthersStay, OthersLocks, OwnedStays DEF LockInv
    <3> QED BY <3>1, <3>2
  <2>2. ASSUME NEW g \in Bridge, TransferEnds(g) PROVE Owned(c)'
    <3>1. /\ worker' = worker /\ copyLock' = copyLock
          /\ \A h \in Bridge : busy'[h] = c => busy[h] = c
      BY <1>0, <2>2, CopiesAssumption DEF TransferEnds, TypeOK, Copy
    <3> QED BY <1>1, <3>1, OwnedStays DEF LockInv
  <2>3. CASE UNCHANGED vars
    <3>1. worker' = worker /\ copyLock' = copyLock /\ busy' = busy
      BY <2>3 DEF vars
    <3> QED BY <1>1, <3>1, OwnedStays DEF LockInv
  <2> QED BY <2>1, <2>2, <2>3, SettingOwned, RequestedOwned DEF Next
<1> QED BY <1>1, <1>2 DEF LockInv

\* No two copies wait for each other, and none for itself: copies in opposite
\* directions each use the transfer lock of a bridge the other one needs.
THEOREM NoCopiesWaitInACircle == Spec => []NoCircularWait
<1>1. LockInv => NoCircularWait
  <2> SUFFICES ASSUME LockInv, NEW c \in Copy, NEW d \in Copy,
                      d \in WaitsFor(c), c \in WaitsFor(d)
               PROVE  FALSE
    BY DEF NoCircularWait
  <2>1. ASSUME NEW x \in Copy, NEW y \in Copy, y \in WaitsFor(x)
        PROVE  /\ copyLock = y
               /\ \/ worker[x].pc \notin Holding
                  \/ worker[x].pc = "dest" /\ MayHold(y, Dst(x))
                  \/ worker[x].pc = "verify" /\ MayHold(y, Src(x))
                  \/ worker[x].pc = "fetch" /\ x # y
    <3>1. worker[x].pc \in {"prepare", "dest", "reread", "verify", "fetch"}
            => Src(x) \in Bridge /\ Dst(x) \in Bridge
      <4>1. ASSUME worker[x].pc \in {"prepare", "dest", "reread", "verify", "fetch"}
            PROVE  KnownEnd(copies[x].src, copies[x].from) /\ KnownEnd(copies[x].dst, copies[x].into)
        BY <4>1 DEF LockInv, ConsentInv, Known, Live
      <4>2. copies[x] \in CopyRec /\ \A t \in Terminal : created[t] \in 0..MaxBridge
        BY DEF LockInv, ConsentInv, CopyInv, TypeOK
      <4>3. ASSUME NEW t, NEW e \in EndRec, KnownEnd(t, e)
            PROVE  <<t, e.bridge>> \in Bridge
        BY <4>2, <4>3, LimitsAssumption DEF KnownEnd, EndRec, Bridge
      <4> QED BY <4>1, <4>2, <4>3 DEF CopyRec, Src, Dst
    <3>2. \A g \in Bridge : busy[g] = y => copyLock = y /\ MayHold(y, g)
      BY DEF LockInv, Owned, MayHold, Holding
    <3> QED BY <2>1, <3>1, <3>2 DEF WaitsFor, Holding
  <2>2. c = d /\ copyLock = c /\ worker[c].pc \in Holding
    BY <2>1 DEF LockInv, Owned
  <2>3. copies[c].src # copies[c].dst
    BY <2>2 DEF LockInv, ConsentInv, Known, Live, Holding
  <2> QED BY <2>1, <2>2, <2>3 DEF MayHold, Holding, Src, Dst
<1> QED BY <1>1, LockInit, LockStep, PTL DEF Spec

-----------------------------------------------------------------------------
(* Jobs and the requests they answer.                                      *)

\* The request of j is reserved, and its job not stored yet.
Preparing(j) ==
  \/ worker[j].pc \in {"prepare", "reread", "insert"}
  \/ worker[j].pc = "abort" /\ copies[j].status = "unused"

UnderWay(j) == copies[j].status \in {"running", "committing"}

JobRecord(j) ==
  /\ copies[j].status \notin {"pending_approval", "approved"}
  /\ worker[j].pc = "abort" => copies[j].status \in {"unused", "running", "cancelled"}
  /\ UnderWay(j) => copies[j].kept /\ copies[j].key \in Key

\* The request is reserved while the job is prepared, and names it from there
\* on, unless its reservation was lost.
Reservation(j) ==
  copies[j].key \notin lapsed =>
    /\ Preparing(j) => request[copies[j].key] = "reserved"
    /\ UnderWay(j) => request[copies[j].key] = j

\* A reservation belongs to one job.
Sole(i, j) ==
  i # j /\ Preparing(i) /\ Preparing(j) /\ copies[i].key = copies[j].key
    => copies[i].key \in lapsed

JobInv ==
  /\ CopyInv
  /\ \A j \in Job : JobRecord(j) /\ Reservation(j) /\ \A i \in Job : Sole(i, j)

\* The record is not dropped while its copy is under way.
KeepsOpen(c) == copies[c].kept /\ copies[c].status \in Retained => copies'[c].kept

\* A step that neither prepares nor stores c, and drops it only once it ended.
Onward(c) ==
  /\ KeepsOpen(c)
  /\ c \in Job =>
       /\ copies'[c].key = copies[c].key
       /\ \/ copies'[c].status = copies[c].status
          \/ copies'[c].status \in Ended
             /\ (worker'[c].pc = "abort" => copies'[c].status = "cancelled")
          \/ UnderWay(c) /\ copies'[c].status = "committing" /\ worker'[c].pc # "abort"
       /\ \/ worker'[c].pc = worker[c].pc
          \/ worker'[c].pc \notin {"prepare", "reread", "insert", "abort"}
          \/ worker[c].pc = "prepare" /\ worker'[c].pc = "reread"
          \/ worker[c].pc = "reread" /\ worker'[c].pc = "insert"

\* The step leaves to j the request that is reserved for it or names it.
Held(j) ==
  LET k == copies[j].key IN
  k \notin lapsed' =>
    /\ Preparing(j) /\ request[k] = "reserved" => request'[k] = "reserved"
    /\ UnderWay(j)' /\ request[k] = j => request'[k] = j

LEMMA OnwardJob ==
  ASSUME NEW j \in Job, Onward(j), JobRecord(j)
  PROVE  /\ JobRecord(j)' /\ copies'[j].key = copies[j].key
         /\ Preparing(j)' => Preparing(j)
         /\ UnderWay(j)' => UnderWay(j)
BY DEF Onward, KeepsOpen, JobRecord, Preparing, UnderWay, Ended, Retained

LEMMA ReservationStays ==
  ASSUME NEW j \in Job, Onward(j), Held(j), JobRecord(j), Reservation(j),
         lapsed \subseteq lapsed'
  PROVE  Reservation(j)'
BY OnwardJob DEF Reservation, Held

\* Every job but i moves onward.
LEMMA JobsButOne ==
  ASSUME JobInv, CopyInv', lapsed \subseteq lapsed', NEW i \in Job,
         \A j \in Job \ {i} : Onward(j) /\ Held(j),
         JobRecord(i)', Reservation(i)',
         \A j \in Job : Sole(i, j)' /\ Sole(j, i)'
  PROVE  JobInv'
<1>1. \A j \in Job \ {i} : JobRecord(j)' /\ Reservation(j)'
  BY OnwardJob, ReservationStays DEF JobInv
<1>2. \A j, h \in Job \ {i} : Sole(h, j)'
  BY OnwardJob DEF JobInv, Sole
<1> QED BY <1>1, <1>2 DEF JobInv

LEMMA JobsOnward ==
  ASSUME JobInv, CopyInv', lapsed \subseteq lapsed',
         \A j \in Job : Onward(j) /\ Held(j)
  PROVE  JobInv'
<1>1. \A j \in Job : JobRecord(j)' /\ Reservation(j)'
  BY OnwardJob, ReservationStays DEF JobInv
<1>2. \A j, h \in Job : Sole(h, j)'
  BY OnwardJob DEF JobInv, Sole
<1> QED BY <1>1, <1>2 DEF JobInv

LEMMA AllHeld ==
  ASSUME UNCHANGED <<request, lapsed>>
  PROVE  \A j \in Job : Held(j)
BY DEF Held

-----------------------------------------------------------------------------
LEMMA StillOnward ==
  ASSUME NEW c, copies'[c] = copies[c], worker'[c] = worker[c]
  PROVE  Onward(c)
BY DEF Onward, KeepsOpen

LEMMA DroppedOnward ==
  ASSUME TypeOK, NEW gone, NEW c \in Copy, copies'[c] = Dropped(gone)[c],
         worker'[c] = worker[c], c \in gone => copies[c].status \notin Retained
  PROVE  Onward(c)
<1>1. c \notin gone => copies'[c] = copies[c]
  BY DEF Dropped
<1> QED BY <1>1, DroppedType, StillOnward DEF Onward, KeepsOpen

LEMMA CancelledOnward ==
  ASSUME TypeOK, NEW C, C \subseteq Action, copies' = Cancelled(C), worker' = worker,
         NEW c \in Copy
  PROVE  Onward(c)
<1>1. copies[c] \in CopyRec
  BY DEF TypeOK
<1>2. CASE c \in C
  <2>1. c \notin Job
    BY <1>2, CopiesAssumption
  <2>2. copies'[c].kept = copies[c].kept
    BY <1>1 DEF Cancelled, CopyRec
  <2> QED BY <2>1, <2>2 DEF Onward, KeepsOpen
<1>3. CASE c \notin C
  BY <1>3, StillOnward DEF Cancelled
<1> QED BY <1>2, <1>3

LEMMA SettingOnward ==
  ASSUME TypeOK, Setting
  PROVE  (\A c \in Copy : Onward(c)) /\ UNCHANGED <<request, lapsed>>
<1>0. \A t \in Terminal : PendingOf(t) \subseteq Action
  BY DEF PendingOf
<1>1. ASSUME NEW T \in SUBSET Terminal, Invalidate(T)
      PROVE  (\A c \in Copy : Onward(c)) /\ UNCHANGED <<request, lapsed>>
  <2>1. UNION {PendingOf(t) : t \in T} \subseteq Action
    BY <1>0
  <2> QED BY <1>1, <2>1, CancelledOnward DEF Invalidate
<1>2. CASE Disconnect
  BY <1>1, <1>2 DEF Disconnect
<1>3. ASSUME NEW t \in Terminal,
             Detach(t) \/ CloseInvalidate(t) \/ EndInvalidate(t)
      PROVE  (\A c \in Copy : Onward(c)) /\ UNCHANGED <<request, lapsed>>
  BY <1>1, <1>3 DEF Detach, CloseInvalidate, EndInvalidate
<1>4. ASSUME NEW t \in Terminal,
             \/ Mint(t) \/ TokenExpires(t) \/ TokenRenewed(t) \/ RevokeToken(t)
             \/ Start(t) \/ ClosePop(t) \/ EndPop(t)
             \/ \E opens \in BOOLEAN : Attach(t, opens)
      PROVE  (\A c \in Copy : Onward(c)) /\ UNCHANGED <<request, lapsed>>
  BY <1>4, StillOnward DEF Mint, TokenExpires, TokenRenewed, RevokeToken, SetToken,
     Start, ClosePop, EndPop, TerminalOnly, Attach
<1>5. ASSUME NEW t \in Terminal, RevokeCancel(t)
      PROVE  (\A c \in Copy : Onward(c)) /\ UNCHANGED <<request, lapsed>>
  <2>1. PICK C \in SUBSET Action : copies' = Cancelled(C)
    BY <1>5 DEF RevokeCancel
  <2> QED BY <1>5, <2>1, CancelledOnward DEF RevokeCancel
<1>6. ASSUME NEW t \in Terminal, NEW opens \in BOOLEAN, NEW resume \in BOOLEAN,
             Control(t, opens, resume)
      PROVE  (\A c \in Copy : Onward(c)) /\ UNCHANGED <<request, lapsed>>
  BY <1>0, <1>6, CancelledOnward, StillOnward DEF Control
<1> QED BY <1>2, <1>3, <1>4, <1>5, <1>6 DEF Setting

LEMMA ActionOnward ==
  ASSUME CopyInv, NEW a \in Action,
         \/ \E s, d \in Terminal, n \in 0..MaxChunks : Propose(a, s, d, n)
         \/ Approve(a) \/ Reject(a) \/ Cancel(a)
  PROVE  (\A c \in Copy : Onward(c)) /\ UNCHANGED <<request, lapsed>>
<1>0. /\ TypeOK /\ a \in Copy /\ a \notin Job
      /\ \A c \in Copy : copies[c] \in CopyRec
  BY CopiesAssumption DEF CopyInv, TypeOK, Copy
<1>1. ASSUME NEW s \in Terminal, NEW d \in Terminal, NEW n \in 0..MaxChunks,
             Propose(a, s, d, n)
      PROVE  \A c \in Copy : Onward(c)
  <2> DEFINE new == CopyOf(s, d, n, Nobody, "pending_approval", TRUE)
  <2>1. PICK gone \in Room(s) : copies' = [Dropped(gone) EXCEPT ![a] = new]
    BY <1>1 DEF Propose
  <2>2. \A c \in gone : copies[c].status \notin Retained
    BY DEF Room
  <2>3. new.kept
    BY DEF CopyOf
  <2> HIDE DEF new
  <2>4. Dropped(gone) \in [Copy -> CopyRec] /\ worker' = worker
    BY <1>0, <1>1, DroppedType DEF Propose
  <2>5. copies'[a] = new /\ \A c \in Copy \ {a} : copies'[c] = Dropped(gone)[c]
    BY <1>0, <2>1, <2>4
  <2>6. Onward(a)
    BY <1>0, <2>3, <2>5 DEF Onward, KeepsOpen
  <2> QED BY <1>0, <2>2, <2>4, <2>5, <2>6, DroppedOnward
<1>2. ASSUME NEW st \in CopyStatus, copies' = [copies EXCEPT ![a].status = st]
      PROVE  \A c \in Copy : copies'[c].kept = copies[c].kept /\ (c # a => copies'[c] = copies[c])
  BY <1>0, <1>2 DEF TypeOK, CopyRec
<1>3. CASE Approve(a)
  <2>1. \A c \in Copy \ {a} : worker'[c] = worker[c]
    BY <1>0, <1>3 DEF Approve, TypeOK
  <2> QED BY <1>0, <1>2, <1>3, <2>1 DEF Approve, Onward, KeepsOpen, CopyStatus, Retained
<1>4. CASE Reject(a)
  BY <1>0, <1>2, <1>4 DEF Reject, Onward, KeepsOpen, CopyStatus, Ended
<1>5. CASE Cancel(a)
  BY <1>0, <1>5, CancelledOnward DEF Cancel
<1> QED BY <1>1, <1>3, <1>4, <1>5 DEF Propose, Approve, Reject, Cancel

\* Where a thread goes whose step does not prepare, store or abort a job.
JobStart(c) == JobPrepare(c) \/ JobReread(c) \/ JobInsert(c) \/ JobAbort(c)

LEMMA OwnPc ==
  ASSUME CopyInv, NEW c \in Copy, Work(c), ~JobStart(c)
  PROVE  /\ worker'[c].pc \notin {"prepare", "reread", "insert", "abort"}
         /\ UNCHANGED <<request, lapsed>>
<1>0. /\ TypeOK /\ Local(c) /\ worker[c] \in WorkerRec /\ Denial(c) \in Code
  BY DenialType DEF CopyInv, TypeOK
<1>1. ASSUME NEW e \in Code, CopyFails(c, e)
      PROVE  worker'[c].pc = "fail" /\ UNCHANGED <<request, lapsed>>
  BY <1>0, <1>1, FailsWorker DEF CopyFails
<1>2. CASE ActionSlot(c) \/ ActionNotStarted(c) \/ Begin(c)
  <2>1. worker'[c].pc \in {"fail", "begin", "recheck", "done"}
    BY <1>0, <1>2, SlotWorker, FailsWorker, GotoWorker, FinishWorker
    DEF ActionSlot, Begin, Pc, Code
  <2> QED BY <1>2, <2>1 DEF ActionSlot, ActionNotStarted, Begin
<1>3. CASE TakeCopyLock(c) \/ Check(c) \/ OpenDestination(c)
  <2>1. \/ \E e \in Code : CopyFails(c, e)
        \/ \E p \in {"dest", "wait", "verify", "fetch", "check"} : Goto(c, p)
    BY <1>0, <1>3 DEF TakeCopyLock, Check, OpenDestination
  <2>2. worker'[c].pc \in {"fail", "dest", "wait", "verify", "fetch", "check"}
    BY <1>0, <1>1, <2>1, GotoWorker DEF Pc
  <2> QED BY <1>1, <1>3, <2>2 DEF TakeCopyLock, Check, OpenDestination, CopyFails, WorkerOnly
<1>4. CASE Fetch(c)
  <2>1. worker[c].left > 0
    BY <1>0, <1>4 DEF Local, Progress, Fetch
  <2> QED BY <1>0, <1>4, <2>1, FetchWorker DEF Fetch
<1>5. CASE Verify(c) \/ TransferFails(c)
  BY <1>0, <1>1, <1>5, GotoWorker DEF Verify, TransferFails, WorkerOnly, Pc, Code
<1>6. CASE BeginCommit(c)
  BY <1>0, <1>1, <1>6, GotoWorker DEF BeginCommit, Pc
<1>7. CASE Publish(c)
  BY <1>0, <1>7, GotoWorker, FailsWorker DEF Publish, Pc, Code
<1>8. CASE Confirm(c) \/ RecordFailure(c)
  BY <1>0, <1>8, FinishWorker DEF Confirm, RecordFailure
<1> QED BY <1>2, <1>3, <1>4, <1>5, <1>6, <1>7, <1>8 DEF Work, JobStart

\* Recording an error ends the copy, or leaves its record alone.
LEMMA FailRecordKeeps ==
  ASSUME TypeOK, NEW c \in Copy, NEW e
  PROVE  /\ FailRecord(c, e).kept = copies[c].kept
         /\ FailRecord(c, e).key = copies[c].key
         /\ FailRecord(c, e).status \in {copies[c].status, "failed"}
<1>1. copies[c] \in CopyRec
  BY DEF TypeOK
<1>2. CASE copies[c].status \in {"approved", "running", "committing"}
  BY <1>1, <1>2 DEF FailRecord, CopyRec
<1>3. CASE copies[c].status \notin {"approved", "running", "committing"}
  BY <1>1, <1>3 DEF FailRecord
<1> QED BY <1>2, <1>3

\* What a thread does to the record of its copy, outside the start of a job.
LEMMA OwnOnward ==
  ASSUME JobInv, NEW c \in Copy, Work(c), ~JobStart(c)
  PROVE  (\A d \in Copy : Onward(d)) /\ UNCHANGED <<request, lapsed>>
<1>0. /\ CopyInv /\ TypeOK /\ copies \in [Copy -> CopyRec] /\ copies[c] \in CopyRec
      /\ worker'[c].pc \notin {"prepare", "reread", "insert", "abort"}
      /\ UNCHANGED <<request, lapsed>>
  BY OwnPc DEF JobInv, CopyInv, TypeOK
<1>1. ASSUME NEW st \in CopyStatus, copies' = [copies EXCEPT ![c].status = st]
      PROVE  /\ copies'[c].kept = copies[c].kept /\ copies'[c].key = copies[c].key
             /\ copies'[c].status = st
             /\ \A d \in Copy \ {c} : copies'[d] = copies[d]
  BY <1>0, <1>1 DEF CopyRec
<1>2. ASSUME NEW e, copies' = [copies EXCEPT ![c] = FailRecord(c, e)]
      PROVE  Onward(c) /\ \A d \in Copy \ {c} : copies'[d] = copies[d]
  BY <1>0, <1>2, FailRecordKeeps DEF Onward, KeepsOpen, Ended
<1>3. ASSUME copies' = copies PROVE Onward(c)
  BY <1>0, <1>3 DEF Onward, KeepsOpen
<1>4. CASE Begin(c)
  <2>1. CASE copies' = [copies EXCEPT ![c].status = "running"] /\ Stored(c)
    <3>1. c \notin Job
      BY <2>1, CopiesAssumption DEF Stored, PendingOf
    <3> QED BY <1>1, <2>1, <3>1, OthersStay, StillOnward, <1>0
        DEF Onward, KeepsOpen, CopyStatus, Retained
  <2> QED BY <1>2, <1>3, <1>4, <2>1, OthersStay, StillOnward, <1>0 DEF Begin
<1>5. CASE BeginCommit(c) /\ copies' # copies
  <2>1. copies' = [copies EXCEPT ![c].status = "committing"] /\ copies[c].status = "running"
    BY <1>5 DEF BeginCommit, CopyFails
  <2> QED BY <1>0, <1>1, <2>1, OthersStay, StillOnward DEF Onward, KeepsOpen, CopyStatus, Retained, UnderWay
<1>6. CASE Confirm(c)
  <2>1. copies' = [copies EXCEPT ![c].status =
                     IF copies[c].status = "committing" THEN "completed" ELSE copies[c].status]
    BY <1>6 DEF Confirm
  <2> QED BY <1>0, <1>1, <2>1, OthersStay, StillOnward DEF Onward, KeepsOpen, CopyRec, CopyStatus, Ended
<1>7. CASE RecordFailure(c)
  BY <1>0, <1>2, <1>7, OthersStay, StillOnward DEF RecordFailure
<1>8. CASE copies' = copies /\ \A d \in Copy \ {c} : worker'[d] = worker[d]
  BY <1>0, <1>3, <1>8, StillOnward
<1> QED BY <1>0, <1>4, <1>5, <1>6, <1>7, <1>8, QuietKeeps, OthersStay
    DEF Work, JobStart, Quiet

-----------------------------------------------------------------------------
(* The start of a job.                                                     *)

\* A trim leaves a reservation in place, or it has lapsed, and forgets no job
\* that is under way.
LEMMA TrimHolds ==
  ASSUME NEW gone, NEW old, Trim(gone, old), NEW j \in Job, NEW k \in Key, k \notin old
  PROVE  /\ request[k] = "reserved" => TrimmedRequests(gone, old)[k] = "reserved"
         /\ UnderWay(j) /\ copies[j].kept /\ request[k] = j
              => TrimmedRequests(gone, old)[k] = j
BY DEF Trim, TrimmedRequests, Store, EndedJobs, UnderWay, Ended

LEMMA PreparingKey ==
  ASSUME CopyInv, NEW j \in Job, Preparing(j)
  PROVE  copies[j].key \in Key
BY DEF CopyInv, Local, Progress, Preparing, Copy

LEMMA TrimOnward ==
  ASSUME TypeOK, NEW gone, NEW old, Trim(gone, old), NEW c \in Copy,
         copies'[c] = Dropped(gone)[c], worker'[c] = worker[c]
  PROVE  Onward(c)
<1>1. c \in gone => copies[c].status \notin Retained
  BY DEF Trim, EndedJobs, Ended, Retained
<1> QED BY <1>1, DroppedOnward

LEMMA JobRequestJobs ==
  ASSUME JobInv, CopyInv', NEW j \in Job, NEW k \in Key, NEW s \in Terminal,
         NEW d \in Terminal, NEW n \in 0..MaxChunks, JobRequest(j, k, s, d, n)
  PROVE  JobInv' /\ \A c \in Copy : KeepsOpen(c)
<1>0. /\ CopyInv /\ TypeOK /\ j \in Copy /\ copies[j].status = "unused"
      /\ Job \subseteq Copy /\ \A i \in Job : JobRecord(i)
  BY DEF JobInv, CopyInv, Local, Progress, JobRequest, Copy
<1>1. PICK gone \in SUBSET Job, old \in SUBSET Key :
        /\ Trim(gone, old) /\ lapsed' = lapsed \cup old
        /\ LET left == TrimmedRequests(gone, old) IN
           \/ /\ Duplicate(left, k)
              /\ request' = left /\ copies' = Dropped(gone) /\ Goto(j, "done")
           \/ /\ ~Duplicate(left, k)
              /\ request' = [left EXCEPT ![k] = "reserved"]
              /\ copies' = [Dropped(gone) EXCEPT ![j] = CopyOf(s, d, n, k, "unused", FALSE)]
              /\ Goto(j, "prepare")
  BY DEF JobRequest
<1> DEFINE left == TrimmedRequests(gone, old)
           new  == CopyOf(s, d, n, k, "unused", FALSE)
<1>2. /\ left \in [Key -> {"none", "reserved"} \cup Job]
      /\ Dropped(gone) \in [Copy -> CopyRec]
      /\ {"done", "prepare"} \subseteq Pc
  BY <1>0, RequestsType, DroppedType DEF Pc
<1>3. ASSUME NEW i \in Job, copies[i].key \in Key, copies[i].key \notin lapsed'
      PROVE  /\ Preparing(i) => left[copies[i].key] = "reserved"
             /\ UnderWay(i) => left[copies[i].key] = i
  BY <1>0, <1>1, <1>3, TrimHolds DEF JobInv, JobRecord, Reservation
<1>4. \A i \in Job : Preparing(i) \/ UnderWay(i) => copies[i].key \in Key
  BY <1>0, PreparingKey DEF JobRecord
<1>5. \A i \in Job : UnderWay(i) => copies[i].kept
  BY <1>0 DEF JobRecord
<1>6. CASE request' = left /\ copies' = Dropped(gone) /\ Goto(j, "done")
  <2>1. \A c \in Copy \ {j} : Onward(c)
    BY <1>0, <1>1, <1>2, <1>6, TrimOnward, GotoWorker
  <2>2. Onward(j)
    BY <1>0, <1>2, <1>6, GotoWorker, DroppedType DEF Onward, KeepsOpen, Retained
  <2>3. \A i \in Job : UnderWay(i)' => UnderWay(i)
    BY <1>0, <2>1, <2>2, OnwardJob
  <2>4. \A i \in Job : Held(i)
    BY <1>3, <1>4, <1>6, <2>3 DEF Held
  <2> HIDE DEF left
  <2>5. \A c \in Copy : Onward(c)
    BY <2>1, <2>2
  <2> QED BY <1>0, <1>1, <2>4, <2>5, JobsOnward DEF Onward
<1>7. CASE /\ ~Duplicate(left, k) /\ request' = [left EXCEPT ![k] = "reserved"]
           /\ copies' = [Dropped(gone) EXCEPT ![j] = new] /\ Goto(j, "prepare")
  <2>1. new.status = "unused" /\ new.key = k
    BY DEF CopyOf
  <2> HIDE DEF new
  <2>2. copies'[j] = new /\ \A c \in Copy \ {j} : copies'[c] = Dropped(gone)[c]
    BY <1>0, <1>2, <1>7
  <2>3. worker'[j].pc = "prepare" /\ \A c \in Copy \ {j} : worker'[c] = worker[c]
    BY <1>0, <1>2, <1>7, GotoWorker
  <2>4. \A c \in Copy \ {j} : Onward(c)
    BY <1>0, <1>1, <2>2, <2>3, TrimOnward
  <2>5. left[k] = "none"
    BY <1>7 DEF Duplicate
  <2> HIDE DEF left
  <2>6. request'[k] = "reserved" /\ \A q \in Key \ {k} : request'[q] = left[q]
    BY <1>2, <1>7
  <2>7. ASSUME NEW i \in Job \ {j}
        PROVE  Held(i) /\ Sole(i, j)' /\ Sole(j, i)'
    <3>1. /\ Preparing(i)' => Preparing(i)
          /\ UnderWay(i)' => UnderWay(i)
          /\ copies'[i].key = copies[i].key
      BY <1>0, <2>4, OnwardJob
    <3>2. Held(i)
      BY <1>3, <1>4, <2>6, <3>1, <2>5, CopiesAssumption DEF Held
    <3>3. copies[i].key = k /\ Preparing(i) => k \in lapsed'
      BY <1>3, <2>5
    <3>4. copies'[j].key = k
      BY <2>1, <2>2
    <3> QED BY <3>1, <3>2, <3>3, <3>4 DEF Sole
  <2>8. JobRecord(j)' /\ Reservation(j)'
    BY <2>1, <2>2, <2>3, <2>6 DEF JobRecord, Reservation, UnderWay
  <2>9. Sole(j, j)'
    BY DEF Sole
  <2>10. \A c \in Copy : KeepsOpen(c)
    BY <1>0, <2>4 DEF Onward, KeepsOpen, Retained
  <2> QED BY <1>0, <1>1, <2>4, <2>7, <2>8, <2>9, <2>10, JobsButOne
<1> HIDE DEF left, new
<1> QED BY <1>1, <1>6, <1>7 DEF left, new

LEMMA JobDiscardJobs ==
  ASSUME JobInv, CopyInv', NEW j \in Job, worker[j].pc \in {"prepare", "reread"},
         JobDiscard(j)
  PROVE  JobInv' /\ \A c \in Copy : KeepsOpen(c)
<1>0. /\ CopyInv /\ TypeOK /\ j \in Copy /\ copies[j].status = "unused"
      /\ Job \subseteq Copy /\ "done" \in Pc /\ Preparing(j) /\ copies[j].key \in Key
      /\ \A i \in Job : JobRecord(i) /\ Reservation(i) /\ Sole(i, j)
  BY PreparingKey DEF JobInv, CopyInv, Local, Progress, Copy, Pc, Preparing
<1>1. /\ request' = [request EXCEPT ![copies[j].key] = "none"] /\ lapsed' = lapsed
      /\ copies' = [copies EXCEPT ![j] = NoCopy] /\ Goto(j, "done")
  BY DEF JobDiscard
<1>2. copies'[j] = NoCopy /\ \A c \in Copy \ {j} : copies'[c] = copies[c]
  BY <1>0, <1>1 DEF TypeOK
<1>3. worker'[j].pc = "done" /\ \A c \in Copy \ {j} : worker'[c] = worker[c]
  BY <1>0, <1>1, GotoWorker
<1>4. \A c \in Copy \ {j} : Onward(c)
  BY <1>2, <1>3, StillOnward
<1>5. ASSUME NEW i \in Job \ {j}
      PROVE  Held(i) /\ Sole(i, j)' /\ Sole(j, i)'
  <2>1. copies[i].key = copies[j].key /\ copies[i].key \notin lapsed =>
          ~Preparing(i) /\ ~UnderWay(i)
    BY <1>0, CopiesAssumption DEF Sole, Reservation
  <2>2. UnderWay(i)' => UnderWay(i)
    BY <1>0, <1>4, OnwardJob
  <2>3. Held(i)
    BY <1>0, <1>1, <2>1, <2>2 DEF Held, TypeOK
  <2>4. ~Preparing(j)'
    BY <1>3 DEF Preparing
  <2> QED BY <2>3, <2>4 DEF Sole
<1>6. JobRecord(j)' /\ Reservation(j)' /\ Sole(j, j)'
  BY <1>2, <1>3 DEF JobRecord, Reservation, Preparing, UnderWay, Sole, NoCopy
<1>7. KeepsOpen(j)
  BY <1>0 DEF KeepsOpen, Retained
<1> QED BY <1>0, <1>1, <1>4, <1>5, <1>6, <1>7, JobsButOne DEF Onward

LEMMA JobInsertJobs ==
  ASSUME JobInv, CopyInv', NEW j \in Job, JobInsert(j)
  PROVE  JobInv' /\ \A c \in Copy : KeepsOpen(c)
<1>0. /\ CopyInv /\ TypeOK /\ j \in Copy /\ copies[j].status = "unused"
      /\ Job \subseteq Copy /\ Preparing(j) /\ copies[j].key \in Key
      /\ {"abort", "wait"} \subseteq Pc
      /\ \A i \in Job : JobRecord(i) /\ Sole(i, j) /\ Sole(j, i)
  BY PreparingKey DEF JobInv, CopyInv, Local, Progress, JobInsert, Copy, Pc, Preparing
<1>1. PICK gone \in SUBSET Job, old \in SUBSET Key :
        LET left == TrimmedRequests(gone, old)
            full == Cardinality(Store \ gone) >= MaxJobs
            k    == copies[j].key
        IN
        /\ Trim(gone, old) /\ lapsed' = lapsed \cup old
        /\ copies' = IF full THEN Dropped(gone)
                     ELSE [Dropped(gone) EXCEPT ![j].status = "running", ![j].kept = TRUE]
        /\ request' = IF full \/ left[k] = "none" THEN left ELSE [left EXCEPT ![k] = j]
        /\ \/ Goto(j, "abort")
           \/ ~full /\ left[k] # "none" /\ Goto(j, "wait")
  BY DEF JobInsert
<1> DEFINE full == Cardinality(Store \ gone) >= MaxJobs
           left == TrimmedRequests(gone, old)
           k == copies[j].key
           r == Dropped(gone)[j]
           q == [r EXCEPT !.status = "running"]
           new == [q EXCEPT !.kept = TRUE]
<1>2. /\ left \in [Key -> {"none", "reserved"} \cup Job]
      /\ Dropped(gone) \in [Copy -> CopyRec]
      /\ r \in CopyRec /\ r.key = k /\ r.status = "unused"
  BY <1>0, RequestsType, DroppedType
<1>3. ASSUME NEW i \in Job, copies[i].key \in Key, copies[i].key \notin lapsed'
      PROVE  /\ Preparing(i) => left[copies[i].key] = "reserved"
             /\ UnderWay(i) => left[copies[i].key] = i
  BY <1>0, <1>1, <1>3, TrimHolds DEF JobInv, JobRecord, Reservation
<1>4. copies' = IF full THEN Dropped(gone) ELSE [Dropped(gone) EXCEPT ![j] = new]
  BY <1>1, <1>2
<1>5. request' = IF full \/ left[k] = "none" THEN left ELSE [left EXCEPT ![k] = j]
  BY <1>1
<1> HIDE DEF r, full, left
<1>6. q \in CopyRec /\ q.key = r.key /\ q.status = "running"
  BY <1>2 DEF CopyRec, CopyStatus, Retained
<1> HIDE DEF q
<1>7. new.key = k /\ new.status = "running" /\ new.kept
  BY <1>2, <1>6 DEF CopyRec
<1> HIDE DEF new
<1>8. /\ full => copies'[j].status = "unused" /\ copies'[j].key = k
      /\ ~full => copies'[j].status = "running" /\ copies'[j].key = k /\ copies'[j].kept
      /\ \A c \in Copy \ {j} : copies'[c] = Dropped(gone)[c]
  BY <1>0, <1>2, <1>4, <1>7 DEF r
<1>9. /\ worker'[j].pc = "abort" \/ (worker'[j].pc = "wait" /\ ~full)
      /\ \A c \in Copy \ {j} : worker'[c] = worker[c]
  BY <1>0, <1>1, GotoWorker DEF full
<1>10. \A c \in Copy \ {j} : Onward(c)
  BY <1>0, <1>1, <1>8, <1>9, TrimOnward
<1>11. ASSUME k \notin lapsed'
       PROVE  /\ left[k] = "reserved"
              /\ full => request'[k] = "reserved"
              /\ ~full => request'[k] = j
  BY <1>0, <1>2, <1>3, <1>5, <1>11
<1>12. JobRecord(j)' /\ Reservation(j)' /\ Sole(j, j)'
  BY <1>0, <1>8, <1>9, <1>11
  DEF JobRecord, Reservation, Preparing, UnderWay, Sole
<1>13. ASSUME NEW i \in Job \ {j}
       PROVE  Held(i) /\ Sole(i, j)' /\ Sole(j, i)'
  <2>1. /\ Preparing(i)' => Preparing(i)
        /\ UnderWay(i)' => UnderWay(i)
        /\ copies'[i].key = copies[i].key
    BY <1>0, <1>10, OnwardJob
  <2>2. Preparing(i) \/ UnderWay(i) => copies[i].key \in Key
    BY <1>0, PreparingKey DEF JobRecord
  <2>3. lapsed \subseteq lapsed' /\ copies'[j].key = k
    BY <1>1, <1>8
  <2>4. Sole(i, j)' /\ Sole(j, i)'
    BY <1>0, <2>1, <2>3 DEF Sole
  <2>5. copies[i].key = k /\ k \notin lapsed' => ~Preparing(i) /\ ~UnderWay(i)
    BY <1>0, <1>3, <1>11, <2>3, CopiesAssumption DEF Sole
  <2>6. Held(i)
    BY <1>0, <1>2, <1>3, <1>5, <2>1, <2>2, <2>5 DEF Held
  <2> QED BY <2>4, <2>6
<1>14. KeepsOpen(j)
  BY <1>0 DEF KeepsOpen, Retained
<1>15. lapsed \subseteq lapsed'
  BY <1>1
<1> QED BY <1>0, <1>10, <1>12, <1>13, <1>14, <1>15, JobsButOne DEF Onward

LEMMA JobAbortJobs ==
  ASSUME JobInv, CopyInv', NEW j \in Job, JobAbort(j)
  PROVE  JobInv' /\ \A c \in Copy : KeepsOpen(c)
<1> DEFINE k    == copies[j].key
           ours == copies[j].kept /\ copies[j].status = "running"
           w    == [copies[j] EXCEPT !.kept = FALSE]
           new  == IF ours THEN FailRecord(j, "busy") ELSE w
<1>0. /\ CopyInv /\ TypeOK /\ j \in Copy /\ Job \subseteq Copy /\ k \in Key
      /\ worker[j].pc = "abort" /\ copies[j] \in CopyRec
      /\ copies[j].status \in {"unused", "running", "cancelled"}
      /\ copies[j].status = "running" => copies[j].kept
      /\ \A i \in Job : JobRecord(i) /\ Reservation(i) /\ Sole(i, j)
  BY DEF JobInv, JobRecord, CopyInv, TypeOK, Local, Progress, JobAbort, Copy, UnderWay
<1>1. /\ copies' = [copies EXCEPT ![j] = new] /\ Finish(j)
      /\ request' = IF ours THEN request ELSE [request EXCEPT ![k] = "none"]
      /\ lapsed' = IF copies[j].status = "cancelled" /\ request[k] # j
                   THEN lapsed \cup {k} ELSE lapsed
  BY <1>0 DEF JobAbort, TypeOK
<1>2. /\ new.key = k
      /\ ours => new.status \in {"running", "failed"}
      /\ ours => new.status = "failed"
      /\ ~ours => new.status = copies[j].status
  <2>1. w.key = k /\ w.status = copies[j].status
    BY <1>0 DEF CopyRec
  <2>2. ours => FailRecord(j, "busy").status = "failed"
    BY <1>0 DEF FailRecord, CopyRec
  <2> QED BY <1>0, <2>1, <2>2, FailRecordKeeps
<1> HIDE DEF new
<1>3. copies'[j] = new /\ \A c \in Copy \ {j} : copies'[c] = copies[c]
  BY <1>0, <1>1 DEF TypeOK
<1>4. worker'[j].pc = "done" /\ \A c \in Copy \ {j} : worker'[c] = worker[c]
  BY <1>0, <1>1, FinishWorker
<1>5. \A c \in Copy \ {j} : Onward(c)
  BY <1>3, <1>4, StillOnward
<1>6. ~Preparing(j)' /\ ~UnderWay(j)'
  BY <1>0, <1>2, <1>3, <1>4 DEF Preparing, UnderWay
<1>7. JobRecord(j)' /\ Reservation(j)' /\ Sole(j, j)'
  BY <1>0, <1>2, <1>3, <1>4, <1>6 DEF JobRecord, Reservation, Sole
<1>8. ASSUME NEW i \in Job \ {j}
      PROVE  Held(i) /\ Sole(i, j)' /\ Sole(j, i)'
  <2>1. UnderWay(i)' => UnderWay(i)
    BY <1>0, <1>5, OnwardJob
  <2>2. ASSUME ~ours, copies[i].key = k, k \notin lapsed'
        PROVE  ~Preparing(i) /\ ~UnderWay(i)
    <3>1. CASE copies[j].status = "unused"
      <4>1. Preparing(j) /\ k \notin lapsed
        BY <1>0, <1>1, <2>2, <3>1 DEF Preparing
      <4> QED BY <1>0, <2>2, <4>1, CopiesAssumption DEF Sole, Reservation
    <3>2. CASE copies[j].status = "cancelled"
      <4>1. request[k] = j /\ k \notin lapsed
        BY <1>1, <2>2, <3>2
      <4> QED BY <1>0, <2>2, <4>1, CopiesAssumption DEF Reservation
    <3> QED BY <1>0, <2>2, <3>1, <3>2
  <2>3. Held(i)
    BY <1>0, <1>1, <2>1, <2>2 DEF Held, TypeOK
  <2> QED BY <1>6, <2>3 DEF Sole
<1>9. KeepsOpen(j)
  <2>1. ours => copies'[j].kept
    BY <1>0, <1>3, FailRecordKeeps DEF new
  <2> QED BY <1>0, <2>1 DEF KeepsOpen, Retained
<1>10. lapsed \subseteq lapsed'
  BY <1>1
<1> QED BY <1>0, <1>5, <1>7, <1>8, <1>9, <1>10, JobsButOne DEF Onward

LEMMA JobCancelJobs ==
  ASSUME JobInv, CopyInv', NEW j \in Job, JobCancel(j)
  PROVE  JobInv' /\ \A c \in Copy : KeepsOpen(c)
<1>0. /\ CopyInv /\ TypeOK /\ j \in Copy /\ Job \subseteq Copy
      /\ \A i \in Job : JobRecord(i) /\ Reservation(i)
  BY DEF JobInv, CopyInv, Copy
<1>1. PICK gone \in SUBSET Job, old \in SUBSET Key :
        /\ Trim(gone, old) /\ lapsed' = lapsed \cup old /\ worker' = worker
        /\ j \in Store \ gone /\ request' = TrimmedRequests(gone, old)
        /\ copies' = [Dropped(gone) EXCEPT ![j].status = "cancelled", ![j].code = "stopped"]
  BY DEF JobCancel
<1> DEFINE r   == copies[j]
           new == [r EXCEPT !.status = "cancelled", !.code = "stopped"]
<1>2. Dropped(gone) \in [Copy -> CopyRec] /\ Dropped(gone)[j] = r /\ r \in CopyRec
  BY <1>0, <1>1, DroppedType DEF Dropped, TypeOK
<1>3. copies' = [Dropped(gone) EXCEPT ![j] = new]
  BY <1>0, <1>1, <1>2
<1>4. new.status = "cancelled" /\ new.key = r.key /\ new.kept = r.kept
  BY <1>2 DEF CopyRec
<1> HIDE DEF new
<1>5. copies'[j] = new /\ \A c \in Copy \ {j} : copies'[c] = Dropped(gone)[c]
  BY <1>0, <1>2, <1>3
<1>6. \A c \in Copy : Onward(c)
  BY <1>0, <1>1, <1>4, <1>5, TrimOnward DEF Onward, KeepsOpen, Ended
<1>7. ASSUME NEW i \in Job PROVE Held(i)
  <2>1. UnderWay(i)' => UnderWay(i)
    BY <1>0, <1>6, OnwardJob
  <2>2. Preparing(i) \/ UnderWay(i) => copies[i].key \in Key
    BY <1>0, PreparingKey DEF JobRecord
  <2> QED BY <1>0, <1>1, <2>1, <2>2, TrimHolds DEF Held, JobRecord
<1> QED BY <1>0, <1>1, <1>6, <1>7, JobsOnward DEF Onward

-----------------------------------------------------------------------------
LEMMA JobInit == Init => JobInv
<1> SUFFICES ASSUME Init PROVE JobInv
  OBVIOUS
<1>1. \A j \in Job : JobRecord(j) /\ ~Preparing(j) /\ ~UnderWay(j)
  BY DEF Init, JobRecord, Preparing, UnderWay, NoCopy, NoWorker, Copy
<1> QED BY <1>1, InitInv DEF JobInv, Reservation, Sole

LEMMA JobStep ==
  ASSUME JobInv, [Next]_vars
  PROVE  JobInv' /\ \A c \in Copy : KeepsOpen(c)
<1>0. CopyInv /\ TypeOK /\ CopyInv' /\ Job \subseteq Copy
  BY SettingStep, RequestedStep, WorkStep, TransferStep, StutterStep
  DEF Next, JobInv, CopyInv, Copy
<1>1. ASSUME \A c \in Copy : Onward(c), UNCHANGED <<request, lapsed>>
      PROVE  JobInv' /\ \A c \in Copy : KeepsOpen(c)
  BY <1>0, <1>1, AllHeld, JobsOnward DEF Onward
<1>2. CASE Setting
  BY <1>0, <1>1, <1>2, SettingOnward
<1>3. CASE Requested
  <2>1. ASSUME NEW a \in Action,
               \/ \E s, d \in Terminal, n \in 0..MaxChunks : Propose(a, s, d, n)
               \/ Approve(a) \/ Reject(a) \/ Cancel(a)
        PROVE  JobInv' /\ \A c \in Copy : KeepsOpen(c)
    BY <1>0, <1>1, <2>1, ActionOnward
  <2>2. ASSUME NEW g \in Bridge, TransferStarts(g)
        PROVE  JobInv' /\ \A c \in Copy : KeepsOpen(c)
    BY <1>1, <2>2, StillOnward DEF TransferStarts
  <2> QED BY <1>0, <1>3, <2>1, <2>2, JobRequestJobs, JobCancelJobs DEF Requested
<1>4. ASSUME NEW c \in Copy, Work(c)
      PROVE  JobInv' /\ \A d \in Copy : KeepsOpen(d)
  <2>1. CASE ~JobStart(c)
    BY <1>1, <1>4, <2>1, OwnOnward
  <2>2. CASE JobStart(c)
    <3>1. c \in Job
      BY <1>0, <2>2 DEF JobStart, JobPrepare, JobReread, JobInsert, JobAbort,
         CopyInv, Local, Progress
    <3>2. CASE (JobPrepare(c) \/ JobReread(c)) /\ JobDiscard(c)
      BY <1>0, <3>1, <3>2, JobDiscardJobs DEF JobPrepare, JobReread
    <3>3. CASE (JobPrepare(c) \/ JobReread(c)) /\ ~JobDiscard(c)
      <4>1. copies' = copies /\ UNCHANGED <<request, lapsed>>
        BY <3>3 DEF JobPrepare, JobReread, WorkerOnly
      <4>2. \/ worker[c].pc = "prepare" /\ worker'[c].pc = "reread"
            \/ worker[c].pc = "reread" /\ worker'[c].pc = "insert"
        <5>1. {"reread", "insert"} \subseteq Pc
          BY DEF Pc
        <5> QED BY <1>0, <3>3, <5>1, GotoWorker, SlotWorker DEF JobPrepare, JobReread
      <4>3. \A d \in Copy : Onward(d)
        BY <1>0, <1>4, <4>1, <4>2, OthersStay, StillOnward DEF Onward, KeepsOpen
      <4> QED BY <1>1, <4>1, <4>3
    <3> QED BY <1>0, <2>2, <3>1, <3>2, <3>3, JobInsertJobs, JobAbortJobs DEF JobStart
  <2> QED BY <2>1, <2>2
<1>5. ASSUME (\E g \in Bridge : TransferEnds(g)) \/ UNCHANGED vars
      PROVE  JobInv' /\ \A c \in Copy : KeepsOpen(c)
  BY <1>1, <1>5, StillOnward DEF TransferEnds, vars
<1> QED BY <1>2, <1>3, <1>4, <1>5 DEF Next

THEOREM JobInvariant == Spec => []JobInv
BY JobInit, JobStep, PTL DEF Spec

\* Two jobs of one request are never under way together, however often the
\* browser repeats the request and whatever start fails, unless the reservation
\* lapsed while the first was prepared (OneJobPerRequest).
THEOREM OneJobForARequest == Spec => []OneJobPerRequest
<1>1. JobInv => OneJobPerRequest
  <2> SUFFICES ASSUME JobInv, NEW i \in Job, NEW j \in Job, i # j,
                      copies[i].key = copies[j].key, Unfinished(i), Unfinished(j),
                      copies[i].key \notin lapsed
               PROVE  FALSE
    BY DEF OneJobPerRequest
  <2>1. /\ Preparing(i) \/ UnderWay(i)
        /\ Preparing(j) \/ UnderWay(j)
    BY DEF Unfinished, Preparing, UnderWay
  <2> QED BY <2>1, CopiesAssumption DEF JobInv, Reservation, Sole
<1> QED BY <1>1, JobInvariant, PTL

\* A copy that is under way stays in its table: a proposal that needs room, a
\* trim of the jobs and a failed start only drop what has ended (OpenCopyKept).
THEOREM OpenCopiesAreKept == Spec => OpenCopyKept
<1>1. JobInv /\ [Next]_vars
        => [\A c \in Copy : copies[c].kept /\ copies[c].status \in Retained
                               => copies'[c].kept]_vars
  BY JobStep DEF KeepsOpen
<1> QED BY <1>1, JobInvariant, PTL DEF Spec, OpenCopyKept

=============================================================================
