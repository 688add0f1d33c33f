------------------------------ MODULE FileCopy ------------------------------
(***************************************************************************)
(* File copies between two terminals of one browser viewer (app.py, with   *)
(* the transfer locks and the publish step of terminal_backends/ssh.py and *)
(* local_shell.py).                                                        *)
(*                                                                         *)
(* A copy is either an action proposed by an external agent, which the     *)
(* viewer approves, or a job the viewer starts in the Files window.  Both  *)
(* kinds share the worker slots, the copy lock and the copying procedure;  *)
(* they differ in what is checked again during the copy.  The destination  *)
(* becomes visible in one publish (a rename or link), which follows the    *)
(* commit barrier: the one section that moves a copy from running to       *)
(* committing.                                                             *)
(*                                                                         *)
(* Mode, pause and privacy of an agent state are reduced to whether they   *)
(* allow file copies (open) and to one version standing for control_epoch, *)
(* mode_version and privacy_version, which are compared together.          *)
(*                                                                         *)
(* An operator Faulty_X is X with a plausible fault, kept to show that a   *)
(* property notices it; the specification does not refer to it.            *)
(***************************************************************************)
EXTENDS Naturals, FiniteSets

CONSTANTS
  Action,       \* copies proposed by external agents
  Job,          \* requests for a copy from the Files window, retries included
  Key,          \* request ids chosen by the browser
  Terminal,     \* terminals of the viewer
  Nobody,       \* no copy: the holder of a free lock
  Slots,        \* AGENT_FILE_COPY_MAX_BACKGROUND_WORKERS
  MaxRecords,   \* AGENT_ACTION_MAX_RECORDS, per agent state
  MaxJobs,      \* FILES_COPY_JOB_MAX_RECORDS
  MaxChunks,    \* bound: chunks of a file
  MaxVersion,   \* bound: versions of an agent state
  MaxBinding,   \* bound: agent states ever created for a terminal
  MaxBridge,    \* bound: bridges ever created for a terminal
  MaxTransfers  \* bound: other transfers of the Files window

ASSUME CopiesAssumption ==
  /\ Action \cap Job = {} /\ IsFiniteSet(Action) /\ IsFiniteSet(Job)
  /\ Nobody \notin Action \cup Job \cup {"transfer"}
  /\ "transfer" \notin Action \cup Job
  /\ Nobody \notin Key /\ Job \cap {"none", "reserved"} = {}
ASSUME LimitsAssumption ==
  /\ Slots \in Nat /\ MaxRecords \in Nat \ {0} /\ MaxJobs \in Nat \ {0}
  /\ MaxChunks \in Nat /\ MaxVersion \in Nat /\ MaxBinding \in Nat
  /\ MaxBridge \in Nat \ {0} /\ MaxTransfers \in Nat

VARIABLES
  consent,    \* agent_states of the viewer, one per terminal
  bindings,   \* agent states created so far for each terminal
  token,      \* status of the attach token bound to each state
  online,     \* the viewer's sid is in socket_session_tokens
  bridge,     \* bridge of each terminal: its number, 0 if none
  created,    \* bridges created so far for each terminal
  ending,     \* how far the end of each terminal has got
  copies,     \* action and job records
  worker,     \* the thread that serves each copy
  request,    \* files_copy_requests: "none", "reserved" or the job
  lapsed,     \* keys that lost a reservation in use (history)
  slots,      \* free agent_file_copy_worker_slots
  copyLock,   \* holder of agent_file_copy_lock
  busy,       \* holder of the transfer lock of each bridge
  transfers,  \* other transfers started so far
  published   \* copies whose destination file was put in place

consentVars  == <<consent, bindings, token>>
terminalVars == <<online, bridge, created, ending>>
lockVars     == <<copyLock, busy, transfers>>
vars == <<consent, bindings, token, online, bridge, created, ending, copies,
          worker, request, lapsed, slots, copyLock, busy, transfers, published>>

-----------------------------------------------------------------------------
(* States and records.                                                     *)

Copy   == Action \cup Job
Bridge == Terminal \X (1..MaxBridge)

\* AGENT_STATUS_RETAINED and FILES_COPY_TRANSITIONS
Retained   == {"pending_approval", "approved", "running", "committing"}
Stoppable  == {"pending_approval", "approved", "running"}
Ended      == {"completed", "failed", "rejected", "cancelled"}
CopyStatus == Retained \cup Ended \cup {"unused"}

\* Why a copy ended: a human or lifecycle gate stopped it, a check of its
\* authority failed, the token of an endpoint had expired, no worker could be
\* had, the transfer failed, or the publish could not be reconciled.
Code == {"none", "stopped", "denied", "expired", "busy", "io", "unknown"}

\* What a terminal had when the copy was proposed.
EndRec  == [bridge : 0..MaxBridge, binding : Nat, version : Nat]
CopyRec == [status : CopyStatus, code : Code, kept : BOOLEAN, size : Nat,
            src : Terminal \cup {Nobody}, dst : Terminal \cup {Nobody},
            from : EndRec, into : EndRec, key : Key \cup {Nobody}]

\* The program points of write-side threads, in the order of the code.
Pc == {"none", "prepare", "reread", "insert", "abort", "slot", "begin",
       "recheck", "wait", "dest", "check", "fetch", "verify", "barrier",
       "publish", "confirm", "fail", "done"}
WorkerRec  == [pc : Pc, left : Nat, err : Code, slot : BOOLEAN]
ConsentRec == [binding : Nat, version : Nat, open : BOOLEAN]

NoEnd     == [bridge |-> 0, binding |-> 0, version |-> 0]
NoCopy    == [status |-> "unused", code |-> "none", kept |-> FALSE, size |-> 0,
              src |-> Nobody, dst |-> Nobody, from |-> NoEnd, into |-> NoEnd,
              key |-> Nobody]
NoWorker  == [pc |-> "none", left |-> 0, err |-> "none", slot |-> FALSE]
NoConsent == [binding |-> 0, version |-> 0, open |-> FALSE]

End(t) == [bridge |-> bridge[t], binding |-> consent[t].binding,
           version |-> consent[t].version]
\* The record of a copy of n chunks from s to d as the terminals are now.
CopyOf(s, d, n, k, status, kept) ==
  [status |-> status, code |-> "none", kept |-> kept, size |-> n,
   src |-> s, dst |-> d, from |-> End(s), into |-> End(d), key |-> k]

Init ==
  /\ consent   = [t \in Terminal |-> NoConsent]
  /\ bindings  = [t \in Terminal |-> 0]
  /\ token     = [t \in Terminal |-> "none"]
  /\ online    = TRUE
  /\ bridge    = [t \in Terminal |-> 0]
  /\ created   = [t \in Terminal |-> 0]
  /\ ending    = [t \in Terminal |-> "no"]
  /\ copies    = [c \in Copy |-> NoCopy]
  /\ worker    = [c \in Copy |-> NoWorker]
  /\ request   = [k \in Key |-> "none"]
  /\ lapsed    = {}
  /\ slots     = Slots
  /\ copyLock  = Nobody
  /\ busy      = [g \in Bridge |-> Nobody]
  /\ transfers = 0
  /\ published = {}

-----------------------------------------------------------------------------
(* Transitions.                                                            *)

\* A cancel that also takes hold of a copy behind the commit barrier.
Faulty_Cancelled(C) ==
  [c \in Copy |-> IF c \in C /\ copies[c].status \in Retained
                  THEN [copies[c] EXCEPT !.status = "failed", !.code = "stopped"]
                  ELSE copies[c]]

\* The cancel event of AGENT_FILE_COPY_TRANSITIONS, for the actions in C.
Cancelled(C) ==
  [c \in Copy |-> IF c \in C /\ copies[c].status \in Stoppable
                  THEN [copies[c] EXCEPT !.status = "failed", !.code = "stopped"]
                  ELSE copies[c]]

\* The actions in pending_actions of the state of terminal t.
PendingOf(t) ==
  {a \in Action : /\ copies[a].kept /\ copies[a].src = t
                  /\ consent[t].binding # 0
                  /\ copies[a].from.binding = consent[t].binding}
Stored(a) == copies[a].kept /\ a \in PendingOf(copies[a].src)

\* Jobs in files_copy_jobs, and those of them that have ended.
Store     == {j \in Job : copies[j].kept}
\* ... or all of them, whatever their status.
Faulty_EndedJobs == Store
EndedJobs == {j \in Store : copies[j].status \in Ended}

TokenLive(t, b) == consent[t].binding = b /\ token[t] = "live"

\* The state of t is the one that was proposed with and still allows copies.
ConsentHolds(t, e) ==
  /\ consent[t].binding = e.binding /\ e.binding # 0
  /\ consent[t].version = e.version /\ consent[t].open

\* validate_agent_file_copy_execution
AgentAllowed(a) ==
  LET r == copies[a] IN
  /\ r.status \in {"approved", "running"}
  /\ TokenLive(r.src, r.from.binding) /\ TokenLive(r.dst, r.into.binding)
  /\ ConsentHolds(r.src, r.from) /\ ConsentHolds(r.dst, r.into)
  /\ bridge[r.src] = r.from.bridge /\ bridge[r.dst] = r.into.bridge

\* validate_files_copy_job
JobAllowed(j) ==
  LET r == copies[j] IN
  /\ r.status = "running" /\ online
  /\ bridge[r.src] = r.from.bridge /\ bridge[r.dst] = r.into.bridge

CopyAllowed(c) == IF c \in Action THEN AgentAllowed(c) ELSE JobAllowed(c)

\* The error of a failed check: tokens are looked at before consent.
Expired(t, b) == consent[t].binding = b /\ token[t] = "expired"
Denial(c) ==
  LET r == copies[c] IN
  IF /\ c \in Action /\ r.status \in {"approved", "running"}
     /\ \/ Expired(r.src, r.from.binding)
        \/ TokenLive(r.src, r.from.binding) /\ Expired(r.dst, r.into.binding)
  THEN "expired" ELSE "denied"

\* fail_agent_file_copy_action and the fail event of FILES_COPY_TRANSITIONS:
\* behind the barrier only a reconciled error proves that nothing happened.
FailRecord(c, err) ==
  LET r == copies[c] IN
  IF r.status \in {"approved", "running", "committing"}
  THEN [r EXCEPT !.status = "failed", !.code = err] ELSE r

-----------------------------------------------------------------------------
(* Agent states, tokens and terminals.                                     *)

\* get_or_create_agent_state: attaching makes a fresh state in observe mode,
\* setting a mode one that may be open at once.
Attach(t, opens) ==
  /\ online /\ bridge[t] # 0
  /\ consent[t].binding = 0 /\ bindings[t] < MaxBinding
  /\ bindings' = [bindings EXCEPT ![t] = @ + 1]
  /\ consent' = [consent EXCEPT ![t] = [binding |-> bindings[t] + 1,
                                        version |-> 1, open |-> opens]]
  /\ UNCHANGED <<token, terminalVars, copies, worker, request, lapsed, slots,
                 lockVars, published>>

\* A new mode, pause, or privacy state: the open actions of t are cancelled.
\* A resume bumps the version and leaves them open.
Control(t, opens, resume) ==
  /\ online /\ consent[t].binding # 0 /\ consent[t].version < MaxVersion
  /\ consent' = [consent EXCEPT ![t].version = @ + 1, ![t].open = opens]
  /\ copies' = IF resume THEN copies ELSE Cancelled(PendingOf(t))
  /\ UNCHANGED <<bindings, token, terminalVars, worker, request, lapsed, slots,
                 lockVars, published>>

\* The states in which a token can be minted include some that allow no copy.
Mint(t) ==
  /\ online /\ consent[t].binding # 0 /\ token[t] = "none"
  /\ token' = [token EXCEPT ![t] = "live"]
  /\ UNCHANGED <<consent, bindings, terminalVars, copies, worker, request,
                 lapsed, slots, lockVars, published>>

SetToken(t, old, new) ==
  /\ token[t] \in old
  /\ token' = [token EXCEPT ![t] = new]
  /\ UNCHANGED <<consent, bindings, terminalVars, copies, worker, request,
                 lapsed, slots, lockVars, published>>

\* The idle timeout passes, and a command admitted before that renews.
TokenExpires(t) == SetToken(t, {"live"}, "expired")
TokenRenewed(t) == SetToken(t, {"expired"}, "live")
RevokeToken(t)  == SetToken(t, {"live", "expired"}, "revoked")

\* record_external_agent_revoked: the copies of either endpoint's agent.
RevokeCancel(t) ==
  /\ token[t] = "revoked"
  /\ copies' = Cancelled({a \in Action : Stored(a) /\
       \/ copies[a].src = t /\ copies[a].from.binding = consent[t].binding
       \/ copies[a].dst = t /\ copies[a].into.binding = consent[t].binding})
  /\ UNCHANGED <<consentVars, terminalVars, worker, request, lapsed, slots,
                 lockVars, published>>

\* invalidate_agent_states for the terminals in T.
Invalidate(T) ==
  /\ consent' = [t \in Terminal |-> IF t \in T THEN NoConsent ELSE consent[t]]
  /\ token' = [t \in Terminal |-> IF t \in T THEN "none" ELSE token[t]]
  /\ copies' = Cancelled(UNION {PendingOf(t) : t \in T})
  /\ UNCHANGED <<bindings, created, worker, request, lapsed, slots, lockVars,
                 published>>

Detach(t) ==
  /\ consent[t].binding # 0
  /\ Invalidate({t}) /\ UNCHANGED <<online, bridge, ending>>

\* on_disconnect: the sid goes for good, and its agent states with it.
Disconnect ==
  /\ online /\ online' = FALSE
  /\ Invalidate(Terminal) /\ UNCHANGED <<bridge, ending>>

TerminalOnly == UNCHANGED <<consentVars, online, copies, worker, request,
                            lapsed, slots, lockVars, published>>

\* close_terminal_bridge on request: invalidate, then pop.
CloseInvalidate(t) ==
  /\ bridge[t] # 0 /\ ending[t] = "no"
  /\ ending' = [ending EXCEPT ![t] = "closing"]
  /\ Invalidate({t}) /\ UNCHANGED <<online, bridge>>
ClosePop(t) ==
  /\ ending[t] = "closing"
  /\ ending' = [ending EXCEPT ![t] = "no"]
  /\ bridge' = [bridge EXCEPT ![t] = 0]
  /\ TerminalOnly /\ UNCHANGED created

\* The read loop ends, or a start replaces the bridge: pop, then invalidate.
EndPop(t) ==
  /\ bridge[t] # 0 /\ ending[t] = "no"
  /\ ending' = [ending EXCEPT ![t] = "popped"]
  /\ bridge' = [bridge EXCEPT ![t] = 0]
  /\ TerminalOnly /\ UNCHANGED created
EndInvalidate(t) ==
  /\ ending[t] = "popped"
  /\ ending' = [ending EXCEPT ![t] = "no"]
  /\ Invalidate({t}) /\ UNCHANGED <<online, bridge>>

Start(t) ==
  /\ online /\ bridge[t] = 0 /\ ending[t] = "no" /\ created[t] < MaxBridge
  /\ created' = [created EXCEPT ![t] = @ + 1]
  /\ bridge' = [bridge EXCEPT ![t] = created[t] + 1]
  /\ TerminalOnly /\ UNCHANGED ending

-----------------------------------------------------------------------------
(* Agent actions: proposal, decision, worker slot.                         *)

\* reserve_agent_action_slot: the actions to drop so that one more fits.
Room(t) ==
  IF Cardinality(PendingOf(t)) < MaxRecords THEN {{}}
  ELSE {{a} : a \in {b \in PendingOf(t) : copies[b].status \notin Retained}}

CopyOnly == UNCHANGED <<consentVars, terminalVars, published>>

\* The records once those of the copies in gone are dropped from their table.
Dropped(gone) ==
  [c \in Copy |-> IF c \in gone THEN [copies[c] EXCEPT !.kept = FALSE]
                  ELSE copies[c]]

\* The last section of process_external_agent_file_copy_command, which checks
\* again all that the sections before it had found.
Propose(a, s, d, n) ==
  /\ copies[a].status = "unused" /\ s # d
  /\ \A t \in {s, d} :
       consent[t].open /\ token[t] = "live" /\ bridge[t] # 0
  /\ \E gone \in Room(s) :
       copies' = [Dropped(gone) EXCEPT ![a] =
                    CopyOf(s, d, n, Nobody, "pending_approval", TRUE)]
  /\ CopyOnly /\ UNCHANGED <<worker, request, lapsed, slots, lockVars>>

\* on_agent_action_approve, its section under agent_lock.
Approve(a) ==
  /\ Stored(a) /\ copies[a].status = "pending_approval"
  /\ consent[copies[a].src].open
  /\ copies[a].from.version = consent[copies[a].src].version
  /\ copies' = [copies EXCEPT ![a].status = "approved"]
  /\ worker' = [worker EXCEPT ![a].pc = "slot"]
  /\ CopyOnly /\ UNCHANGED <<request, lapsed, slots, lockVars>>

Reject(a) ==
  /\ Stored(a) /\ copies[a].status = "pending_approval"
  /\ copies' = [copies EXCEPT ![a].status = "rejected"]
  /\ CopyOnly /\ UNCHANGED <<worker, request, lapsed, slots, lockVars>>

\* on_agent_action_cancel
Cancel(a) ==
  /\ Stored(a) /\ copies[a].status \in {"approved", "running"}
  /\ copies' = Cancelled({a})
  /\ CopyOnly /\ UNCHANGED <<worker, request, lapsed, slots, lockVars>>

Goto(c, pc) == worker' = [worker EXCEPT ![c].pc = pc]
\* The thread is about to record error err.
Fails(c, err) == worker' = [worker EXCEPT ![c].pc = "fail", ![c].err = err]

\* The thread releases a slot it does not own.
Faulty_Finish(c) ==
  /\ worker' = [worker EXCEPT ![c] = [NoWorker EXCEPT !.pc = "done"]]
  /\ slots' = slots + 1

\* The thread returns, and with it the slot it owns.
Finish(c) ==
  /\ worker' = [worker EXCEPT ![c] = [NoWorker EXCEPT !.pc = "done"]]
  /\ slots' = IF worker[c].slot THEN slots + 1 ELSE slots

WorkerOnly == CopyOnly /\ UNCHANGED <<copies, request, lapsed, slots, lockVars>>

\* worker_slots.acquire(blocking=False), then start_background_task.
ActionSlot(a) ==
  /\ worker[a].pc = "slot"
  /\ IF slots = 0
     THEN Fails(a, "busy") /\ UNCHANGED slots
     ELSE /\ slots' = slots - 1
          /\ worker' = [worker EXCEPT ![a].pc = "begin", ![a].slot = TRUE,
                                      ![a].left = copies[a].size]
  /\ CopyOnly /\ UNCHANGED <<copies, request, lapsed, lockVars>>

ActionNotStarted(a) ==
  /\ worker[a].pc = "begin"
  /\ worker' = [worker EXCEPT ![a].pc = "fail", ![a].err = "busy", ![a].slot = FALSE]
  /\ slots' = slots + 1
  /\ CopyOnly /\ UNCHANGED <<copies, request, lapsed, lockVars>>

\* execute_agent_file_copy, its first section.
Begin(a) ==
  /\ worker[a].pc = "begin"
  /\ \/ /\ Stored(a) /\ AgentAllowed(a)
        /\ copies' = [copies EXCEPT ![a].status = "running"]
        /\ Goto(a, "recheck") /\ UNCHANGED slots
     \/ /\ Stored(a) /\ ~AgentAllowed(a)
        /\ copies' = [copies EXCEPT ![a] = FailRecord(a, Denial(a))]
        /\ Finish(a)
     \/ ~Stored(a) /\ Finish(a) /\ UNCHANGED copies
  /\ CopyOnly /\ UNCHANGED <<request, lapsed, lockVars>>

-----------------------------------------------------------------------------
(* Jobs of the Files window: request, reservation, worker slot.            *)

\* trim_files_copy_jobs_locked drops the ended jobs in gone, by age or to make
\* room, and the reservations in old, by age.
Trim(gone, old) ==
  /\ gone \subseteq EndedJobs
  /\ Cardinality(Store \ gone) < MaxJobs \/ gone = EndedJobs
  /\ old \subseteq {k \in Key : request[k] = "reserved"}

\* The requests left after a trim.
TrimmedRequests(gone, old) ==
  [k \in Key |-> IF k \in old \/ request[k] \notin {"none", "reserved"} \cup (Store \ gone)
                 THEN "none" ELSE request[k]]

\* Only a job that was stored makes a later request a duplicate.
Faulty_Duplicate(requests, k) == requests[k] \notin {"none", "reserved"}
Duplicate(requests, k)        == requests[k] # "none"

\* on_files_copy_request up to the reservation.  A repeated request gets the
\* state of the first one as its answer and changes nothing.
JobRequest(j, k, s, d, n) ==
  \E gone \in SUBSET Job, old \in SUBSET Key :
    /\ worker[j].pc = "none" /\ s # d /\ Trim(gone, old)
    /\ online /\ bridge[s] # 0 /\ bridge[d] # 0
    /\ lapsed' = lapsed \cup old
    /\ LET left == TrimmedRequests(gone, old) IN
       \/ /\ Duplicate(left, k)
          /\ request' = left /\ copies' = Dropped(gone) /\ Goto(j, "done")
       \/ /\ ~Duplicate(left, k)
          /\ request' = [left EXCEPT ![k] = "reserved"]
          /\ copies' = [Dropped(gone) EXCEPT ![j] =
                          CopyOf(s, d, n, k, "unused", FALSE)]
          /\ Goto(j, "prepare")
    /\ CopyOnly /\ UNCHANGED <<slots, lockVars>>

Src(c) == <<copies[c].src, copies[c].from.bridge>>
Dst(c) == <<copies[c].dst, copies[c].into.bridge>>

\* discard_request_reservation, and the answer that ends the request.
JobDiscard(j) ==
  /\ request' = [request EXCEPT ![copies[j].key] = "none"]
  /\ copies' = [copies EXCEPT ![j] = NoCopy]
  /\ Goto(j, "done")
  /\ CopyOnly /\ UNCHANGED <<lapsed, slots, lockVars>>

\* Look at the destination, then again at the source, under transfer locks,
\* and take a slot.
JobPrepare(j) ==
  /\ worker[j].pc = "prepare" /\ busy[Dst(j)] = Nobody
  /\ JobDiscard(j) \/ (Goto(j, "reread") /\ WorkerOnly)

JobReread(j) ==
  /\ worker[j].pc = "reread" /\ busy[Src(j)] = Nobody
  /\ \/ JobDiscard(j)
     \/ /\ slots > 0 /\ slots' = slots - 1
        /\ worker' = [worker EXCEPT ![j].pc = "insert", ![j].slot = TRUE,
                                    ![j].left = copies[j].size]
        /\ CopyOnly /\ UNCHANGED <<copies, request, lapsed, lockVars>>

\* The job is stored and its thread started; a full store, a reservation that
\* is gone, or a thread that does not start abort it.
JobInsert(j) ==
  \E gone \in SUBSET Job, old \in SUBSET Key :
    LET left == TrimmedRequests(gone, old)
        full == Cardinality(Store \ gone) >= MaxJobs
        k    == copies[j].key
    IN
    /\ worker[j].pc = "insert" /\ Trim(gone, old)
    /\ lapsed' = lapsed \cup old
    /\ copies' = IF full THEN Dropped(gone)
                 ELSE [Dropped(gone) EXCEPT ![j].status = "running", ![j].kept = TRUE]
    /\ request' = IF full \/ left[k] = "none" THEN left ELSE [left EXCEPT ![k] = j]
    /\ \/ Goto(j, "abort")
       \/ ~full /\ left[k] # "none" /\ Goto(j, "wait")
    /\ CopyOnly /\ UNCHANGED <<slots, lockVars>>

\* The slot of a job that was not started stays taken.
Faulty_JobAbort(j) ==
  /\ worker[j].pc = "abort"
  /\ worker' = [worker EXCEPT ![j] = [NoWorker EXCEPT !.pc = "done"]]
  /\ CopyOnly /\ UNCHANGED <<copies, request, lapsed, slots, lockVars>>

\* The exception handler of on_files_copy_request.  If the job was cancelled
\* and trimmed meanwhile, the record it removes may be of a later request.
JobAbort(j) ==
  LET ours == copies[j].kept /\ copies[j].status = "running" IN
  /\ worker[j].pc = "abort"
  /\ copies' = [copies EXCEPT ![j] = IF ours THEN FailRecord(j, "busy")
                                     ELSE [@ EXCEPT !.kept = FALSE]]
  /\ request' = IF ours THEN request ELSE [request EXCEPT ![copies[j].key] = "none"]
  /\ lapsed' = IF copies[j].status = "cancelled" /\ request[copies[j].key] # j
               THEN lapsed \cup {copies[j].key} ELSE lapsed
  /\ Finish(j)
  /\ CopyOnly /\ UNCHANGED lockVars

\* on_files_copy_cancel_request
JobCancel(j) ==
  \E gone \in SUBSET Job, old \in SUBSET Key :
    /\ online /\ Trim(gone, old)
    /\ j \in Store \ gone /\ copies[j].status = "running"
    /\ lapsed' = lapsed \cup old
    /\ request' = TrimmedRequests(gone, old)
    /\ copies' = [Dropped(gone) EXCEPT ![j].status = "cancelled", ![j].code = "stopped"]
    /\ CopyOnly /\ UNCHANGED <<worker, slots, lockVars>>

-----------------------------------------------------------------------------
(* copy_file_between_bridges, for actions and jobs alike.                  *)

\* The locks c holds are released on the way out of the procedure.
Unwind(c) ==
  /\ copyLock' = IF copyLock = c THEN Nobody ELSE copyLock
  /\ busy' = [g \in Bridge |-> IF busy[g] = c THEN Nobody ELSE busy[g]]
  /\ UNCHANGED transfers

CopyFails(c, err) ==
  /\ Fails(c, err) /\ Unwind(c)
  /\ CopyOnly /\ UNCHANGED <<copies, request, lapsed, slots>>

\* Copies run side by side.
Faulty_TakeCopyLock(c) ==
  /\ worker[c].pc = "wait"
  /\ \/ ~CopyAllowed(c) /\ CopyFails(c, Denial(c))
     \/ CopyAllowed(c) /\ Goto(c, "dest") /\ WorkerOnly

\* The copy lock, and the check that follows at once.
TakeCopyLock(c) ==
  /\ worker[c].pc = "wait" /\ copyLock = Nobody
  /\ \/ ~CopyAllowed(c) /\ CopyFails(c, Denial(c))
     \/ /\ CopyAllowed(c)
        /\ copyLock' = c /\ Goto(c, "dest")
        /\ CopyOnly /\ UNCHANGED <<copies, request, lapsed, slots, busy, transfers>>

\* The checks of an action before it asks for the copy lock, and of every copy
\* before and after each chunk.
Check(c) ==
  /\ worker[c].pc \in {"recheck", "check"}
  /\ \/ ~CopyAllowed(c) /\ CopyFails(c, Denial(c))
     \/ /\ CopyAllowed(c)
        /\ Goto(c, IF worker[c].pc = "recheck" THEN "wait"
                   ELSE IF worker[c].left = 0 THEN "verify" ELSE "fetch")
        /\ WorkerOnly

\* upload_sftp_stream and upload_local_stream hold the lock of the
\* destination from here on; an empty file is not read at all.
OpenDestination(c) ==
  /\ worker[c].pc = "dest" /\ busy[Dst(c)] = Nobody
  /\ busy' = [busy EXCEPT ![Dst(c)] = c]
  /\ Goto(c, IF worker[c].left = 0 THEN "verify" ELSE "check")
  /\ CopyOnly /\ UNCHANGED <<copies, request, lapsed, slots, copyLock, transfers>>

\* The stream is not read to its end: the source's lock stays taken.
Faulty_Fetch(c) ==
  /\ worker[c].pc = "fetch" /\ busy[Src(c)] \in {Nobody, c}
  /\ busy' = [busy EXCEPT ![Src(c)] = c]
  /\ worker' = [worker EXCEPT ![c].pc = "check", ![c].left = @ - 1]
  /\ CopyOnly /\ UNCHANGED <<copies, request, lapsed, slots, copyLock, transfers>>

\* The next chunk.  The source's lock is held from the first to the last one.
Fetch(c) ==
  /\ worker[c].pc = "fetch" /\ busy[Src(c)] \in {Nobody, c}
  /\ busy' = [busy EXCEPT ![Src(c)] = IF worker[c].left = 1 THEN Nobody ELSE c]
  /\ worker' = [worker EXCEPT ![c].pc = "check", ![c].left = @ - 1]
  /\ CopyOnly /\ UNCHANGED <<copies, request, lapsed, slots, copyLock, transfers>>

\* The source is looked at once more, under its lock, before the barrier.
Verify(c) ==
  /\ worker[c].pc = "verify" /\ busy[Src(c)] = Nobody
  /\ Goto(c, "barrier") /\ WorkerOnly

\* A read, write or comparison fails, under the lock it needs.
TransferFails(c) ==
  /\ \/ worker[c].pc = "dest" /\ busy[Dst(c)] = Nobody
     \/ worker[c].pc = "fetch" /\ busy[Src(c)] \in {Nobody, c}
     \/ worker[c].pc = "verify" /\ busy[Src(c)] = Nobody
  /\ CopyFails(c, "io")

\* The barrier only asks whether the copy is still running.
Faulty_BeginCommit(c) ==
  /\ worker[c].pc = "barrier"
  /\ \/ copies[c].status # "running" /\ CopyFails(c, Denial(c))
     \/ /\ copies[c].status = "running"
        /\ copies' = [copies EXCEPT ![c].status = "committing"]
        /\ Goto(c, "publish")
        /\ CopyOnly /\ UNCHANGED <<request, lapsed, slots, lockVars>>

\* begin_copy_commit
BeginCommit(c) ==
  /\ worker[c].pc = "barrier"
  /\ \/ ~(CopyAllowed(c) /\ copies[c].status = "running") /\ CopyFails(c, Denial(c))
     \/ /\ CopyAllowed(c) /\ copies[c].status = "running"
        /\ copies' = [copies EXCEPT ![c].status = "committing"]
        /\ Goto(c, "publish")
        /\ CopyOnly /\ UNCHANGED <<request, lapsed, slots, lockVars>>

\* The rename of the SFTP server, or rename and link of the local system: it
\* is confirmed, fails and is known not to have happened, or remains unknown.
Publish(c) ==
  /\ worker[c].pc = "publish"
  /\ \/ Goto(c, "confirm") /\ published' = published \cup {c}
     \/ Fails(c, "io") /\ UNCHANGED published
     \/ Fails(c, "unknown") /\ published' \in {published, published \cup {c}}
  /\ Unwind(c)
  /\ UNCHANGED <<consentVars, terminalVars, copies, request, lapsed, slots>>

Confirm(c) ==
  /\ worker[c].pc = "confirm"
  /\ copies' = [copies EXCEPT ![c].status =
                  IF @ = "committing" THEN "completed" ELSE @]
  /\ Finish(c)
  /\ CopyOnly /\ UNCHANGED <<request, lapsed, lockVars>>

\* The section that records a failure.
RecordFailure(c) ==
  /\ worker[c].pc = "fail"
  /\ copies' = [copies EXCEPT ![c] = FailRecord(c, worker[c].err)]
  /\ Finish(c)
  /\ CopyOnly /\ UNCHANGED <<request, lapsed, lockVars>>

\* Another transfer of the Files window holds the lock of one bridge.
TransferStarts(g) ==
  /\ online /\ bridge[g[1]] = g[2] /\ busy[g] = Nobody /\ transfers < MaxTransfers
  /\ busy' = [busy EXCEPT ![g] = "transfer"]
  /\ transfers' = transfers + 1
  /\ CopyOnly /\ UNCHANGED <<copies, worker, request, lapsed, slots, copyLock>>
TransferEnds(g) ==
  /\ busy[g] = "transfer"
  /\ busy' = [busy EXCEPT ![g] = Nobody]
  /\ CopyOnly /\ UNCHANGED <<copies, worker, request, lapsed, slots, copyLock, transfers>>

-----------------------------------------------------------------------------
Setting ==
  \/ Disconnect
  \/ \E t \in Terminal :
       \/ Mint(t) \/ Detach(t)
       \/ TokenExpires(t) \/ TokenRenewed(t) \/ RevokeToken(t) \/ RevokeCancel(t)
       \/ Start(t) \/ CloseInvalidate(t) \/ ClosePop(t) \/ EndPop(t) \/ EndInvalidate(t)
       \/ \E opens \in BOOLEAN : Attach(t, opens)
       \/ \E opens, resume \in BOOLEAN : Control(t, opens, resume)

Requested ==
  \/ \E a \in Action :
       \/ \E s, d \in Terminal, n \in 0..MaxChunks : Propose(a, s, d, n)
       \/ Approve(a) \/ Reject(a) \/ Cancel(a)
  \/ \E j \in Job :
       \/ \E k \in Key, s, d \in Terminal, n \in 0..MaxChunks : JobRequest(j, k, s, d, n)
       \/ JobCancel(j)
  \/ \E g \in Bridge : TransferStarts(g)

\* The thread that serves c.
Work(c) ==
  \/ ActionSlot(c) \/ ActionNotStarted(c) \/ Begin(c)
  \/ JobPrepare(c) \/ JobReread(c) \/ JobInsert(c) \/ JobAbort(c)
  \/ TakeCopyLock(c) \/ Check(c) \/ OpenDestination(c) \/ Fetch(c) \/ Verify(c)
  \/ TransferFails(c) \/ BeginCommit(c) \/ Publish(c) \/ Confirm(c)
  \/ RecordFailure(c)

Next == \/ Setting \/ Requested
        \/ \E c \in Copy : Work(c)
        \/ \E g \in Bridge : TransferEnds(g)

Spec == Init /\ [][Next]_vars

\* Threads that can run run, and a transfer that uses a bridge ends.
FairSpec ==
  /\ Spec
  /\ \A c \in Copy : WF_vars(Work(c))
  /\ \A g \in Bridge : WF_vars(TransferEnds(g))

-----------------------------------------------------------------------------
(* Correctness.                                                            *)

\* Records, program points and lock holders stay in their types, and the slot
\* semaphore within its bounds: releasing a slot nobody took raises an error
\* in the code (BoundedSemaphore).
TypeOK ==
  /\ consent \in [Terminal -> ConsentRec]
  /\ bindings \in [Terminal -> Nat]
  /\ token \in [Terminal -> {"none", "live", "expired", "revoked"}]
  /\ online \in BOOLEAN
  /\ bridge \in [Terminal -> 0..MaxBridge]
  /\ created \in [Terminal -> 0..MaxBridge]
  /\ ending \in [Terminal -> {"no", "closing", "popped"}]
  /\ copies \in [Copy -> CopyRec]
  /\ worker \in [Copy -> WorkerRec]
  /\ request \in [Key -> {"none", "reserved"} \cup Job]
  /\ lapsed \subseteq Key
  /\ slots \in 0..Slots
  /\ copyLock \in Copy \cup {Nobody}
  /\ busy \in [Bridge -> Copy \cup {Nobody, "transfer"}]
  /\ transfers \in Nat
  /\ published \subseteq Copy

\* The outcome a copy ends with is true: completed means the destination was
\* put in place, and every other outcome but "unknown" means it never was or
\* will be (agent_socket_contract.md:838, "returns cancelled only when the
\* destination cannot subsequently be published").
OutcomeIsTrue ==
  \A c \in Copy :
    /\ copies[c].status = "completed" => c \in published
    /\ c \in published =>
         \/ copies[c].status \in {"committing", "completed"}
         \/ copies[c].status = "failed" /\ copies[c].code = "unknown"

\* What the viewer consented to has changed before the commit barrier: a mode,
\* pause, privacy state or state of either terminal, a revoked token, another
\* bridge; for a job, the browser is gone or a terminal is another one.
Withdrawn(c) ==
  LET r == copies[c] IN
  /\ r.status \in Stoppable
  /\ \/ bridge[r.src] # r.from.bridge \/ bridge[r.dst] # r.into.bridge
     \/ c \in Job /\ ~online
     \/ /\ c \in Action
        /\ \/ ~ConsentHolds(r.src, r.from) \/ ~ConsentHolds(r.dst, r.into)
           \/ token[r.src] = "revoked" \/ token[r.dst] = "revoked"

\* A copy whose consent is withdrawn before its commit barrier stays so until
\* it ends, unpublished, whatever is resumed, re-attached or restarted: no step
\* gives the consent back, and none takes the copy through the barrier.
WithdrawnNeverCommits ==
  [][\A c \in Copy : Withdrawn(c) =>
       \/ Withdrawn(c)' /\ c \notin published'
       \/ copies'[c].status \in {"failed", "rejected", "cancelled"}]_vars

\* Every slot taken from the pool belongs to a thread that will return it:
\* no failure between acquire and start, and no cancel, loses or doubles one.
SlotsBalance == slots + Cardinality({c \in Copy : worker[c].slot}) = Slots

\* No copy hangs: whatever is cancelled, closed or fails, and whatever other
\* transfer is in its way, each copy that was let in reaches an outcome.
CopiesEnd ==
  \A c \in Copy : copies[c].status \in {"approved", "running", "committing"}
                    ~> copies[c].status \in Ended

\* The copies whose locks c waits for, itself included if it asks twice.
WaitsFor(c) ==
  {d \in Copy :
    \/ worker[c].pc = "wait" /\ copyLock = d
    \/ worker[c].pc \in {"prepare", "dest"} /\ busy[Dst(c)] = d
    \/ worker[c].pc \in {"reread", "verify"} /\ busy[Src(c)] = d
    \/ worker[c].pc = "fetch" /\ busy[Src(c)] = d /\ c # d}

\* Copies in opposite directions hold the transfer lock of one bridge while
\* they ask for the lock of the other; the copy lock keeps them from waiting
\* for each other.
NoCircularWait == \A c, d \in Copy : d \in WaitsFor(c) => c \notin WaitsFor(d)

\* A repeated request never starts a second copy of the one under way, unless
\* the reservation of the first was dropped while it was prepared: for its age,
\* or by the failed start of an earlier job of the same request id.
Unfinished(j) == \/ worker[j].pc \in {"prepare", "reread", "insert"}
                 \/ copies[j].status \in {"running", "committing"}
OneJobPerRequest ==
  \A i, j \in Job :
    /\ i # j /\ copies[i].key = copies[j].key /\ Unfinished(i) /\ Unfinished(j)
    => copies[i].key \in lapsed

\* A record is not dropped from its table while its copy is under way: the
\* browser could no longer cancel it, nor its agent ask for its status.
OpenCopyKept ==
  [][\A c \in Copy : copies[c].kept /\ copies[c].status \in Retained
                       => copies'[c].kept]_vars

\* "Sliding idle expiry does not independently cancel a copy that the browser
\* already approved" (docs/agent_socket_contract.md:899).
ExpiryDoesNotCancel == \A a \in Action : copies[a].code # "expired"

=============================================================================
