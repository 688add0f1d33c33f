---------------------------- MODULE AgentControl ----------------------------
(***************************************************************************)
(* Human-controlled agent input on one terminal of one session (app.py,    *)
(* external_agent_handlers.py).                                            *)
(*                                                                         *)
(* Each browser viewer that attaches an agent to the terminal owns an      *)
(* AgentControlState: mode, pause flag, privacy state, and two counters    *)
(* (control_epoch, privacy_version) that stamp every proposed action.      *)
(* Proposals come from the viewer's own provider or from an external agent *)
(* holding an attach token; they are written to the terminal in chunks by  *)
(* a writer thread, at once in direct mode and after a human approval      *)
(* otherwise.  Every section under agent_lock is one step here; between    *)
(* sections, threads interleave.                                           *)
(*                                                                         *)
(* The terminal bridge has an input lock (bridge.input_lock) which is not  *)
(* agent_lock, and the terminal can be closed, can end by itself, or can   *)
(* be replaced by a new bridge under the same terminal id at any time.     *)
(*                                                                         *)
(* An operator Faulty_X is X with a plausible fault, kept to show that a   *)
(* property notices it; the specification does not refer to it.            *)
(***************************************************************************)
EXTENDS Naturals, FiniteSets

CONSTANTS
  Viewer,       \* browser connections (Socket.IO sids)
  Agent,        \* external agents, one attach token each
  Action,       \* identities of proposed terminal_input actions
  Nobody,       \* no thread: the holder of a free input lock
  MaxRecords,   \* AGENT_ACTION_MAX_RECORDS, per agent state
  MaxChunks,    \* bound: chunks of one action's input
  MaxEpoch,     \* bound: control_epoch
  MaxPrivacy,   \* bound: privacy_version
  MaxBinding,   \* bound: agent states ever created
  MaxBridge,    \* bound: bridges ever created for the terminal id
  MaxHuman,     \* bound: ssh_input events
  Endings       \* bound: how the terminal may end, among "close" and "end"

ASSUME ThreadsAssumption ==
  /\ Viewer \cap Action = {}
  /\ Nobody \notin Viewer \cup Action \cup Agent
  /\ Viewer \cap Agent = {}
ASSUME BoundsAssumption ==
  /\ MaxRecords \in Nat \ {0} /\ MaxChunks \in Nat /\ MaxEpoch \in Nat
  /\ MaxPrivacy \in Nat /\ MaxBinding \in Nat /\ MaxBridge \in Nat \ {0}
  /\ MaxHuman \in Nat /\ Endings \subseteq {"close", "end"}

VARIABLES
  agent,      \* agent_states: the AgentControlState of each viewer
  bindings,   \* number of agent_binding_ids handed out
  actions,    \* pending_actions of all states, with who proposed them
  writer,     \* the thread in write_agent_terminal_input for an action
  token,      \* ExternalAgentAttachStore: the token of each external agent
  request,    \* bridge a viewer's handler obtained before taking agent_lock
  send,       \* a send command between token validation and input lock
  human,      \* the viewer's on_ssh_input handler
  typed,      \* number of ssh_input events so far
  bridge,     \* bridges[session][terminal]: 0 if none, else its number
  created,    \* number of bridges created so far
  life,       \* how far closing, ending and starting a terminal have got
  lock,       \* owner of each bridge's input_lock
  lastInput   \* who put the last bytes into each bridge

vars == <<agent, bindings, actions, writer, token, request, send, human,
          typed, bridge, created, life, lock, lastInput>>

-----------------------------------------------------------------------------
(* States and records.                                                     *)

Mode       == {"disabled", "observe", "approval_pending", "direct_active", "paused"}
Privacy    == {"normal", "private_input", "paste_review", "paused"}
Writable   == {"approved", "direct_pending"}
OpenStatus == {"pending_approval", "direct_pending", "approved"}
EndStatus  == {"completed", "failed", "rejected"}
\* "unused": not proposed yet; "evicted": dropped from pending_actions.
Status     == OpenStatus \cup EndStatus \cup {"unused", "evicted"}

Bridge == 1..MaxBridge

\* binding 0 stands for the absence of a state in agent_states; lease is the
\* bridge whose human input started the running input lease, 0 if none runs.
AgentRec ==
  [binding : Nat, mode : Mode, paused : BOOLEAN, epoch : Nat,
   privacy : Privacy, pver : Nat, lease : 0..MaxBridge]
ActionRec ==
  [viewer : Viewer \cup {Nobody}, binding : Nat, epoch : Nat, pver : Nat,
   status : Status, by : Viewer \cup Agent \cup {Nobody}, chunks : Nat]
\* outer is the bridge whose input lock the thread holds around all chunks;
\* into collects the bridges that got a chunk.
WriterRec ==
  [pc : {"none", "start", "next", "lock", "write", "final", "done"},
   gen : 0..MaxBridge, outer : 0..MaxBridge, written : Nat,
   into : SUBSET (0..MaxBridge), result : {"none", "ok", "error"}]
\* beat: a heartbeat command is between its validation and its renewal.
TokenRec == [status : {"none", "live", "expired", "revoked", "dead"},
             viewer : Viewer \cup {Nobody}, binding : Nat, beat : BOOLEAN]
SendRec  == [viewer : Viewer, binding : Nat, gen : Bridge]
LifeRec  == [close : {"idle", "invalidated"},
             end   : {"idle", "checked", "popped"},
             start : {"idle", "popped", "invalidated"}]
HumanRec == [pc : {"idle", "wait", "write"}, gen : 0..MaxBridge]

NewState(b) == [binding |-> b, mode |-> "disabled", paused |-> FALSE, epoch |-> 0,
                privacy |-> "normal", pver |-> 0, lease |-> 0]
NoState  == NewState(0)
NoAction == [viewer |-> Nobody, binding |-> 0, epoch |-> 0, pver |-> 0,
             status |-> "unused", by |-> Nobody, chunks |-> 0]
NoWriter == [pc |-> "none", gen |-> 0, outer |-> 0, written |-> 0,
             into |-> {}, result |-> "none"]
NoToken  == [status |-> "none", viewer |-> Nobody, binding |-> 0, beat |-> FALSE]
NoSend   == [viewer |-> Nobody, binding |-> 0, gen |-> 0]
Idle     == [pc |-> "idle", gen |-> 0]

Attached(v) == agent[v].binding # 0

\* The action is in pending_actions of the state its viewer has now.
Stored(a) ==
  /\ actions[a].status \notin {"unused", "evicted"}
  /\ Attached(actions[a].viewer)
  /\ actions[a].binding = agent[actions[a].viewer].binding

StoredBy(v) == {a \in Action : actions[a].viewer = v /\ Stored(a)}
OpenBy(v)   == {a \in StoredBy(v) : actions[a].status \in OpenStatus}

TokenValid(e)      == token[e].status = "live"
\* validate_external_agent_record on the action of an external agent
CredentialValid(a) == actions[a].by \in Agent => TokenValid(actions[a].by)

Paused(s)         == s.paused \/ s.mode = "paused"
ContextAllowed(s) == s.privacy = "normal"
Visible(s)        == ~s.paused /\ s.mode \notin {"disabled", "paused"}
CanPropose(s)     == /\ ~Paused(s) /\ ContextAllowed(s) /\ s.lease = 0
                     /\ s.mode \in {"approval_pending", "direct_active"}

Init ==
  /\ agent     = [v \in Viewer |-> NoState]
  /\ bindings  = 0
  /\ actions   = [a \in Action |-> NoAction]
  /\ writer    = [a \in Action |-> NoWriter]
  /\ token     = [e \in Agent |-> NoToken]
  /\ request   = [v \in Viewer |-> 0]
  /\ send      = [e \in Agent |-> NoSend]
  /\ human     = [v \in Viewer |-> Idle]
  /\ typed     = 0
  /\ bridge    = 0
  /\ created   = 0
  /\ life      = [close |-> "idle", end |-> "idle", start |-> "idle"]
  /\ lock      = [g \in Bridge |-> Nobody]
  /\ lastInput = [g \in Bridge |-> Nobody]

-----------------------------------------------------------------------------
(* Updates shared by the handlers.                                         *)

\* get_or_create_agent_state: the state of v, or a fresh one.
StateOf(v) ==
  IF Attached(v) THEN agent[v] ELSE NewState(bindings + 1)
CountBinding(v) ==
  /\ Attached(v) \/ bindings < MaxBinding
  /\ bindings' = IF Attached(v) THEN bindings ELSE bindings + 1

Bump(s) == [s EXCEPT !.epoch = @ + 1]
WithPrivacy(s, p) ==
  [s EXCEPT !.privacy = p, !.pver = IF p = s.privacy THEN @ ELSE @ + 1]
\* The write gate is closed: pause, and privacy set to paused.
ClosedGate(s) ==
  Bump(WithPrivacy([s EXCEPT !.paused = TRUE, !.mode = "paused"], "paused"))

Bounded(s) == s.epoch <= MaxEpoch /\ s.pver <= MaxPrivacy

\* The reason of the cancellation ends up as the action's status.
Faulty_Cancelled(A) ==
  [a \in Action |-> IF a \in A THEN [actions[a] EXCEPT !.status = "cancelled"]
                    ELSE actions[a]]

\* cancel_agent_pending_actions, record_external_agent_revoked
Cancelled(A) ==
  [a \in Action |-> IF a \in A THEN [actions[a] EXCEPT !.status = "failed"]
                    ELSE actions[a]]

\* invalidate_agent_states: the states go, their tokens and open actions too.
Invalidate(V) ==
  /\ agent' = [v \in Viewer |-> IF v \in V THEN NoState ELSE agent[v]]
  /\ actions' = Cancelled(UNION {OpenBy(v) : v \in V})
  /\ token' = [e \in Agent |->
       IF token[e].status \in {"live", "expired"}
          /\ \E v \in V : Attached(v) /\ token[e].viewer = v
       THEN [token[e] EXCEPT !.status = "dead"] ELSE token[e]]
  /\ UNCHANGED <<bindings, writer, request, send, human, typed, created, lock,
                 lastInput>>

\* Room is made by dropping any record.
Faulty_RoomOpen(v) ==
  IF Cardinality(StoredBy(v)) < MaxRecords THEN {{}} ELSE {{a} : a \in StoredBy(v)}

\* reserve_agent_action_slot: the actions to drop so that one more fits.
Room(v) ==
  IF Cardinality(StoredBy(v)) < MaxRecords THEN {{}}
  ELSE {{a} : a \in StoredBy(v) \ OpenBy(v)}

\* build_agent_action under a lock on bridge g: direct input is written by a
\* thread that keeps the lock, other input waits for a decision.
Propose(v, who, g, a, n) ==
  /\ lock[g] = Nobody
  /\ Attached(v) /\ CanPropose(agent[v])
  /\ actions[a].status = "unused"
  /\ LET direct == agent[v].mode = "direct_active"
         new == [viewer |-> v, binding |-> agent[v].binding,
                 epoch |-> agent[v].epoch, pver |-> agent[v].pver,
                 status |-> IF direct THEN "direct_pending" ELSE "pending_approval",
                 by |-> who, chunks |-> n]
     IN /\ \E gone \in Room(v) :
             actions' = [b \in Action |->
               CASE b = a -> new
                 [] b \in gone -> [actions[b] EXCEPT !.status = "evicted"]
                 [] OTHER -> actions[b]]
        /\ writer' = IF direct
                     THEN [writer EXCEPT ![a].pc = "start", ![a].outer = g]
                     ELSE writer
        /\ lock' = IF direct THEN [lock EXCEPT ![g] = a] ELSE lock

-----------------------------------------------------------------------------
(* Browser events that look the bridge up before they take agent_lock.     *)

Admit(v) ==
  /\ bridge # 0 /\ request[v] = 0
  /\ request' = [request EXCEPT ![v] = bridge]
  /\ UNCHANGED <<agent, bindings, actions, writer, token, send, human, typed,
                 bridge, created, life, lock, lastInput>>

Admitted(v) ==
  /\ request[v] # 0
  /\ request' = [request EXCEPT ![v] = 0]
  /\ UNCHANGED <<send, human, typed, bridge, created, life, lastInput>>

\* Any refusal: an error event to the browser and no change of state.
Refuse(v) ==
  /\ Admitted(v)
  /\ UNCHANGED <<agent, bindings, actions, writer, token, lock>>

\* Install state s for v and cancel the actions in A.
Control(v, s, A) ==
  /\ Admitted(v) /\ CountBinding(v) /\ Bounded(s)
  /\ agent' = [agent EXCEPT ![v] = s]
  /\ actions' = Cancelled(A)
  /\ UNCHANGED <<writer, token, lock>>

Attach(v) ==
  LET s == StateOf(v) IN
  Control(v, IF s.mode = "disabled" THEN Bump([s EXCEPT !.mode = "observe"])
             ELSE s, {})

ModeSet(v, m) ==
  LET s == StateOf(v) IN
  /\ s.paused => m = "disabled"
  /\ Control(v, [IF m # s.mode THEN Bump(s) ELSE s
                 EXCEPT !.mode = m, !.paused = FALSE],
             IF m # s.mode THEN OpenBy(v) ELSE {})

Pause(v) == Control(v, ClosedGate(StateOf(v)), OpenBy(v))

\* Leaving a mode through resume keeps the epoch.
Faulty_Resume(v, m) ==
  LET s == StateOf(v) IN
  Control(v, WithPrivacy([s EXCEPT !.paused = FALSE, !.mode = m], "normal"), {})

Resume(v, m) ==
  LET s == StateOf(v) IN
  Control(v, Bump(WithPrivacy([s EXCEPT !.paused = FALSE, !.mode = m], "normal")), {})

PrivacySet(v, p) ==
  LET s == StateOf(v) IN
  \/ /\ p = "paused"
     /\ Control(v, ClosedGate(s), OpenBy(v))
  \/ /\ p # "paused" /\ ~Paused(s)
     /\ Control(v, WithPrivacy(s, p), IF p # s.privacy THEN OpenBy(v) ELSE {})

\* agent_suggestion_request and agent_provider_run_request
ViewerPropose(v, a, n) ==
  /\ Admitted(v)
  /\ Propose(v, v, request[v], a, n)
  /\ UNCHANGED <<agent, bindings, token>>

-----------------------------------------------------------------------------
(* Browser events that need no bridge.                                     *)

\* on_agent_detach; on_disconnect does the same to the states of its sid.
Detach(v) ==
  /\ Attached(v)
  /\ Invalidate({v})
  /\ UNCHANGED <<bridge, life>>

\* A decision changes one action of the viewer and may start its writer.
Decide(v, a, status) ==
  /\ a \in StoredBy(v) /\ actions[a].status = "pending_approval"
  /\ actions' = [actions EXCEPT ![a].status = status]
  /\ UNCHANGED <<agent, bindings, token, request, send, human, typed, bridge,
                 created, life, lock, lastInput>>

\* Approving again an action that is no longer pending.
Faulty_Approve(v, a) ==
  /\ a \in StoredBy(v) /\ ~Paused(agent[v]) /\ ContextAllowed(agent[v])
  /\ actions[a].epoch = agent[v].epoch
  /\ actions' = [actions EXCEPT ![a].status = "approved"]
  /\ writer' = [writer EXCEPT ![a].pc = "start"]
  /\ UNCHANGED <<agent, bindings, token, request, send, human, typed, bridge,
                 created, life, lock, lastInput>>

Approve(v, a) ==
  /\ ~Paused(agent[v]) /\ ContextAllowed(agent[v])
  /\ actions[a].epoch = agent[v].epoch
  /\ Decide(v, a, "approved")
  /\ writer' = [writer EXCEPT ![a].pc = "start"]

Reject(v, a) == Decide(v, a, "rejected") /\ UNCHANGED writer

-----------------------------------------------------------------------------
(* External agents: token, revocation and the send command.                *)

\* get_external_agent_authorized_state: the state the token is bound to.
Bound(e) ==
  /\ token[e].viewer \in Viewer
  /\ Attached(token[e].viewer)
  /\ agent[token[e].viewer].binding = token[e].binding
  /\ Visible(agent[token[e].viewer])

SetToken(e, t) ==
  /\ token' = [token EXCEPT ![e] = t]
  /\ UNCHANGED <<agent, bindings, writer, request, send, human, typed, bridge,
                 created, life, lock, lastInput>>

Mint(e, v) ==
  /\ bridge # 0 /\ Attached(v) /\ Visible(agent[v])
  /\ token[e].status = "none"
  /\ SetToken(e, [status |-> "live", viewer |-> v, binding |-> agent[v].binding,
                  beat |-> FALSE])
  /\ UNCHANGED actions

TokenExpires(e) ==
  /\ TokenValid(e)
  /\ SetToken(e, [token[e] EXCEPT !.status = "expired"])
  /\ UNCHANGED actions

\* The heartbeat command validates the token in one section and renews its
\* record in another, expired or not; any other command does both in one.
HeartbeatValidate(e) ==
  /\ TokenValid(e) /\ Bound(e) /\ ~token[e].beat
  /\ SetToken(e, [token[e] EXCEPT !.beat = TRUE])
  /\ UNCHANGED actions

\* Renewal clears the revocation.
Faulty_HeartbeatRenew(e) ==
  /\ token[e].beat
  /\ SetToken(e, [token[e] EXCEPT !.beat = FALSE,
                  !.status = IF @ \in {"expired", "revoked"} THEN "live" ELSE @])
  /\ UNCHANGED actions

HeartbeatRenew(e) ==
  /\ token[e].beat
  /\ SetToken(e, [token[e] EXCEPT !.beat = FALSE,
                  !.status = IF @ = "expired" THEN "live" ELSE @])
  /\ UNCHANGED actions

\* The revoke command marks the token in one section ...
RevokeToken(e) ==
  /\ TokenValid(e) /\ Bound(e)
  /\ SetToken(e, [token[e] EXCEPT !.status = "revoked"])
  /\ UNCHANGED actions

\* ... and cancels the agent's open actions in the next one.
RevokeCancel(e) ==
  /\ token[e].status = "revoked"
  /\ SetToken(e, [token[e] EXCEPT !.status = "dead"])
  /\ actions' = Cancelled({a \in OpenBy(token[e].viewer) : actions[a].by = e})

\* Bound: once every identity in Action is used a send could only be refused.
SendAdmit(e) ==
  /\ send[e] = NoSend /\ \E a \in Action : actions[a].status = "unused"
  /\ TokenValid(e) /\ Bound(e) /\ bridge # 0
  /\ send' = [send EXCEPT ![e] = [viewer |-> token[e].viewer,
                                  binding |-> token[e].binding, gen |-> bridge]]
  /\ UNCHANGED <<agent, bindings, actions, writer, token, request, human, typed,
                 bridge, created, life, lock, lastInput>>

SendDone(e) ==
  /\ send[e] # NoSend
  /\ send' = [send EXCEPT ![e] = NoSend]
  /\ UNCHANGED <<agent, bindings, token, request, human, typed, bridge,
                 created, life, lastInput>>

SendRefuse(e) == SendDone(e) /\ UNCHANGED <<actions, writer, lock>>

\* execute_send_action, under the input lock of the bridge it was given.
SendPropose(e, a, n) ==
  /\ SendDone(e)
  /\ TokenValid(e)
  /\ agent[send[e].viewer].binding = send[e].binding
  /\ Propose(send[e].viewer, e, send[e].gen, a, n)

-----------------------------------------------------------------------------
(* Human input: on_ssh_input.                                              *)

HumanAdmit(v) ==
  /\ bridge # 0 /\ human[v] = Idle /\ typed < MaxHuman
  /\ human' = [human EXCEPT ![v] = [pc |-> "wait", gen |-> bridge]]
  /\ typed' = typed + 1
  /\ UNCHANGED <<agent, bindings, actions, writer, token, request, send, bridge,
                 created, life, lock, lastInput>>

\* The lease is noted before the input lock is free.
Faulty_HumanNote(v) ==
  /\ human[v].pc = "wait"
  /\ lock' = [lock EXCEPT ![human[v].gen] = v]
  /\ human' = [human EXCEPT ![v].pc = "write"]
  /\ agent' = [w \in Viewer |->
       IF Attached(w) THEN [agent[w] EXCEPT !.lease = human[v].gen] ELSE agent[w]]
  /\ UNCHANGED <<bindings, actions, writer, token, request, send, typed, bridge,
                 created, life, lastInput>>

\* Every state on the terminal gets a lease, under the bridge's input lock.
HumanNote(v) ==
  /\ human[v].pc = "wait"
  /\ lock[human[v].gen] = Nobody
  /\ lock' = [lock EXCEPT ![human[v].gen] = v]
  /\ human' = [human EXCEPT ![v].pc = "write"]
  /\ agent' = [w \in Viewer |->
       IF Attached(w) THEN [agent[w] EXCEPT !.lease = human[v].gen] ELSE agent[w]]
  /\ UNCHANGED <<bindings, actions, writer, token, request, send, typed, bridge,
                 created, life, lastInput>>

HumanWrite(v) ==
  /\ human[v].pc = "write"
  /\ lastInput' = [lastInput EXCEPT ![human[v].gen] = v]
  /\ lock' = [lock EXCEPT ![human[v].gen] = Nobody]
  /\ human' = [human EXCEPT ![v] = Idle]
  /\ UNCHANGED <<agent, bindings, actions, writer, token, request, send, typed,
                 bridge, created, life>>

\* AGENT_HUMAN_INPUT_LEASE_SECONDS have passed.
LeaseExpires(v) ==
  /\ agent[v].lease # 0
  /\ agent' = [agent EXCEPT ![v].lease = 0]
  /\ UNCHANGED <<bindings, actions, writer, token, request, send, human, typed,
                 bridge, created, life, lock, lastInput>>

-----------------------------------------------------------------------------
(* write_agent_terminal_input and check_agent_write_allowed.               *)

\* The check fails and leaves the action as it is ...
Fenced(a) ==
  LET s == agent[actions[a].viewer] IN
  \/ ~Stored(a) \/ Paused(s) \/ ~ContextAllowed(s)
  \/ s.epoch # actions[a].epoch

\* ... or fails and marks it failed.
Rejected(a) ==
  LET s == agent[actions[a].viewer] IN
  \/ ~CredentialValid(a) \/ s.pver # actions[a].pver
  \/ actions[a].status \notin Writable \/ s.lease # 0 \/ bridge = 0

Allowed(a) == ~Fenced(a) /\ ~Rejected(a)

\* The lock around all chunks survives the thread.
Faulty_Return(a, result, held) ==
  /\ writer' = [writer EXCEPT ![a].pc = "done", ![a].result = result]
  /\ lock' = [g \in Bridge |-> IF g \in held \ {writer[a].outer} THEN Nobody
                               ELSE lock[g]]

\* The thread returns, releasing the lock it held around all chunks and, if
\* it holds one, the lock of this chunk.
Return(a, result, held) ==
  /\ writer' = [writer EXCEPT ![a].pc = "done", ![a].result = result]
  /\ lock' = [g \in Bridge |-> IF g \in {writer[a].outer} \cup held THEN Nobody
                               ELSE lock[g]]

CheckFails(a, held) ==
  /\ ~Allowed(a)
  /\ actions' = IF Fenced(a) THEN actions ELSE Cancelled({a})
  /\ Return(a, "error", held)

WriterIdle == UNCHANGED <<agent, bindings, token, request, send, human, typed,
                          bridge, created, life>>

WriterStart(a) ==
  /\ writer[a].pc = "start"
  /\ WriterIdle /\ UNCHANGED lastInput
  /\ \/ CheckFails(a, {})
     \/ /\ Allowed(a) /\ actions[a].chunks = 0
        /\ actions' = [actions EXCEPT ![a].status = "completed"]
        /\ Return(a, "ok", {})
     \/ /\ Allowed(a) /\ actions[a].chunks > 0
        /\ writer' = [writer EXCEPT ![a].pc = "next"]
        /\ UNCHANGED <<actions, lock>>

\* get_bridge for the next chunk, with no lock held but outer.
WriterPick(a) ==
  /\ writer[a].pc = "next"
  /\ IF bridge = 0 THEN Return(a, "error", {})
     ELSE /\ writer' = [writer EXCEPT ![a].pc = "lock", ![a].gen = bridge]
          /\ UNCHANGED lock
  /\ WriterIdle /\ UNCHANGED <<actions, lastInput>>

\* Chunks are written without the input lock.
Faulty_WriterUnlocked(a) ==
  /\ writer[a].pc = "lock"
  /\ WriterIdle /\ UNCHANGED lastInput
  /\ \/ CheckFails(a, {})
     \/ /\ Allowed(a)
        /\ writer' = [writer EXCEPT ![a].pc = "write"]
        /\ UNCHANGED <<actions, lock>>

\* The check is repeated for every chunk under the bridge's input lock.
WriterLock(a) ==
  LET g == writer[a].gen IN
  /\ writer[a].pc = "lock"
  /\ lock[g] \in {Nobody, a}
  /\ WriterIdle /\ UNCHANGED lastInput
  /\ \/ CheckFails(a, {g})
     \/ /\ Allowed(a)
        /\ writer' = [writer EXCEPT ![a].pc = "write"]
        /\ lock' = [lock EXCEPT ![g] = a]
        /\ UNCHANGED actions

\* The lock of the chunk is released even when it is the outer one.
Faulty_WriterWrite(a) ==
  LET g == writer[a].gen
      last == writer[a].written + 1 = actions[a].chunks
  IN
  /\ writer[a].pc = "write"
  /\ lastInput' = [lastInput EXCEPT ![g] = a]
  /\ writer' = [writer EXCEPT ![a].pc = IF last THEN "final" ELSE "next",
                              ![a].written = @ + 1, ![a].into = @ \cup {g}]
  /\ lock' = [lock EXCEPT ![g] = Nobody]
  /\ WriterIdle /\ UNCHANGED actions

\* bridge.write, outside agent_lock.
WriterWrite(a) ==
  LET g == writer[a].gen
      last == writer[a].written + 1 = actions[a].chunks
  IN
  /\ writer[a].pc = "write"
  /\ lastInput' = [lastInput EXCEPT ![g] = a]
  /\ writer' = [writer EXCEPT ![a].pc = IF last THEN "final" ELSE "next",
                              ![a].written = @ + 1, ![a].into = @ \cup {g}]
  /\ lock' = IF writer[a].outer = g THEN lock ELSE [lock EXCEPT ![g] = Nobody]
  /\ WriterIdle /\ UNCHANGED actions

\* Completion is recorded whatever became of the action meanwhile.
Faulty_WriterFinal(a) ==
  /\ writer[a].pc = "final"
  /\ actions' = IF Stored(a) THEN [actions EXCEPT ![a].status = "completed"]
                ELSE actions
  /\ Return(a, "ok", {})
  /\ WriterIdle /\ UNCHANGED lastInput

\* The section after the last chunk.
WriterFinal(a) ==
  LET granted == CredentialValid(a) /\ actions[a].status \in Writable IN
  /\ writer[a].pc = "final"
  /\ actions' =
       IF ~Stored(a) THEN actions
       ELSE IF granted THEN [actions EXCEPT ![a].status = "completed"]
       ELSE IF actions[a].status \in OpenStatus THEN Cancelled({a})
       ELSE actions
  /\ Return(a, IF Stored(a) /\ ~granted THEN "error" ELSE "ok", {})
  /\ WriterIdle /\ UNCHANGED lastInput

-----------------------------------------------------------------------------
(* What becomes of the terminal.  Closing, ending and starting run in      *)
(* threads of their own.                                                   *)

SetLife(op, pc) == life' = [life EXCEPT ![op] = pc]

LifeOnly == UNCHANGED <<agent, bindings, actions, writer, token, request, send,
                        human, typed, created, lock, lastInput>>

\* close_terminal_bridge on request of a viewer invalidates, then pops.
CloseInvalidate ==
  /\ life.close = "idle" /\ bridge # 0 /\ "close" \in Endings
  /\ SetLife("close", "invalidated")
  /\ Invalidate(Viewer) /\ UNCHANGED bridge

ClosePop ==
  /\ life.close = "invalidated"
  /\ SetLife("close", "idle")
  /\ bridge' = 0 /\ LifeOnly

\* unregister_terminal_bridge from the read loop: check, pop, invalidate.
EndCheck ==
  /\ life.end = "idle" /\ bridge # 0 /\ "end" \in Endings
  /\ SetLife("end", "checked")
  /\ UNCHANGED bridge /\ LifeOnly

EndPop ==
  /\ life.end = "checked"
  /\ SetLife("end", "popped")
  /\ bridge' = 0 /\ LifeOnly

EndInvalidate ==
  /\ life.end = "popped"
  /\ SetLife("end", "idle")
  /\ Invalidate(Viewer) /\ UNCHANGED bridge

\* start_terminal_backend once its connection is up: pop what is registered,
\* close_terminal_bridge, set_bridge, all under terminal_start_lock.
StartPop ==
  /\ life.start = "idle" /\ created < MaxBridge
  /\ SetLife("start", "popped")
  /\ bridge' = 0 /\ created' = created + 1
  /\ UNCHANGED <<agent, bindings, actions, writer, token, request, send, human,
                 typed, lock, lastInput>>

\* The states of a replaced terminal live on.
Faulty_StartInvalidate ==
  /\ life.start = "popped"
  /\ SetLife("start", "invalidated")
  /\ UNCHANGED <<agent, bindings, actions, writer, token, request, send, human,
                 typed, bridge, created, lock, lastInput>>

StartInvalidate ==
  /\ life.start = "popped"
  /\ SetLife("start", "invalidated")
  /\ Invalidate(Viewer) /\ UNCHANGED bridge

StartSet ==
  /\ life.start = "invalidated"
  /\ SetLife("start", "idle")
  /\ bridge' = created
  /\ LifeOnly

-----------------------------------------------------------------------------
Requested ==
  \E v \in Viewer :
    \/ Admit(v) \/ Refuse(v) \/ Attach(v) \/ Pause(v) \/ Detach(v)
    \/ \E m \in Mode \ {"paused"} : ModeSet(v, m)
    \/ \E m \in Mode \ {"paused", "disabled"} : Resume(v, m)
    \/ \E p \in Privacy : PrivacySet(v, p)
    \/ \E a \in Action, n \in 0..MaxChunks : ViewerPropose(v, a, n)
    \/ \E a \in Action : Approve(v, a) \/ Reject(v, a)

Human == \E v \in Viewer :
  HumanAdmit(v) \/ HumanNote(v) \/ HumanWrite(v) \/ LeaseExpires(v)

External ==
  \E e \in Agent :
    \/ TokenExpires(e) \/ HeartbeatValidate(e) \/ HeartbeatRenew(e)
    \/ RevokeToken(e) \/ RevokeCancel(e)
    \/ SendAdmit(e) \/ SendRefuse(e)
    \/ \E v \in Viewer : Mint(e, v)
    \/ \E a \in Action, n \in 0..MaxChunks : SendPropose(e, a, n)

Write(a) == \/ WriterStart(a) \/ WriterPick(a) \/ WriterLock(a)
            \/ WriterWrite(a) \/ WriterFinal(a)

Terminal == \/ CloseInvalidate \/ ClosePop \/ EndCheck \/ EndPop \/ EndInvalidate
            \/ StartPop \/ StartInvalidate \/ StartSet

Next == Requested \/ Human \/ External \/ Terminal \/ \E a \in Action : Write(a)

Spec == Init /\ [][Next]_vars

\* A thread that can run runs.  Nothing makes a viewer or an agent act.
FairSpec ==
  /\ Spec
  /\ \A a \in Action : WF_vars(Write(a))
  /\ \A v \in Viewer : WF_vars(HumanNote(v)) /\ WF_vars(HumanWrite(v))

-----------------------------------------------------------------------------
(* Correctness.                                                            *)

\* Every variable stays in its type: counters are natural numbers, statuses
\* are statuses of the code, locks are held by threads.
TypeOK ==
  /\ agent \in [Viewer -> AgentRec]
  /\ bindings \in Nat
  /\ actions \in [Action -> ActionRec]
  /\ writer \in [Action -> WriterRec]
  /\ token \in [Agent -> TokenRec]
  /\ request \in [Viewer -> 0..MaxBridge]
  /\ send \in [Agent -> SendRec \cup {NoSend}]
  /\ human \in [Viewer -> HumanRec]
  /\ typed \in Nat
  /\ bridge \in 0..MaxBridge
  /\ created \in 0..MaxBridge
  /\ life \in LifeRec
  /\ lock \in [Bridge -> Viewer \cup Action \cup {Nobody}]
  /\ lastInput \in [Bridge -> Viewer \cup Action \cup {Nobody}]

Running(a) == writer[a].pc \notin {"none", "done"}

\* The human's consent to a is still what it was when a was proposed, and the
\* token of its agent is neither revoked nor invalidated.
Authority(a) ==
  LET s == agent[actions[a].viewer] IN
  /\ Stored(a) /\ ~Paused(s) /\ ContextAllowed(s)
  /\ s.epoch = actions[a].epoch /\ s.pver = actions[a].pver
  /\ actions[a].by \in Agent => token[actions[a].by].status \in {"live", "expired"}
  /\ actions[a].status \in Writable

\* The writer of a runs without authority; n chunks have been dispatched and
\* none is in flight.
Silenced(a, n) ==
  /\ writer[a].pc \notin {"none", "write"} /\ writer[a].written = n
  /\ ~Authority(a)

\* Revocation fences subsequent chunks for good: once the authority of a
\* running action is gone (pause, detach, mode or privacy change, revoked
\* token, closed terminal), nothing gives it back, and no chunk but one
\* already dispatched reaches the terminal, whatever the viewer does next.
RevokedStaysSilent ==
  [][\A a \in Action, n \in 0..MaxChunks :
       Silenced(a, n) => Silenced(a, n)']_vars

\* Input typed by the human into a bridge is never followed by a chunk of an
\* agent while its lease runs: the lease is taken and checked under the
\* bridge's input lock (write_agent_terminal_input, on_ssh_input).
HumanFirst ==
  \A a \in Action :
    writer[a].pc = "write" => agent[actions[a].viewer].lease # writer[a].gen

\* At most one thread is inside a bridge's write at a time.
WritesExclusive ==
  /\ \A a, b \in Action :
       /\ writer[a].pc = "write" /\ writer[b].pc = "write"
       /\ writer[a].gen = writer[b].gen
       => a = b
  /\ \A a \in Action, v \in Viewer :
       ~ /\ writer[a].pc = "write" /\ human[v].pc = "write"
         /\ writer[a].gen = human[v].gen
  /\ \A v, w \in Viewer :
       /\ human[v].pc = "write" /\ human[w].pc = "write"
       /\ human[v].gen = human[w].gen
       => v = w

\* A direct action reaches its bridge as one burst: between its first chunk
\* and its end nothing else is written there (the outer input lock).
DirectBurst ==
  \A a \in Action :
    /\ Running(a) /\ writer[a].outer \in writer[a].into
    => lastInput[writer[a].outer] = a

\* The input of one action never spans two terminals, although every chunk
\* looks its bridge up again and the terminal can be replaced in between.
OneBridgePerAction == \A a \in Action : Cardinality(writer[a].into) <= 1

\* An action proposed in direct mode has authority only while its viewer is
\* in direct mode: no sequence of mode changes, pauses and resumes carries it
\* into a mode that asks for approval.
DirectNeedsDirectMode ==
  \A a \in Action :
    /\ actions[a].status = "direct_pending" /\ Authority(a)
    => agent[actions[a].viewer].mode = "direct_active"

\* No action is written twice or beyond its input, and one that is reported
\* completed was written as a whole.
WrittenOnce ==
  \A a \in Action :
    /\ writer[a].written <= actions[a].chunks
    /\ actions[a].status = "completed" => writer[a].written = actions[a].chunks

\* An outcome is final: a late completion, a second decision or a revocation
\* never overwrites it; the record may only be evicted.
OutcomeIsFinal ==
  [][\A a \in Action : actions[a].status \in EndStatus =>
       actions'[a].status \in {actions[a].status, "evicted"}]_vars

\* The records of a state are bounded, and making room for a proposal never
\* drops an action that is still open (reserve_agent_action_slot).
BoundedRecords == \A v \in Viewer : Cardinality(StoredBy(v)) <= MaxRecords
OpenIsKept ==
  [][\A a \in Action : actions[a].status \in OpenStatus =>
       actions'[a].status # "evicted"]_vars

\* Every writer returns, however locks and closing interleave, also when it
\* holds the lock of one bridge and asks for that of the bridge that replaced it:
\* as an action has one writer, there is no time after which one is always about.
WritersReturn == []<>(\A a \in Action : writer[a].pc \in {"none", "done"})

\* Human input is written in the end, even to a terminal being closed.
HumanServed == \A v \in Viewer : human[v].pc = "wait" ~> human[v].pc = "idle"

\* "Tokens are still invalidated by terminal close" (docs/user-guide.md:836):
\* with no terminal and nothing under way, no token is live.
TokenNeedsTerminal ==
  (bridge = 0 /\ life = [close |-> "idle", end |-> "idle", start |-> "idle"])
    => \A e \in Agent : ~TokenValid(e)

\* "Revocation is never overwritten by late completion"
\* (docs/agent_socket_contract.md:122): the outcome reported for an action
\* that was cancelled is not success.
NoLateSuccess ==
  \A a \in Action : writer[a].result = "ok" => actions[a].status # "failed"

=============================================================================
