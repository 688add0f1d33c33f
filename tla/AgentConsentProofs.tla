-------------------------- MODULE AgentConsentProofs --------------------------
(***************************************************************************)
(* What the consent of a human means for the input of an agent: which      *)
(* actions may still be written, that revoking is for good, and that one   *)
(* action never reaches two terminals.  Theorems about AgentControl for    *)
(* any number of viewers, agents, actions and bridges.                     *)
(***************************************************************************)
EXTENDS AgentControlProofs, FiniteSetTheorems

-----------------------------------------------------------------------------
(* The life of an action's record.                                         *)

\* The ways the record of an action moves on, its proposal left aside.
RecordStep(a) ==
  /\ Kept(a)
  /\ \/ actions'[a].status = actions[a].status
     \/ /\ actions[a].status = "pending_approval" /\ writer[a].pc = "none"
        /\ actions'[a].status \in {"approved", "rejected"}
     \/ actions[a].status \in OpenStatus /\ actions'[a].status = "failed"
     \/ actions[a].status \in Writable /\ actions'[a].status = "completed"
     \/ actions[a].status \in EndStatus /\ actions'[a].status = "evicted"

\* What a proposal puts into the record, and what made it possible.
Fresh(a) ==
  /\ actions[a].status = "unused" /\ writer[a].pc = "none"
  /\ actions'[a].viewer \in Viewer
  /\ LET s == agent[actions'[a].viewer] IN
     /\ s.binding # 0 /\ CanPropose(s)
     /\ actions'[a].binding = s.binding
     /\ actions'[a].epoch = s.epoch /\ actions'[a].pver = s.pver
     /\ actions'[a].status = IF s.mode = "direct_active" THEN "direct_pending"
                             ELSE "pending_approval"
  /\ actions'[a].by \in Agent => TokenValid(actions'[a].by)
  /\ \A b \in Action \ {a} : RecordStep(b)
  /\ \E gone \in Room(actions'[a].viewer) :
       \A b \in gone : actions'[b].status = "evicted"
  /\ UNCHANGED <<agent, token>>

\* The records that had to make room are dropped.
LEMMA RoomMade ==
  ASSUME TypeOK, NEW v \in Viewer, NEW who, NEW g, NEW a \in Action, NEW n,
         Propose(v, who, g, a, n)
  PROVE  \E gone \in Room(v) : \A b \in gone : actions'[b].status = "evicted"
<1> DEFINE new == [viewer |-> v, binding |-> agent[v].binding,
                   epoch |-> agent[v].epoch, pver |-> agent[v].pver,
                   status |-> IF agent[v].mode = "direct_active" THEN "direct_pending"
                              ELSE "pending_approval",
                   by |-> who, chunks |-> n]
<1>1. PICK gone \in Room(v) :
        actions' = [c \in Action |->
          CASE c = a -> new
            [] c \in gone -> [actions[c] EXCEPT !.status = "evicted"]
            [] OTHER -> actions[c]]
  BY DEF Propose
<1>2. ASSUME NEW b \in gone PROVE actions'[b].status = "evicted"
  <2>0. actions[a].status = "unused" BY DEF Propose
  <2>1. b \in StoredBy(v) BY <1>2 DEF Room
  <2>2. b \in Action /\ b # a /\ actions[b] \in ActionRec
    BY <2>0, <2>1 DEF StoredBy, Stored, TypeOK
  <2> HIDE DEF new
  <2>3. actions'[b] = [actions[b] EXCEPT !.status = "evicted"]
    BY <1>1, <1>2, <2>2
  <2> QED BY <2>2, <2>3 DEF ActionRec
<1> QED BY <1>2

LEMMA RecordMoves ==
  ASSUME InputInv, [Next]_vars, NEW a \in Action
  PROVE  RecordStep(a) \/ Fresh(a)
<1>0. TypeOK /\ actions[a] \in ActionRec
  BY DEF InputInv, TypeOK
<1>1. CASE Quiet
  <2>1. SameAction(a) BY <1>1 DEF Quiet
  <2>2. actions[a].status = "pending_approval" => writer[a].pc = "none"
    BY DEF InputInv, ProgressInv
  <2> QED BY <2>1, <2>2 DEF SameAction, RecordStep
<1>2. ASSUME NEW v \in Viewer, NEW who \in Viewer \cup Agent, NEW g \in Bridge,
             NEW b \in Action, NEW n \in 0..MaxChunks, Propose(v, who, g, b, n),
             who \in Agent => TokenValid(who), UNCHANGED <<agent, token>>
      PROVE  RecordStep(a) \/ Fresh(a)
  <2>1. Proposed(v, who, g, b) BY <1>2, ProposeMoves
  <2>2. CASE b = a
    <3>1. \E gone \in Room(v) : \A c \in gone : actions'[c].status = "evicted"
      BY <1>0, <1>2, RoomMade
    <3>2. \A c \in Action \ {a} : RecordStep(c)
      BY <2>1, <2>2 DEF Proposed, RecordStep
    <3> QED BY <1>2, <2>1, <2>2, <3>1, <3>2 DEF Proposed, Fresh, Attached
  <2>3. CASE b # a
    BY <2>1, <2>3 DEF Proposed, RecordStep
  <2> QED BY <2>2, <2>3
<1>3. ASSUME NEW v \in Viewer, NEW b \in Action, Approve(v, b)
      PROVE  RecordStep(a)
  <2>1. /\ actions' = [actions EXCEPT ![b].status = "approved"]
        /\ actions[b].status = "pending_approval" /\ writer[b].pc = "none"
    BY <1>3 DEF Approve, Decide, InputInv, ProgressInv
  <2> QED BY <1>0, <2>1 DEF TypeOK, ActionRec, RecordStep, Kept
<1>4. ASSUME NEW v \in Viewer, HumanAdmit(v) \/ HumanNote(v) \/ HumanWrite(v)
      PROVE  RecordStep(a)
  BY <1>4 DEF HumanAdmit, HumanNote, HumanWrite, RecordStep, Kept
<1>5. ASSUME NEW b \in Action, Write(b)
      PROVE  RecordStep(a)
  <2>1. CASE a # b
    BY <1>5, <2>1, WriteCases DEF RecordStep, Kept
  <2>2. CASE a = b /\ WriterReturned(a)
    <3>1. Kept(a) BY <1>5, <2>2, WriteCases
    <3>2. writer[a].pc \notin {"none", "done"} BY <2>2 DEF WriterReturned
    <3>3. Stored(a) => actions[a].status \in Writable \cup {"failed"}
      BY <1>0, <3>2
      DEF InputInv, ProgressInv, Stored, ActionRec, Status, OpenStatus, EndStatus, Writable
    <3> QED BY <2>2, <3>1, <3>3 DEF WriterReturned, RecordStep, Writable, OpenStatus
  <2>3. CASE WriterAdvanced(b) \/ WriterWrote(b)
    BY <2>3 DEF WriterAdvanced, WriterWrote, RecordStep, Kept
  <2> QED BY <1>5, <2>1, <2>2, <2>3, WriteCases
<1> QED BY <1>0, <1>1, <1>2, <1>3, <1>4, <1>5, StepCases

\* Making room for a proposal never drops an action that is still open, by
\* whatever thread and however full the records are.
THEOREM OpenActionsAreKept == Spec => OpenIsKept
<1>1. InputInv /\ [Next]_vars =>
        \A a \in Action : actions[a].status \in OpenStatus =>
          actions'[a].status # "evicted"
  BY RecordMoves DEF RecordStep, Fresh, OpenStatus, EndStatus
<1> QED BY <1>1, InputInvariant, PTL DEF Spec, OpenIsKept

-----------------------------------------------------------------------------
(* Control states and tokens only go forward.                              *)

\* Paused and the mode say the same.
Shaped(s) == s.paused <=> s.mode = "paused"

\* Within one state the counters grow, and stamp the mode and the privacy.
Onward(s, t) ==
  /\ t.binding = s.binding /\ s.epoch <= t.epoch /\ s.pver <= t.pver
  /\ t.epoch = s.epoch => t.mode = s.mode
  /\ t.pver = s.pver => t.privacy = s.privacy

\* A state moves on, goes, or is a new one under a number never used before.
StateStep(v) ==
  \/ Onward(agent[v], agent'[v])
  \/ agent'[v] = NoState
  \/ agent'[v].binding = bindings + 1 /\ bindings' = bindings + 1

StatesStep ==
  /\ bindings <= bindings'
  /\ \A v \in Viewer :
       StateStep(v) /\ (Shaped(agent[v]) => Shaped(agent'[v]))

LEMMA OnwardSame ==
  ASSUME NEW s \in AgentRec
  PROVE  Onward(s, s)
BY DEF Onward, AgentRec

\* The updates that the handlers are built from.
LEMMA GateOnward ==
  ASSUME NEW s \in AgentRec
  PROVE  Onward(s, ClosedGate(s)) /\ Shaped(ClosedGate(s))
BY DEF ClosedGate, Bump, WithPrivacy, Onward, Shaped, AgentRec

LEMMA PrivacyOnward ==
  ASSUME NEW s \in AgentRec, NEW p \in Privacy
  PROVE  LET t == WithPrivacy(s, p) IN Onward(s, t) /\ (Shaped(s) => Shaped(t))
BY DEF WithPrivacy, Onward, Shaped, AgentRec

LEMMA ModeOnward ==
  ASSUME NEW s \in AgentRec, NEW m \in Mode \ {"paused"}
  PROVE  /\ LET t == Bump([s EXCEPT !.mode = m]) IN
            Onward(s, t) /\ (Shaped(s) /\ ~s.paused => Shaped(t))
         /\ LET t == [IF m # s.mode THEN Bump(s) ELSE s
                      EXCEPT !.mode = m, !.paused = FALSE] IN
            Onward(s, t) /\ Shaped(t)
         /\ LET t == Bump(WithPrivacy([s EXCEPT !.paused = FALSE, !.mode = m], "normal")) IN
            Onward(s, t) /\ Shaped(t)
<1>1. LET t == Bump([s EXCEPT !.mode = m]) IN
      Onward(s, t) /\ (Shaped(s) /\ ~s.paused => Shaped(t))
  BY DEF Bump, Onward, Shaped, AgentRec
<1>2. LET t == [IF m # s.mode THEN Bump(s) ELSE s
                EXCEPT !.mode = m, !.paused = FALSE] IN
      Onward(s, t) /\ Shaped(t)
  BY DEF Bump, Onward, Shaped, AgentRec
<1>3. LET t == Bump(WithPrivacy([s EXCEPT !.paused = FALSE, !.mode = m], "normal")) IN
      Onward(s, t) /\ Shaped(t)
  BY DEF Bump, WithPrivacy, Onward, Shaped, AgentRec
<1> QED BY <1>1, <1>2, <1>3

LEMMA ControlStep ==
  ASSUME TypeOK, NEW v \in Viewer, NEW s, NEW A, Control(v, s, A),
         Onward(StateOf(v), s), Shaped(StateOf(v)) => Shaped(s)
  PROVE  StatesStep
<1>1. /\ \A w \in Viewer \ {v} : agent'[w] = agent[w]
      /\ agent'[v] = s /\ bindings \in Nat
      /\ bindings' = IF Attached(v) THEN bindings ELSE bindings + 1
  BY DEF Control, CountBinding, TypeOK
<1>2. ASSUME NEW w \in Viewer \ {v}
      PROVE  StateStep(w) /\ (Shaped(agent[w]) => Shaped(agent'[w]))
  <2>1. agent[w] \in AgentRec BY DEF TypeOK
  <2> QED BY <1>1, <2>1, OnwardSame DEF StateStep
<1>3. CASE Attached(v)
  BY <1>1, <1>2, <1>3 DEF StatesStep, StateStep, StateOf
<1>4. CASE ~Attached(v)
  <2>1. s.binding = bindings + 1 /\ Shaped(s)
    BY <1>4 DEF StateOf, NewState, Onward, Shaped
  <2> QED BY <1>1, <1>2, <1>4, <2>1 DEF StatesStep, StateStep
<1> QED BY <1>3, <1>4

\* No step but a control request, a detach, an end of the terminal or a lease
\* changes the state of a viewer.
LEMMA StateMoves ==
  ASSUME TypeOK, [Next]_vars
  PROVE  StatesStep
<1>a. ASSUME UNCHANGED <<agent, bindings>> PROVE StatesStep
  <2>1. \A v \in Viewer : agent[v] \in AgentRec BY DEF TypeOK
  <2> QED BY <1>a, <2>1, OnwardSame DEF TypeOK, StatesStep, StateStep
<1>b. ASSUME NEW V, Invalidate(V) PROVE StatesStep
  <2>1. \A v \in Viewer : agent[v] \in AgentRec /\ agent'[v] \in {agent[v], NoState}
    BY <1>b DEF TypeOK, Invalidate
  <2>2. Shaped(NoState) BY DEF Shaped, NoState, NewState
  <2>3. bindings' = bindings /\ bindings \in Nat BY <1>b DEF Invalidate, TypeOK
  <2> HIDE DEF NoState
  <2> QED BY <2>1, <2>2, <2>3, OnwardSame DEF StatesStep, StateStep
<1>c. ASSUME UNCHANGED bindings,
             \A v \in Viewer : \E g \in 0..MaxBridge : agent'[v] = [agent[v] EXCEPT !.lease = g]
      PROVE  StatesStep
  <2>1. ASSUME NEW v \in Viewer
        PROVE  Onward(agent[v], agent'[v]) /\ (Shaped(agent[v]) => Shaped(agent'[v]))
    <3>1. PICK g \in 0..MaxBridge : agent'[v] = [agent[v] EXCEPT !.lease = g]
      BY <1>c
    <3>2. agent[v] \in AgentRec BY DEF TypeOK
    <3> QED BY <3>1, <3>2 DEF AgentRec, Onward, Shaped
  <2> QED BY <1>c, <2>1 DEF TypeOK, StatesStep, StateStep
<1>1. CASE UNCHANGED vars
  BY <1>1, <1>a DEF vars
<1>2. ASSUME NEW v \in Viewer, Attach(v) PROVE StatesStep
  <2> DEFINE s == StateOf(v)
             t == Bump([s EXCEPT !.mode = "observe"])
  <2>1. s \in AgentRec BY StateOfType
  <2>2. Onward(s, t) /\ (Shaped(s) /\ ~s.paused => Shaped(t)) /\ Onward(s, s)
    BY <2>1, ModeOnward, OnwardSame DEF Mode
  <2>3. \/ s.mode = "disabled" /\ Control(v, t, {})
        \/ Control(v, s, {})
    BY <1>2 DEF Attach
  <2>4. s.mode = "disabled" /\ Shaped(s) => ~s.paused
    BY DEF Shaped
  <2> HIDE DEF s, t
  <2> QED BY <2>2, <2>3, <2>4, ControlStep DEF s
<1>3. ASSUME NEW v \in Viewer, NEW m \in Mode \ {"paused"}, ModeSet(v, m)
      PROVE  StatesStep
  <2> DEFINE s == StateOf(v)
             t == [IF m # s.mode THEN Bump(s) ELSE s EXCEPT !.mode = m, !.paused = FALSE]
  <2>1. s \in AgentRec BY StateOfType
  <2>2. Onward(s, t) /\ Shaped(t) BY <2>1, ModeOnward
  <2>3. Control(v, t, IF m # s.mode THEN OpenBy(v) ELSE {}) BY <1>3 DEF ModeSet
  <2> HIDE DEF t
  <2> QED BY <2>2, <2>3, ControlStep
<1>4. ASSUME NEW v \in Viewer, Pause(v) PROVE StatesStep
  <2> DEFINE s == StateOf(v)
  <2>1. Onward(s, ClosedGate(s)) /\ Shaped(ClosedGate(s))
    BY StateOfType, GateOnward
  <2> QED BY <1>4, <2>1, ControlStep DEF Pause
<1>5. ASSUME NEW v \in Viewer, NEW m \in Mode \ {"paused", "disabled"}, Resume(v, m)
      PROVE  StatesStep
  <2> DEFINE s == StateOf(v)
             t == Bump(WithPrivacy([s EXCEPT !.paused = FALSE, !.mode = m], "normal"))
  <2>1. s \in AgentRec BY StateOfType
  <2>2. Onward(s, t) /\ Shaped(t) BY <2>1, ModeOnward
  <2>3. Control(v, t, {}) BY <1>5 DEF Resume
  <2> HIDE DEF t
  <2> QED BY <2>2, <2>3, ControlStep
<1>6. ASSUME NEW v \in Viewer, NEW p \in Privacy, PrivacySet(v, p) PROVE StatesStep
  <2> DEFINE s == StateOf(v)
             t == WithPrivacy(s, p)
  <2>1. s \in AgentRec BY StateOfType
  <2>2. /\ Onward(s, ClosedGate(s)) /\ Shaped(ClosedGate(s))
        /\ Onward(s, t) /\ (Shaped(s) => Shaped(t))
    BY <2>1, GateOnward, PrivacyOnward
  <2>3. \/ Control(v, ClosedGate(s), OpenBy(v))
        \/ Control(v, t, IF p # s.privacy THEN OpenBy(v) ELSE {})
    BY <1>6 DEF PrivacySet
  <2> HIDE DEF t
  <2> QED BY <2>2, <2>3, ControlStep
<1>7. ASSUME NEW v \in Viewer, Detach(v) PROVE StatesStep
  BY <1>7, <1>b DEF Detach
<1>8. CASE Requested
  <2>1. ASSUME NEW v \in Viewer,
               \/ Admit(v) \/ Refuse(v)
               \/ \E a \in Action, n \in 0..MaxChunks : ViewerPropose(v, a, n)
               \/ \E a \in Action : Approve(v, a) \/ Reject(v, a)
        PROVE  UNCHANGED agent /\ (UNCHANGED bindings \/ Refuse(v))
    BY <2>1 DEF Admit, Refuse, ViewerPropose, Approve, Reject, Decide
  <2>2. ASSUME NEW v \in Viewer, Refuse(v) PROVE UNCHANGED bindings
    BY <2>2 DEF Refuse
  <2> QED
    BY <1>8, <1>a, <1>2, <1>3, <1>4, <1>5, <1>6, <1>7, <2>1, <2>2 DEF Requested
<1>9. CASE Human
  <2>1. ASSUME NEW v \in Viewer, HumanAdmit(v) \/ HumanWrite(v)
        PROVE  UNCHANGED <<agent, bindings>>
    BY <2>1 DEF HumanAdmit, HumanWrite
  <2>2. ASSUME NEW v \in Viewer, HumanNote(v) \/ LeaseExpires(v)
        PROVE  StatesStep
    <3>1. \A w \in Viewer : \E g \in 0..MaxBridge :
            agent'[w] = [agent[w] EXCEPT !.lease = g]
      <4> SUFFICES ASSUME NEW w \in Viewer
                   PROVE  \E g \in 0..MaxBridge : agent'[w] = [agent[w] EXCEPT !.lease = g]
        OBVIOUS
      <4>1. /\ agent[w].lease \in 0..MaxBridge /\ human[v].gen \in 0..MaxBridge
            /\ 0 \in 0..MaxBridge
            /\ agent[w] = [agent[w] EXCEPT !.lease = agent[w].lease]
        BY BoundsAssumption DEF TypeOK, AgentRec, HumanRec
      <4>2. CASE HumanNote(v)
        BY <4>1, <4>2 DEF HumanNote
      <4>3. CASE LeaseExpires(v)
        BY <4>1, <4>3 DEF LeaseExpires, TypeOK
      <4> QED BY <2>2, <4>2, <4>3
    <3>2. UNCHANGED bindings BY <2>2 DEF HumanNote, LeaseExpires
    <3> QED BY <1>c, <3>1, <3>2
  <2> QED BY <1>9, <1>a, <2>1, <2>2 DEF Human
<1>10. CASE External
  <2>1. UNCHANGED <<agent, bindings>>
    BY <1>10 DEF External, TokenExpires, HeartbeatValidate, HeartbeatRenew, RevokeToken,
       RevokeCancel, SendAdmit, SendRefuse, SendPropose, SendDone, Mint, SetToken
  <2> QED BY <1>a, <2>1
<1>11. CASE Terminal
  BY <1>11, <1>a, <1>b
  DEF Terminal, CloseInvalidate, ClosePop, EndCheck, EndPop, EndInvalidate,
      StartPop, StartInvalidate, StartSet, LifeOnly
<1>12. ASSUME NEW a \in Action, Write(a) PROVE StatesStep
  BY <1>12, <1>a
  DEF Write, WriterStart, WriterPick, WriterLock, WriterWrite, WriterFinal, WriterIdle
<1> QED BY <1>1, <1>8, <1>9, <1>10, <1>11, <1>12 DEF Next

\* A token is minted once, and once revoked or dead it stays so.
TokenStep(e) ==
  /\ token'[e].status \in {"live", "expired"}
       => token[e].status \in {"none", "live", "expired"}
  /\ token[e].status # "none" => token'[e].status # "none"

LEMMA TokenMoves ==
  ASSUME TypeOK, [Next]_vars, NEW e \in Agent
  PROVE  TokenStep(e)
<1>1. ASSUME UNCHANGED token PROVE TokenStep(e)
  BY <1>1 DEF TokenStep
<1>2. ASSUME NEW V, Invalidate(V) PROVE TokenStep(e)
  BY <1>2 DEF Invalidate, TypeOK, TokenRec, TokenStep
<1>3. CASE External
  <2>1. PICK f \in Agent :
          \/ TokenExpires(f) \/ HeartbeatValidate(f) \/ HeartbeatRenew(f)
          \/ RevokeToken(f) \/ RevokeCancel(f)
          \/ UNCHANGED token
          \/ \E v \in Viewer : Mint(f, v)
    BY <1>3 DEF External, SendAdmit, SendRefuse, SendDone, SendPropose
  <2>2. CASE e # f
    BY <1>1, <2>1, <2>2 DEF TokenExpires, HeartbeatValidate, HeartbeatRenew, RevokeToken,
       RevokeCancel, Mint, SetToken, TypeOK, TokenStep
  <2>3. CASE e = f
    <3>1. CASE TokenExpires(e) \/ HeartbeatValidate(e) \/ RevokeToken(e) \/ RevokeCancel(e)
      BY <3>1 DEF TokenExpires, HeartbeatValidate, RevokeToken, RevokeCancel, SetToken,
         TokenValid, TypeOK, TokenRec, TokenStep
    <3>2. CASE HeartbeatRenew(e)
      <4> DEFINE u == [token[e] EXCEPT !.beat = FALSE]
                 k == IF token[e].status = "expired" THEN "live" ELSE token[e].status
      <4>1. token'[e] = [u EXCEPT !.status = k]
        BY <3>2 DEF HeartbeatRenew, SetToken, TypeOK
      <4>2. u \in TokenRec BY DEF TypeOK, TokenRec
      <4> HIDE DEF u
      <4>3. token'[e].status = k BY <4>1, <4>2 DEF TokenRec
      <4> QED BY <4>3 DEF TokenStep
    <3>3. CASE \E v \in Viewer : Mint(e, v)
      BY <3>3 DEF Mint, SetToken, TypeOK, TokenStep
    <3> QED BY <1>1, <2>1, <2>3, <3>1, <3>2, <3>3
  <2> QED BY <2>2, <2>3
<1>4. CASE Requested
  <2>1. ASSUME NEW v \in Viewer, Detach(v) PROVE TokenStep(e)
    BY <1>2, <2>1 DEF Detach
  <2>2. ASSUME NEW v \in Viewer, NEW s, NEW A, Control(v, s, A) PROVE UNCHANGED token
    BY <2>2 DEF Control
  <2>3. ASSUME NEW v \in Viewer, Attach(v) \/ Pause(v) PROVE UNCHANGED token
    BY <2>2, <2>3 DEF Attach, Pause
  <2>4. ASSUME NEW v \in Viewer, NEW m, ModeSet(v, m) \/ Resume(v, m) PROVE UNCHANGED token
    BY <2>2, <2>4 DEF ModeSet, Resume
  <2>5. ASSUME NEW v \in Viewer, NEW p, PrivacySet(v, p) PROVE UNCHANGED token
    BY <2>2, <2>5 DEF PrivacySet
  <2>6. ASSUME NEW v \in Viewer,
               \/ Admit(v) \/ Refuse(v)
               \/ \E a \in Action, n \in 0..MaxChunks : ViewerPropose(v, a, n)
               \/ \E a \in Action : Approve(v, a) \/ Reject(v, a)
        PROVE  UNCHANGED token
    BY <2>6 DEF Admit, Refuse, ViewerPropose, Approve, Reject, Decide
  <2> QED
    BY <1>1, <1>4, <2>1, <2>3, <2>4, <2>5, <2>6 DEF Requested
<1>5. CASE Human
  BY <1>1, <1>5 DEF Human, HumanAdmit, HumanNote, HumanWrite, LeaseExpires
<1>6. CASE Terminal
  BY <1>1, <1>2, <1>6
  DEF Terminal, CloseInvalidate, ClosePop, EndCheck, EndPop, EndInvalidate,
      StartPop, StartInvalidate, StartSet, LifeOnly
<1>7. ASSUME NEW a \in Action, Write(a) PROVE TokenStep(e)
  BY <1>1, <1>7
  DEF Write, WriterStart, WriterPick, WriterLock, WriterWrite, WriterFinal, WriterIdle
<1>8. CASE UNCHANGED vars
  BY <1>1, <1>8 DEF vars
<1> QED BY <1>3, <1>4, <1>5, <1>6, <1>7, <1>8 DEF Next

-----------------------------------------------------------------------------
(* Consent: what the stamp of an action says about the state it is kept in. *)

\* The stamp is never ahead of the state, and one that is up to date stands for
\* the consent under which the action was proposed.
Stamped(a) ==
  LET s == agent[actions[a].viewer] IN
  /\ actions[a].epoch <= s.epoch /\ actions[a].pver <= s.pver
  /\ actions[a].epoch = s.epoch =>
       ~Paused(s) /\ (actions[a].status = "direct_pending" => s.mode = "direct_active")
  /\ actions[a].pver = s.pver => ContextAllowed(s)

ConsentInv ==
  /\ \A v \in Viewer : agent[v].binding <= bindings /\ Shaped(agent[v])
  /\ \A a \in Action : actions[a].status # "unused" =>
       /\ actions[a].viewer \in Viewer /\ actions[a].binding <= bindings
       /\ actions[a].by \in Agent => token[actions[a].by].status # "none"
  /\ \A a \in Action : Stored(a) => Stamped(a)

\* An action is in a state it was not in before only if it is being proposed.
LEMMA StoredBefore ==
  ASSUME InputInv, ConsentInv, [Next]_vars, NEW a \in Action, Stored(a)', ~Fresh(a)
  PROVE  /\ Stored(a) /\ RecordStep(a)
         /\ actions[a].viewer \in Viewer
         /\ Onward(agent[actions[a].viewer], agent'[actions[a].viewer])
<1> DEFINE v == actions[a].viewer
<1>1. RecordStep(a) BY RecordMoves
<1>2. actions[a].status \notin {"unused", "evicted"}
  BY <1>1 DEF RecordStep, Stored, OpenStatus, EndStatus, Writable
<1>3. v \in Viewer /\ actions[a].binding <= bindings
  BY <1>2 DEF ConsentInv
<1>4. /\ agent'[v].binding = actions[a].binding /\ agent'[v].binding # 0
  BY <1>1 DEF RecordStep, Kept, Stored, Attached
<1>5. TypeOK /\ StatesStep BY StateMoves DEF InputInv
<1>6. bindings \in Nat /\ actions[a].binding \in Nat
  BY <1>5 DEF TypeOK, ActionRec
<1>7. Onward(agent[v], agent'[v])
  <2>1. agent'[v] # NoState BY <1>4 DEF NoState, NewState
  <2>2. agent'[v].binding # bindings + 1 BY <1>3, <1>4, <1>6
  <2> QED BY <1>3, <1>5, <2>1, <2>2 DEF StatesStep, StateStep
<1>8. Stored(a) BY <1>2, <1>4, <1>7 DEF Onward, Stored, Attached
<1> QED BY <1>1, <1>3, <1>7, <1>8

LEMMA ConsentStep ==
  ASSUME InputInv, ConsentInv, [Next]_vars
  PROVE  ConsentInv'
<1>0. TypeOK /\ TypeOK' /\ StatesStep BY TypeStep, StateMoves DEF InputInv
<1>1. ASSUME NEW v \in Viewer
      PROVE  agent'[v].binding <= bindings' /\ Shaped(agent'[v])
  <2>1. bindings \in Nat /\ bindings' \in Nat /\ agent[v].binding \in Nat
    BY <1>0 DEF TypeOK, AgentRec
  <2>2. bindings <= bindings' /\ StateStep(v) /\ Shaped(agent'[v])
    BY <1>0 DEF StatesStep, ConsentInv
  <2>3. NoState.binding = 0 BY DEF NoState, NewState
  <2> QED BY <2>1, <2>2, <2>3 DEF StateStep, Onward, ConsentInv
<1>2. ASSUME NEW a \in Action, actions'[a].status # "unused"
      PROVE  /\ actions'[a].viewer \in Viewer /\ actions'[a].binding <= bindings'
             /\ actions'[a].by \in Agent => token'[actions'[a].by].status # "none"
  <2>1. bindings \in Nat /\ bindings' \in Nat /\ bindings <= bindings'
    BY <1>0 DEF TypeOK, StatesStep
  <2>2. CASE Fresh(a)
    <3>1. agent[actions'[a].viewer].binding <= bindings
          /\ agent[actions'[a].viewer].binding \in Nat
      BY <2>2, <1>0 DEF Fresh, ConsentInv, TypeOK, AgentRec
    <3> QED BY <2>1, <2>2, <3>1 DEF Fresh, TokenValid
  <2>3. CASE RecordStep(a)
    <3>1. actions[a].status # "unused" /\ actions[a].binding \in Nat
      BY <1>0, <1>2, <2>3
      DEF RecordStep, OpenStatus, EndStatus, Writable, TypeOK, ActionRec
    <3>2. actions[a].by \in Agent => TokenStep(actions[a].by)
      BY <1>0, TokenMoves
    <3> QED BY <2>1, <2>3, <3>1, <3>2 DEF RecordStep, Kept, ConsentInv, TokenStep
  <2> QED BY <2>2, <2>3, RecordMoves
<1>3. ASSUME NEW a \in Action, Stored(a)'
      PROVE  Stamped(a)'
  <2>1. CASE Fresh(a)
    <3> DEFINE s == agent[actions'[a].viewer]
    <3>1. s \in AgentRec BY <1>0, <2>1 DEF Fresh, TypeOK
    <3>2. s.epoch <= s.epoch /\ s.pver <= s.pver BY <3>1 DEF AgentRec
    <3>3. agent'[actions'[a].viewer] = s BY <2>1 DEF Fresh
    <3> QED BY <2>1, <3>2, <3>3 DEF Fresh, Stamped, CanPropose
  <2>2. CASE ~Fresh(a)
    <3> DEFINE s == agent[actions[a].viewer]
               t == agent'[actions[a].viewer]
    <3>1. Stored(a) /\ RecordStep(a) /\ actions[a].viewer \in Viewer /\ Onward(s, t)
      BY <1>3, <2>2, StoredBefore
    <3>2. Stamped(a) /\ Shaped(s) /\ Shaped(t)
      BY <1>1, <3>1 DEF ConsentInv
    <3>3. /\ s.epoch \in Nat /\ s.pver \in Nat /\ t.epoch \in Nat /\ t.pver \in Nat
          /\ actions[a].epoch \in Nat /\ actions[a].pver \in Nat
      BY <1>0, <3>1 DEF TypeOK, AgentRec, ActionRec
    <3>4. actions'[a].status = "direct_pending" => actions[a].status = "direct_pending"
      BY <3>1 DEF RecordStep
    <3>5. actions[a].epoch = t.epoch => t.mode = s.mode /\ actions[a].epoch = s.epoch
      BY <3>1, <3>2, <3>3 DEF Onward, Stamped
    <3>6. actions[a].pver = t.pver => t.privacy = s.privacy /\ actions[a].pver = s.pver
      BY <3>1, <3>2, <3>3 DEF Onward, Stamped
    <3>7. actions[a].epoch <= t.epoch /\ actions[a].pver <= t.pver
      BY <3>1, <3>2, <3>3 DEF Onward, Stamped
    <3>8. /\ actions'[a].viewer = actions[a].viewer /\ actions'[a].epoch = actions[a].epoch
          /\ actions'[a].pver = actions[a].pver
      BY <3>1 DEF RecordStep, Kept
    <3> QED
      BY <3>2, <3>4, <3>5, <3>6, <3>7, <3>8 DEF Stamped, Shaped, Paused, ContextAllowed
  <2> QED BY <2>1, <2>2
<1> QED BY <1>1, <1>2, <1>3 DEF ConsentInv

LEMMA ConsentInvariant == Spec => [](InputInv /\ ConsentInv)
<1>1. Init => ConsentInv
  <2> SUFFICES ASSUME Init PROVE ConsentInv
    OBVIOUS
  <2>1. /\ \A v \in Viewer : agent[v] = NoState
        /\ \A a \in Action : actions[a] = NoAction
        /\ bindings = 0
    BY DEF Init
  <2>2. NoAction.status = "unused" /\ NoState.binding = 0 /\ Shaped(NoState)
    BY DEF NoAction, NoState, NewState, Shaped
  <2> HIDE DEF NoState
  <2> QED BY <2>1, <2>2 DEF ConsentInv, Stored
<1>2. InputInv /\ ConsentInv /\ [Next]_vars => ConsentInv'
  BY ConsentStep
<1> QED BY <1>1, <1>2, InputInvariant, PTL DEF Spec

\* An action proposed in direct mode has authority only in direct mode: its
\* stamp is up to date, and the mode never changes without a new epoch.
THEOREM DirectStaysDirect == Spec => []DirectNeedsDirectMode
<1>1. ConsentInv => DirectNeedsDirectMode
  BY DEF ConsentInv, Stamped, Authority, DirectNeedsDirectMode
<1> QED BY <1>1, ConsentInvariant, PTL

-----------------------------------------------------------------------------
(* The records of a state.                                                 *)

LEMMA StoredGrows ==
  ASSUME InputInv, ConsentInv, [Next]_vars, NEW v \in Viewer
  PROVE  \/ StoredBy(v)' \subseteq StoredBy(v)
         \/ \E a \in Action, gone \in Room(v) :
              StoredBy(v)' \subseteq (StoredBy(v) \ gone) \cup {a}
<1>1. ASSUME NEW b \in StoredBy(v)', ~Fresh(b) PROVE b \in StoredBy(v)
  <2>1. b \in Action /\ Stored(b)' /\ actions'[b].viewer = v
    BY <1>1 DEF StoredBy
  <2> QED BY <1>1, <2>1, StoredBefore DEF StoredBy, RecordStep, Kept
<1>2. CASE \E a \in StoredBy(v)' : Fresh(a)
  <2>1. PICK a \in StoredBy(v)' : Fresh(a) BY <1>2
  <2>2. a \in Action /\ actions'[a].viewer = v BY <2>1 DEF StoredBy
  <2>3. PICK gone \in Room(v) : \A b \in gone : actions'[b].status = "evicted"
    BY <2>1, <2>2 DEF Fresh
  <2>4. ASSUME NEW b \in StoredBy(v)', b # a PROVE b \in StoredBy(v) \ gone
    <3>1. b \in Action /\ actions'[b].status \notin {"unused", "evicted"}
      BY <2>4 DEF StoredBy, Stored
    <3>2. RecordStep(b) BY <2>1, <2>4, <3>1 DEF Fresh
    <3>3. ~Fresh(b)
      BY <3>1, <3>2 DEF Fresh, RecordStep, OpenStatus, EndStatus, Writable
    <3> QED BY <1>1, <2>3, <2>4, <3>1, <3>3
  <2> QED BY <2>2, <2>4
<1> QED BY <1>1, <1>2

RecordsInv ==
  \A v \in Viewer :
    IsFiniteSet(StoredBy(v)) /\ Cardinality(StoredBy(v)) <= MaxRecords

\* The records of a state never exceed their limit, whoever proposes and
\* whatever else happens to the state meanwhile (reserve_agent_action_slot).
THEOREM RecordsAreBounded == Spec => []BoundedRecords
<1>1. Init => RecordsInv
  <2> SUFFICES ASSUME Init, NEW v \in Viewer
               PROVE  IsFiniteSet(StoredBy(v)) /\ Cardinality(StoredBy(v)) <= MaxRecords
    BY DEF RecordsInv
  <2>1. StoredBy(v) = {} BY DEF Init, NoAction, StoredBy, Stored
  <2> QED BY <2>1, FS_EmptySet, BoundsAssumption
<1>2. ASSUME InputInv, ConsentInv, RecordsInv, [Next]_vars, NEW v \in Viewer
      PROVE  IsFiniteSet(StoredBy(v)') /\ Cardinality(StoredBy(v)') <= MaxRecords
  <2> DEFINE S == StoredBy(v)
             T == StoredBy(v)'
  <2>0. IsFiniteSet(S) /\ Cardinality(S) <= MaxRecords /\ Cardinality(S) \in Nat
    BY <1>2, FS_CardinalityType DEF RecordsInv
  <2>1. ASSUME NEW U, IsFiniteSet(U), Cardinality(U) <= MaxRecords, T \subseteq U
        PROVE  IsFiniteSet(T) /\ Cardinality(T) <= MaxRecords
    <3>1. IsFiniteSet(T) /\ Cardinality(T) <= Cardinality(U)
      BY <2>1, FS_Subset
    <3>2. Cardinality(T) \in Nat /\ Cardinality(U) \in Nat
      BY <2>1, <3>1, FS_CardinalityType
    <3> HIDE DEF T
    <3> QED BY <2>1, <3>1, <3>2, BoundsAssumption
  <2>2. CASE T \subseteq S
    BY <2>0, <2>1, <2>2
  <2>3. ASSUME NEW a \in Action, NEW gone \in Room(v), T \subseteq (S \ gone) \cup {a}
        PROVE  IsFiniteSet(T) /\ Cardinality(T) <= MaxRecords
    <3> DEFINE U == (S \ gone) \cup {a}
    <3>1. IsFiniteSet(S \ gone) /\ Cardinality(S \ gone) \in Nat
          /\ Cardinality(S \ gone) + 1 <= MaxRecords
      <4>1. CASE Cardinality(S) < MaxRecords /\ gone = {}
        <5>1. S \ gone = S BY <4>1
        <5> HIDE DEF S
        <5> QED BY <2>0, <4>1, <5>1, BoundsAssumption
      <4>2. CASE ~(Cardinality(S) < MaxRecords)
        <5>1. PICK b \in S : gone = {b} BY <4>2 DEF Room
        <5>2. IsFiniteSet(S \ {b}) /\ Cardinality(S \ {b}) = Cardinality(S) - 1
          BY <2>0, <5>1, FS_RemoveElement
        <5>3. Cardinality(S \ {b}) \in Nat BY <5>2, FS_CardinalityType
        <5> HIDE DEF S
        <5> QED BY <2>0, <5>1, <5>2, <5>3, BoundsAssumption
      <4> QED BY <4>1, <4>2 DEF Room
    <3>2. /\ IsFiniteSet(U)
          /\ Cardinality(U) = IF a \in S \ gone THEN Cardinality(S \ gone)
                              ELSE Cardinality(S \ gone) + 1
      BY <3>1, FS_AddElement
    <3>3. Cardinality(U) <= MaxRecords
      <4> HIDE DEF S, U
      <4> QED BY <3>1, <3>2, BoundsAssumption
    <3> QED BY <2>1, <2>3, <3>2, <3>3
  <2> QED BY <1>2, <2>2, <2>3, StoredGrows
<1>3. InputInv /\ ConsentInv /\ RecordsInv /\ [Next]_vars => RecordsInv'
  BY <1>2 DEF RecordsInv
<1>4. RecordsInv => BoundedRecords
  BY DEF RecordsInv, BoundedRecords
<1> QED BY <1>1, <1>3, <1>4, ConsentInvariant, PTL DEF Spec

-----------------------------------------------------------------------------
(* Revocation.                                                             *)

\* No step gives authority to an action whose writer has been started.
LEMMA AuthorityBefore ==
  ASSUME InputInv, ConsentInv, [Next]_vars, NEW a \in Action, writer[a].pc # "none",
         Authority(a)'
  PROVE  Authority(a)
<1> DEFINE s == agent[actions[a].viewer]
           t == agent'[actions[a].viewer]
<1>0. TypeOK /\ TypeOK' BY TypeStep DEF InputInv
<1>1. ~Fresh(a) BY DEF Fresh
<1>2. Stored(a) /\ RecordStep(a) /\ actions[a].viewer \in Viewer /\ Onward(s, t)
  BY <1>1, StoredBefore DEF Authority
<1>3. Stamped(a) BY <1>2 DEF ConsentInv
<1>4. /\ actions[a].epoch = t.epoch /\ actions[a].pver = t.pver
      /\ actions'[a].status \in Writable
      /\ actions[a].by \in Agent => token'[actions[a].by].status \in {"live", "expired"}
  BY <1>2 DEF Authority, RecordStep, Kept
<1>5. actions[a].epoch = s.epoch /\ actions[a].pver = s.pver
  <2>1. /\ s.epoch \in Nat /\ s.pver \in Nat /\ t.epoch \in Nat /\ t.pver \in Nat
    BY <1>0, <1>2 DEF TypeOK, AgentRec
  <2> QED BY <1>2, <1>3, <1>4, <2>1 DEF Onward, Stamped
<1>6. actions[a].status \in Writable
  BY <1>2, <1>4 DEF RecordStep, Writable, EndStatus
<1>7. actions[a].by \in Agent => token[actions[a].by].status \in {"live", "expired"}
  <2>1. actions[a].status # "unused" BY <1>6 DEF Writable
  <2> QED BY <1>0, <1>4, <2>1, TokenMoves DEF TokenStep, ConsentInv
<1> QED BY <1>2, <1>3, <1>5, <1>6, <1>7 DEF Authority, Stamped

\* A check that succeeds shows authority.
LEMMA AllowedAuthority ==
  ASSUME NEW a \in Action, Allowed(a)
  PROVE  Authority(a)
BY DEF Allowed, Fenced, Rejected, Authority, CredentialValid, TokenValid

LEMMA SilencedStep ==
  ASSUME InputInv, ConsentInv, [Next]_vars, NEW a \in Action, NEW n, Silenced(a, n)
  PROVE  Silenced(a, n)'
<1>1. ~Authority(a)' BY AuthorityBefore DEF Silenced
<1>2. writer'[a].pc \notin {"none", "write"} /\ writer'[a].written = n
  <2>0. TypeOK /\ writer[a] \in WriterRec BY DEF InputInv, TypeOK
  <2>1. CASE UNCHANGED writer
    BY <2>1 DEF Silenced
  <2>2. ASSUME NEW v \in Viewer, NEW who \in Viewer \cup Agent, NEW g \in Bridge,
               NEW b \in Action, NEW m \in 0..MaxChunks, Propose(v, who, g, b, m)
        PROVE  writer'[a] = writer[a]
    <3>1. Proposed(v, who, g, b) BY <2>2, ProposeMoves
    <3> QED BY <3>1 DEF Proposed, Silenced
  <2>3. ASSUME NEW v \in Viewer, NEW b \in Action, Approve(v, b)
        PROVE  writer'[a] = writer[a]
    <3>1. writer' = [writer EXCEPT ![b].pc = "start"] /\ writer[b].pc = "none"
      BY <2>3 DEF Approve, Decide, InputInv, ProgressInv
    <3> QED BY <2>0, <3>1 DEF Silenced, TypeOK
  <2>4. ASSUME NEW b \in Action, b # a, Write(b) PROVE writer'[a] = writer[a]
    BY <2>4, WriteCases
  <2>5. CASE Write(a)
    <3>1. WriterReturned(a) \/ WriterAdvanced(a) \/ WriterWrote(a)
      BY <2>5, WriteCases
    <3>2. ~Allowed(a) BY AllowedAuthority DEF Silenced
    <3> QED
      BY <3>1, <3>2 DEF WriterReturned, WriterAdvanced, WriterWrote, Moved, Silenced
  <2>6. ASSUME NEW v \in Viewer, HumanAdmit(v) \/ HumanNote(v) \/ HumanWrite(v)
        PROVE  UNCHANGED writer
    BY <2>6 DEF HumanAdmit, HumanNote, HumanWrite
  <2>7. Quiet => UNCHANGED writer BY DEF Quiet
  <2> QED
    BY <2>0, <2>1, <2>2, <2>3, <2>4, <2>5, <2>6, <2>7, StepCases DEF Silenced
<1> QED BY <1>1, <1>2 DEF Silenced

\* Revocation fences the rest of an action for good, for any number of viewers,
\* agents and chunks: whatever the viewer does next, no chunk follows.
THEOREM RevocationIsFinal == Spec => RevokedStaysSilent
<1>1. InputInv /\ ConsentInv /\ [Next]_vars =>
        \A a \in Action, n \in 0..MaxChunks : Silenced(a, n) => Silenced(a, n)'
  BY SilencedStep
<1> QED BY <1>1, ConsentInvariant, PTL DEF Spec, RevokedStaysSilent

-----------------------------------------------------------------------------
(* One terminal per action.                                                *)

\* The bridges a writer has written into or is about to.
Touched(a) ==
  writer[a].into \cup (IF writer[a].pc \in {"lock", "write"} THEN {writer[a].gen} ELSE {})

\* While a state lives, the terminal id has had one bridge since the state was
\* made, or that bridge is just being replaced.
SpanInv ==
  /\ bridge # 0 => bridge = created /\ life.start = "idle"
  /\ \A a \in Action :
       /\ Stored(a) /\ life.start # "popped" => Touched(a) \subseteq {created}
       /\ \A g, h \in writer[a].into : g = h
       /\ writer[a].pc = "write" => writer[a].into \subseteq {writer[a].gen}

\* What a step does to the bridge of the terminal id and to its replacement.
BridgeStep ==
  \/ UNCHANGED <<created, life>> /\ bridge' = bridge
  \/ /\ UNCHANGED <<writer, created>> /\ life'.start = life.start
     /\ bridge' \in {bridge, 0}
  \/ UNCHANGED writer /\ bridge' = 0 /\ life'.start = "popped"
  \/ /\ UNCHANGED <<writer, created, bridge>>
     /\ life.start = "popped" /\ life'.start = "invalidated"
     /\ \A v \in Viewer : agent'[v] = NoState
  \/ /\ UNCHANGED <<writer, created, agent, actions>> /\ bridge' = created
     /\ life.start = "invalidated" /\ life'.start = "idle"

LEMMA BridgeMoves ==
  ASSUME TypeOK, [Next]_vars
  PROVE  BridgeStep
<1>1. ASSUME UNCHANGED <<bridge, created, life>> PROVE BridgeStep
  BY <1>1 DEF BridgeStep
<1>2. ASSUME NEW v \in Viewer, NEW s, NEW A, Control(v, s, A)
      PROVE  UNCHANGED <<bridge, created, life>>
  BY <1>2 DEF Control, Admitted
<1>3. CASE Requested
  <2>1. ASSUME NEW v \in Viewer, Attach(v) \/ Pause(v)
        PROVE  UNCHANGED <<bridge, created, life>>
    BY <1>2, <2>1 DEF Attach, Pause
  <2>2. ASSUME NEW v \in Viewer, NEW m, ModeSet(v, m) \/ Resume(v, m)
        PROVE  UNCHANGED <<bridge, created, life>>
    BY <1>2, <2>2 DEF ModeSet, Resume
  <2>3. ASSUME NEW v \in Viewer, NEW p, PrivacySet(v, p)
        PROVE  UNCHANGED <<bridge, created, life>>
    BY <1>2, <2>3 DEF PrivacySet
  <2>4. ASSUME NEW v \in Viewer,
               \/ Admit(v) \/ Refuse(v) \/ Detach(v)
               \/ \E a \in Action, n \in 0..MaxChunks : ViewerPropose(v, a, n)
               \/ \E a \in Action : Approve(v, a) \/ Reject(v, a)
        PROVE  UNCHANGED <<bridge, created, life>>
    BY <2>4 DEF Admit, Refuse, Admitted, Detach, Invalidate, ViewerPropose, Approve,
       Reject, Decide
  <2> QED BY <1>1, <1>3, <2>1, <2>2, <2>3, <2>4 DEF Requested
<1>4. CASE Human
  BY <1>1, <1>4 DEF Human, HumanAdmit, HumanNote, HumanWrite, LeaseExpires
<1>5. CASE External
  BY <1>1, <1>5 DEF External, TokenExpires, HeartbeatValidate, HeartbeatRenew, RevokeToken,
     RevokeCancel, SendAdmit, SendRefuse, SendPropose, SendDone, Mint, SetToken
<1>6. ASSUME NEW a \in Action, Write(a) PROVE BridgeStep
  BY <1>1, <1>6
  DEF Write, WriterStart, WriterPick, WriterLock, WriterWrite, WriterFinal, WriterIdle
<1>7. CASE Terminal
  <2>1. /\ \A pc : [life EXCEPT !["close"] = pc].start = life.start
        /\ \A pc : [life EXCEPT !["end"] = pc].start = life.start
        /\ \A pc : [life EXCEPT !["start"] = pc].start = pc
    BY DEF TypeOK, LifeRec
  <2>2. CASE CloseInvalidate \/ EndInvalidate
    <3>1. UNCHANGED <<writer, created, bridge>>
      BY <2>2 DEF CloseInvalidate, EndInvalidate, Invalidate
    <3>2. \/ life' = [life EXCEPT !["close"] = "invalidated"]
          \/ life' = [life EXCEPT !["end"] = "idle"]
      BY <2>2 DEF CloseInvalidate, EndInvalidate, SetLife
    <3>3. life'.start = life.start
      BY <2>1, <3>2
    <3> QED BY <3>1, <3>3 DEF BridgeStep
  <2>3. CASE ClosePop \/ EndCheck \/ EndPop
    BY <2>1, <2>3 DEF ClosePop, EndCheck, EndPop, SetLife, LifeOnly, BridgeStep
  <2>4. CASE StartPop
    BY <2>1, <2>4 DEF StartPop, SetLife, BridgeStep
  <2>5. CASE StartInvalidate
    BY <2>1, <2>5 DEF StartInvalidate, SetLife, Invalidate, BridgeStep
  <2>6. CASE StartSet
    BY <2>1, <2>6 DEF StartSet, SetLife, LifeOnly, BridgeStep
  <2> QED BY <1>7, <2>2, <2>3, <2>4, <2>5, <2>6 DEF Terminal
<1>8. CASE UNCHANGED vars
  BY <1>1, <1>8 DEF vars
<1> QED BY <1>3, <1>4, <1>5, <1>6, <1>7, <1>8 DEF Next

\* What a step of a writer, or a step that starts one, does to its bridges.
SpanStep(a) ==
  \/ writer'[a].into = writer[a].into /\ Touched(a)' \subseteq Touched(a)
     /\ (writer'[a].pc = "write" => writer'[a].gen = writer[a].gen /\
           (writer[a].pc = "write" \/ (Allowed(a) /\ writer[a].pc = "lock")))
  \/ /\ writer'[a].into = writer[a].into
     /\ writer[a].pc = "next" /\ writer'[a].pc = "lock"
     /\ writer'[a].gen = bridge /\ bridge # 0
  \/ /\ writer[a].pc = "write" /\ writer'[a].pc # "write"
     /\ writer'[a].into = writer[a].into \cup {writer[a].gen}
     /\ Touched(a)' \subseteq Touched(a)

LEMMA SpanMoves ==
  ASSUME InputInv, [Next]_vars, NEW a \in Action
  PROVE  SpanStep(a)
<1>0. TypeOK BY DEF InputInv
<1>1. ASSUME writer'[a] = writer[a] PROVE SpanStep(a)
  BY <1>1 DEF SpanStep, Touched
<1>2. Quiet => SpanStep(a) BY <1>1 DEF Quiet
<1>3. ASSUME NEW v \in Viewer, NEW who \in Viewer \cup Agent, NEW g \in Bridge,
             NEW b \in Action, NEW n \in 0..MaxChunks, Propose(v, who, g, b, n)
      PROVE  SpanStep(a)
  <2>1. Proposed(v, who, g, b) BY <1>3, ProposeMoves
  <2>2. CASE a = b
    <3>1. /\ writer'[a].into = writer[a].into /\ writer'[a].pc \in {"none", "start"}
      BY <2>1, <2>2 DEF Proposed
    <3> QED BY <3>1 DEF SpanStep, Touched
  <2> QED BY <1>1, <2>1, <2>2 DEF Proposed
<1>4. ASSUME NEW v \in Viewer, NEW b \in Action, Approve(v, b) PROVE SpanStep(a)
  <2>1. writer' = [writer EXCEPT ![b].pc = "start"] BY <1>4 DEF Approve
  <2>2. CASE a = b
    <3>1. writer'[a].into = writer[a].into /\ writer'[a].pc = "start"
      BY <1>0, <2>1, <2>2 DEF TypeOK, WriterRec
    <3> QED BY <3>1 DEF SpanStep, Touched
  <2> QED BY <1>0, <1>1, <2>1, <2>2 DEF TypeOK
<1>5. ASSUME NEW v \in Viewer, HumanAdmit(v) \/ HumanNote(v) \/ HumanWrite(v)
      PROVE  SpanStep(a)
  BY <1>1, <1>5 DEF HumanAdmit, HumanNote, HumanWrite
<1>6. ASSUME NEW b \in Action, Write(b) PROVE SpanStep(a)
  <2>1. CASE a # b
    BY <1>1, <1>6, <2>1, WriteCases
  <2>2. CASE a = b /\ WriterReturned(a)
    BY <2>2 DEF WriterReturned, Moved, SpanStep, Touched
  <2>3. CASE a = b /\ WriterAdvanced(a)
    BY <2>3 DEF WriterAdvanced, Moved, SpanStep, Touched
  <2>4. CASE a = b /\ WriterWrote(a)
    <3>1. /\ writer[a].pc = "write" /\ writer'[a].pc \in {"final", "next"}
          /\ writer'[a].into = writer[a].into \cup {writer[a].gen}
      BY <2>4 DEF WriterWrote, Moved
    <3> QED BY <3>1 DEF SpanStep, Touched
  <2> QED BY <1>6, <2>1, <2>2, <2>3, <2>4, WriteCases
<1> QED BY <1>0, <1>2, <1>3, <1>4, <1>5, <1>6, StepCases

LEMMA SpanInvStep ==
  ASSUME InputInv, ConsentInv, OrderInv, SpanInv, [Next]_vars
  PROVE  SpanInv'
<1>0. BridgeStep BY BridgeMoves DEF InputInv
<1>1. bridge' # 0 => bridge' = created' /\ life'.start = "idle"
  BY <1>0 DEF BridgeStep, SpanInv
<1>2. ASSUME NEW a \in Action
      PROVE  /\ \A g, h \in writer'[a].into : g = h
             /\ writer'[a].pc = "write" => writer'[a].into \subseteq {writer'[a].gen}
  <2>1. ASSUME Allowed(a), writer[a].pc = "lock"
        PROVE  writer[a].into \subseteq {writer[a].gen}
    <3>1. Stored(a) /\ bridge # 0 BY <2>1 DEF Allowed, Fenced, Rejected
    <3>2. Touched(a) \subseteq {created} BY <3>1 DEF SpanInv
    <3> QED BY <2>1, <3>2 DEF Touched
  <2> QED BY <2>1, SpanMoves DEF SpanStep, SpanInv
<1>3. ASSUME NEW a \in Action, Stored(a)', life'.start # "popped"
      PROVE  Touched(a)' \subseteq {created'}
  <2>1. CASE Fresh(a)
    <3>1. writer[a].pc = "none" /\ Touched(a) = {}
      BY <2>1 DEF Fresh, OrderInv, OwnerInv, Touched
    <3>2. Touched(a)' \subseteq Touched(a)
      BY <3>1, SpanMoves DEF SpanStep
    <3> QED BY <3>1, <3>2
  <2>2. CASE ~Fresh(a)
    <3>1. Stored(a) /\ actions[a].viewer \in Viewer /\ RecordStep(a)
      BY <1>3, <2>2, StoredBefore
    <3>2. agent'[actions[a].viewer] # NoState
      BY <1>3, <3>1 DEF RecordStep, Kept, Stored, Attached, NoState, NewState
    <3>3. created' = created /\ life.start # "popped"
      BY <1>0, <1>3, <3>1, <3>2 DEF BridgeStep
    <3>4. Touched(a) \subseteq {created} BY <3>1, <3>3 DEF SpanInv
    <3>5. CASE Touched(a)' \subseteq Touched(a)
      BY <3>3, <3>4, <3>5
    <3>6. CASE /\ writer'[a].into = writer[a].into /\ writer'[a].pc = "lock"
               /\ writer'[a].gen = bridge /\ bridge # 0
      BY <3>3, <3>4, <3>6 DEF Touched, SpanInv
    <3> QED BY <3>5, <3>6, SpanMoves DEF SpanStep
  <2> QED BY <2>1, <2>2
<1> QED BY <1>1, <1>2, <1>3 DEF SpanInv

LEMMA SpanInvariant == Spec => []SpanInv
<1>1. Init => SpanInv
  <2> SUFFICES ASSUME Init PROVE SpanInv
    OBVIOUS
  <2>1. /\ bridge = 0 /\ \A a \in Action : actions[a] = NoAction /\ writer[a] = NoWriter
    BY DEF Init
  <2> QED BY <2>1 DEF NoAction, NoWriter, Stored, SpanInv
<1>2. InputInv /\ ConsentInv /\ OrderInv /\ SpanInv /\ [Next]_vars => SpanInv'
  BY SpanInvStep
<1> QED BY <1>1, <1>2, ConsentInvariant, OrderInvariant, PTL DEF Spec

\* The input of one action never reaches two terminals, however often the
\* terminal is closed, ends or is replaced while the input is being written.
THEOREM OneBridge == Spec => []OneBridgePerAction
<1>1. ASSUME InputInv, SpanInv, NEW a \in Action
      PROVE  Cardinality(writer[a].into) <= 1
  <2>1. CASE writer[a].into = {}
    BY <2>1, FS_EmptySet
  <2>2. CASE writer[a].into # {}
    <3>1. PICK g : g \in writer[a].into
      BY <2>2
    <3>2. \A h \in writer[a].into : h = g
      BY <1>1, <3>1 DEF SpanInv
    <3>3. writer[a].into = {g}
      BY <3>1, <3>2
    <3> QED BY <3>3, FS_Singleton
  <2> QED BY <2>1, <2>2
<1>2. InputInv /\ SpanInv => OneBridgePerAction
  BY <1>1 DEF OneBridgePerAction
<1> QED BY <1>2, ConsentInvariant, SpanInvariant, PTL

=============================================================================
