------------------------- MODULE AgentControlProofs -------------------------
(***************************************************************************)
(* Theorems about AgentControl, for any number of viewers, agents, actions *)
(* and bridges.                                                            *)
(***************************************************************************)
EXTENDS AgentControl, TLAPS

-----------------------------------------------------------------------------
(* Type correctness.                                                       *)

LEMMA StateOfType ==
  ASSUME TypeOK, NEW v \in Viewer
  PROVE  StateOf(v) \in AgentRec
<1>1. CASE Attached(v)
  BY <1>1 DEF TypeOK, StateOf
<1>2. CASE ~Attached(v)
  BY <1>2, BoundsAssumption DEF TypeOK, StateOf, NewState, AgentRec, Mode, Privacy
<1> QED BY <1>1, <1>2

\* The updates of a state that the handlers are built from.
LEMMA UpdateType ==
  ASSUME NEW s \in AgentRec
  PROVE  /\ Bump(s) \in AgentRec
         /\ \A p \in Privacy : WithPrivacy(s, p) \in AgentRec
         /\ \A m \in Mode, b \in BOOLEAN :
              /\ [s EXCEPT !.mode = m] \in AgentRec
              /\ [s EXCEPT !.paused = b, !.mode = m] \in AgentRec
              /\ [s EXCEPT !.mode = m, !.paused = b] \in AgentRec
<1>1. Bump(s) \in AgentRec
  BY DEF Bump, AgentRec
<1>2. ASSUME NEW p \in Privacy PROVE WithPrivacy(s, p) \in AgentRec
  <2> DEFINE u == [s EXCEPT !.privacy = p]
             k == IF p = s.privacy THEN s.pver ELSE s.pver + 1
  <2>1. u \in AgentRec BY DEF AgentRec
  <2>2. k \in Nat BY DEF AgentRec
  <2>3. WithPrivacy(s, p) = [u EXCEPT !.pver = k]
    BY DEF WithPrivacy
  <2> HIDE DEF u, k
  <2> QED BY <2>1, <2>2, <2>3 DEF AgentRec
<1>3. ASSUME NEW m \in Mode, NEW b \in BOOLEAN
      PROVE  /\ [s EXCEPT !.mode = m] \in AgentRec
             /\ [s EXCEPT !.paused = b, !.mode = m] \in AgentRec
             /\ [s EXCEPT !.mode = m, !.paused = b] \in AgentRec
  <2> DEFINE p == [s EXCEPT !.paused = b]
             q == [s EXCEPT !.mode = m]
  <2>1. p \in AgentRec BY DEF AgentRec
  <2>2. q \in AgentRec BY DEF AgentRec
  <2> HIDE DEF p, q
  <2>3. [p EXCEPT !.mode = m] \in AgentRec BY <2>1 DEF AgentRec
  <2>4. [q EXCEPT !.paused = b] \in AgentRec BY <2>2 DEF AgentRec
  <2> QED BY <2>2, <2>3, <2>4 DEF p, q
<1> QED BY <1>1, <1>2, <1>3

LEMMA ClosedGateType ==
  ASSUME NEW s \in AgentRec
  PROVE  ClosedGate(s) \in AgentRec
<1> DEFINE t == [s EXCEPT !.paused = TRUE, !.mode = "paused"]
<1>1. t \in AgentRec BY UpdateType DEF Mode
<1> HIDE DEF t
<1>2. WithPrivacy(t, "paused") \in AgentRec BY <1>1, UpdateType DEF Privacy
<1> QED BY <1>2, UpdateType DEF ClosedGate, t

LEMMA CancelledType ==
  ASSUME TypeOK, NEW A
  PROVE  Cancelled(A) \in [Action -> ActionRec]
BY DEF TypeOK, Cancelled, ActionRec, Status, EndStatus

\* A control request keeps the types if the state it installs has its type.
LEMMA ControlType ==
  ASSUME TypeOK, NEW v \in Viewer, NEW s \in AgentRec, NEW A, Control(v, s, A)
  PROVE  TypeOK'
<1>1. actions' \in [Action -> ActionRec]
  BY CancelledType DEF Control
<1>2. agent' \in [Viewer -> AgentRec] /\ bindings' \in Nat
  BY DEF TypeOK, Control, CountBinding
<1>3. request' \in [Viewer -> 0..MaxBridge]
  BY BoundsAssumption DEF TypeOK, Control, Admitted
<1> QED
  BY <1>1, <1>2, <1>3 DEF TypeOK, Control, Admitted

LEMMA InvalidateType ==
  ASSUME TypeOK, NEW V, Invalidate(V), life' \in LifeRec, bridge' \in 0..MaxBridge
  PROVE  TypeOK'
<1>1. actions' \in [Action -> ActionRec]
  BY CancelledType DEF Invalidate
<1>2. agent' \in [Viewer -> AgentRec]
  BY BoundsAssumption DEF TypeOK, Invalidate, NoState, NewState, AgentRec, Mode, Privacy
<1>3. token' \in [Agent -> TokenRec]
  BY DEF TypeOK, Invalidate, TokenRec
<1> QED
  BY <1>1, <1>2, <1>3 DEF TypeOK, Invalidate

LEMMA ProposeType ==
  ASSUME TypeOK, NEW v \in Viewer \cup {Nobody}, NEW who \in Viewer \cup Agent,
         NEW g \in 0..MaxBridge, NEW a \in Action, NEW n \in 0..MaxChunks,
         Propose(v, who, g, a, n), Attached(v) => v \in Viewer
  PROVE  /\ actions' \in [Action -> ActionRec]
         /\ writer' \in [Action -> WriterRec]
         /\ lock' \in [Bridge -> Viewer \cup Action \cup {Nobody}]
<1>0. v \in Viewer /\ agent[v] \in AgentRec /\ n \in Nat
  BY BoundsAssumption DEF Propose, TypeOK
<1> DEFINE direct == agent[v].mode = "direct_active"
           new == [viewer |-> v, binding |-> agent[v].binding,
                   epoch |-> agent[v].epoch, pver |-> agent[v].pver,
                   status |-> IF direct THEN "direct_pending" ELSE "pending_approval",
                   by |-> who, chunks |-> n]
<1>1. new \in ActionRec
  BY <1>0 DEF ActionRec, AgentRec, Status, OpenStatus
<1>2. PICK gone \in Room(v) :
        actions' = [b \in Action |->
          CASE b = a -> new
            [] b \in gone -> [actions[b] EXCEPT !.status = "evicted"]
            [] OTHER -> actions[b]]
  BY DEF Propose
<1>3. actions' \in [Action -> ActionRec]
  <2>1. ASSUME NEW b \in Action
        PROVE  [actions[b] EXCEPT !.status = "evicted"] \in ActionRec
    BY DEF TypeOK, ActionRec, Status
  <2> HIDE DEF new
  <2> QED BY <1>1, <1>2, <2>1 DEF TypeOK
<1>4. writer' \in [Action -> WriterRec]
  <2> DEFINE w == [writer EXCEPT ![a].pc = "start"]
             x == [w EXCEPT ![a].outer = g]
  <2>1. w \in [Action -> WriterRec] BY DEF TypeOK, WriterRec
  <2>2. writer' \in {writer, x} BY DEF Propose
  <2> HIDE DEF w
  <2>3. x \in [Action -> WriterRec] BY <2>1 DEF WriterRec
  <2> QED BY <2>2, <2>3 DEF TypeOK
<1>5. lock' \in [Bridge -> Viewer \cup Action \cup {Nobody}]
  BY DEF Propose, TypeOK
<1> QED BY <1>3, <1>4, <1>5

LEMMA RequestedType == TypeOK /\ Requested => TypeOK'
<1> SUFFICES ASSUME TypeOK, NEW v \in Viewer,
                    \/ Admit(v) \/ Refuse(v) \/ Attach(v) \/ Pause(v) \/ Detach(v)
                    \/ \E m \in Mode \ {"paused"} : ModeSet(v, m)
                    \/ \E m \in Mode \ {"paused", "disabled"} : Resume(v, m)
                    \/ \E p \in Privacy : PrivacySet(v, p)
                    \/ \E a \in Action, n \in 0..MaxChunks : ViewerPropose(v, a, n)
                    \/ \E a \in Action : Approve(v, a) \/ Reject(v, a)
             PROVE  TypeOK'
  BY DEF Requested
<1> DEFINE s == StateOf(v)
<1>s. s \in AgentRec BY StateOfType
<1>1. CASE Admit(v)
  BY <1>1 DEF Admit, TypeOK
<1>2. CASE Refuse(v)
  <2>1. request' \in [Viewer -> 0..MaxBridge]
    BY <1>2, BoundsAssumption DEF TypeOK, Refuse, Admitted
  <2> QED BY <1>2, <2>1 DEF TypeOK, Refuse, Admitted
<1>3. CASE Attach(v)
  <2> DEFINE t == IF s.mode = "disabled" THEN Bump([s EXCEPT !.mode = "observe"]) ELSE s
  <2>1. t \in AgentRec
    <3> DEFINE u == [s EXCEPT !.mode = "observe"]
    <3>1. u \in AgentRec BY <1>s, UpdateType DEF Mode
    <3> HIDE DEF u, s
    <3>2. Bump(u) \in AgentRec BY <3>1, UpdateType
    <3> QED BY <1>s, <3>2 DEF u
  <2>2. Control(v, t, {}) BY <1>3 DEF Attach
  <2> HIDE DEF t
  <2> QED BY <2>1, <2>2, ControlType
<1>4. CASE Pause(v)
  <2>1. ClosedGate(s) \in AgentRec BY <1>s, ClosedGateType
  <2>2. Control(v, ClosedGate(s), OpenBy(v)) BY <1>4 DEF Pause
  <2> HIDE DEF s
  <2> QED BY <2>1, <2>2, ControlType
<1>5. CASE Detach(v)
  BY <1>5, InvalidateType DEF Detach, TypeOK
<1>6. ASSUME NEW m \in Mode \ {"paused"}, ModeSet(v, m) PROVE TypeOK'
  <2> DEFINE u == IF m # s.mode THEN Bump(s) ELSE s
             t == [u EXCEPT !.mode = m, !.paused = FALSE]
             A == IF m # s.mode THEN OpenBy(v) ELSE {}
  <2>1. u \in AgentRec BY <1>s, UpdateType
  <2>2. Control(v, t, A) BY <1>6 DEF ModeSet
  <2> HIDE DEF u, A
  <2>3. t \in AgentRec BY <2>1, UpdateType
  <2> HIDE DEF t
  <2> QED BY <2>2, <2>3, ControlType
<1>7. ASSUME NEW m \in Mode \ {"paused", "disabled"}, Resume(v, m) PROVE TypeOK'
  <2> DEFINE u == [s EXCEPT !.paused = FALSE, !.mode = m]
             w == WithPrivacy(u, "normal")
             t == Bump(w)
  <2>1. u \in AgentRec BY <1>s, UpdateType
  <2>2. Control(v, t, {}) BY <1>7 DEF Resume
  <2> HIDE DEF u
  <2>3. w \in AgentRec BY <2>1, UpdateType DEF Privacy
  <2> HIDE DEF w
  <2>4. t \in AgentRec BY <2>3, UpdateType
  <2> HIDE DEF t
  <2> QED BY <2>2, <2>4, ControlType
<1>8. ASSUME NEW p \in Privacy, PrivacySet(v, p) PROVE TypeOK'
  <2> DEFINE A == IF p # s.privacy THEN OpenBy(v) ELSE {}
  <2>1. ClosedGate(s) \in AgentRec /\ WithPrivacy(s, p) \in AgentRec
    BY <1>s, ClosedGateType, UpdateType
  <2>2. \/ Control(v, ClosedGate(s), OpenBy(v))
        \/ Control(v, WithPrivacy(s, p), A)
    BY <1>8 DEF PrivacySet
  <2> HIDE DEF s, A
  <2> QED BY <2>1, <2>2, ControlType
<1>9. ASSUME NEW a \in Action, NEW n \in 0..MaxChunks, ViewerPropose(v, a, n)
      PROVE  TypeOK'
  <2>1. Propose(v, v, request[v], a, n) /\ request[v] \in 0..MaxBridge
    BY <1>9 DEF ViewerPropose, TypeOK
  <2>2. /\ actions' \in [Action -> ActionRec]
        /\ writer' \in [Action -> WriterRec]
        /\ lock' \in [Bridge -> Viewer \cup Action \cup {Nobody}]
    BY <2>1, ProposeType
  <2>3. request' \in [Viewer -> 0..MaxBridge]
    BY <1>9, BoundsAssumption DEF TypeOK, ViewerPropose, Admitted
  <2> QED BY <1>9, <2>2, <2>3 DEF ViewerPropose, Admitted, TypeOK
<1>10. ASSUME NEW a \in Action, Approve(v, a) \/ Reject(v, a) PROVE TypeOK'
  <2>1. actions' \in [Action -> ActionRec]
    <3>1. ASSUME NEW t \in {"approved", "rejected"}
          PROVE  [actions EXCEPT ![a].status = t] \in [Action -> ActionRec]
      BY DEF TypeOK, ActionRec, Status, OpenStatus, EndStatus
    <3> QED BY <1>10, <3>1 DEF Approve, Reject, Decide
  <2>2. writer' \in [Action -> WriterRec]
    <3>1. [writer EXCEPT ![a].pc = "start"] \in [Action -> WriterRec]
      BY DEF TypeOK, WriterRec
    <3>2. writer' \in {writer, [writer EXCEPT ![a].pc = "start"]}
      BY <1>10 DEF Approve, Reject
    <3> QED BY <3>1, <3>2 DEF TypeOK
  <2> QED BY <1>10, <2>1, <2>2 DEF Approve, Reject, Decide, TypeOK
<1> QED BY <1>1, <1>2, <1>3, <1>4, <1>5, <1>6, <1>7, <1>8, <1>9, <1>10

LEMMA HumanType == TypeOK /\ Human => TypeOK'
<1> SUFFICES ASSUME TypeOK, NEW v \in Viewer,
                    HumanAdmit(v) \/ HumanNote(v) \/ HumanWrite(v) \/ LeaseExpires(v)
             PROVE  TypeOK'
  BY DEF Human
<1>1. CASE HumanAdmit(v)
  BY <1>1 DEF HumanAdmit, TypeOK, HumanRec
<1>2. CASE HumanNote(v)
  <2>1. agent' \in [Viewer -> AgentRec]
    <3>1. human[v].gen \in 0..MaxBridge BY DEF TypeOK, HumanRec
    <3>2. ASSUME NEW w \in Viewer
          PROVE  [agent[w] EXCEPT !.lease = human[v].gen] \in AgentRec
      BY <3>1 DEF TypeOK, AgentRec
    <3> QED BY <1>2, <3>2 DEF HumanNote, TypeOK
  <2>2. human' \in [Viewer -> HumanRec]
    BY <1>2 DEF HumanNote, TypeOK, HumanRec
  <2> QED BY <1>2, <2>1, <2>2 DEF HumanNote, TypeOK
<1>3. CASE HumanWrite(v)
  <2>1. human' \in [Viewer -> HumanRec]
    BY <1>3, BoundsAssumption DEF HumanWrite, Idle, TypeOK, HumanRec
  <2>2. /\ lock' \in [Bridge -> Viewer \cup Action \cup {Nobody}]
        /\ lastInput' \in [Bridge -> Viewer \cup Action \cup {Nobody}]
    BY <1>3 DEF HumanWrite, TypeOK
  <2> QED BY <1>3, <2>1, <2>2 DEF HumanWrite, TypeOK
<1>4. CASE LeaseExpires(v)
  BY <1>4, BoundsAssumption DEF LeaseExpires, TypeOK, AgentRec
<1> QED BY <1>1, <1>2, <1>3, <1>4

LEMMA ExternalType == TypeOK /\ External => TypeOK'
<1> SUFFICES ASSUME TypeOK, NEW e \in Agent,
                    \/ TokenExpires(e) \/ HeartbeatValidate(e) \/ HeartbeatRenew(e)
                    \/ RevokeToken(e) \/ RevokeCancel(e)
                    \/ SendAdmit(e) \/ SendRefuse(e)
                    \/ \E v \in Viewer : Mint(e, v)
                    \/ \E a \in Action, n \in 0..MaxChunks : SendPropose(e, a, n)
             PROVE  TypeOK'
  BY DEF External
<1>1. ASSUME NEW t \in TokenRec, SetToken(e, t), actions' \in [Action -> ActionRec]
      PROVE  TypeOK'
  BY <1>1 DEF SetToken, TypeOK
<1>2. CASE TokenExpires(e) \/ HeartbeatValidate(e) \/ RevokeToken(e)
  <2>1. /\ [token[e] EXCEPT !.status = "expired"] \in TokenRec
        /\ [token[e] EXCEPT !.beat = TRUE] \in TokenRec
        /\ [token[e] EXCEPT !.status = "revoked"] \in TokenRec
    BY DEF TypeOK, TokenRec
  <2> QED BY <1>1, <1>2, <2>1 DEF TokenExpires, HeartbeatValidate, RevokeToken, TypeOK
<1>3. CASE HeartbeatRenew(e)
  <2> DEFINE u == [token[e] EXCEPT !.beat = FALSE]
             k == IF token[e].status = "expired" THEN "live" ELSE token[e].status
             t == [u EXCEPT !.status = k]
  <2>1. u \in TokenRec BY DEF TypeOK, TokenRec
  <2>2. k \in {"none", "live", "expired", "revoked", "dead"} BY DEF TypeOK, TokenRec
  <2>3. SetToken(e, t) /\ UNCHANGED actions BY <1>3 DEF HeartbeatRenew
  <2> HIDE DEF u, k
  <2>4. t \in TokenRec BY <2>1, <2>2 DEF TokenRec
  <2> QED BY <1>1, <2>3, <2>4 DEF TypeOK
<1>4. CASE RevokeCancel(e)
  <2>1. [token[e] EXCEPT !.status = "dead"] \in TokenRec
    BY DEF TypeOK, TokenRec
  <2> QED BY <1>1, <1>4, <2>1, CancelledType DEF RevokeCancel
<1>5. CASE SendAdmit(e)
  <2>1. send' \in [Agent -> SendRec \cup {NoSend}]
    BY <1>5 DEF SendAdmit, Bound, TypeOK, SendRec, TokenRec, Bridge
  <2> QED BY <1>5, <2>1 DEF SendAdmit, TypeOK
<1>6. SendDone(e) => send' \in [Agent -> SendRec \cup {NoSend}]
  BY DEF SendDone, TypeOK
<1>7. CASE SendRefuse(e)
  BY <1>6, <1>7 DEF SendRefuse, SendDone, TypeOK
<1>8. ASSUME NEW v \in Viewer, Mint(e, v) PROVE TypeOK'
  <2> DEFINE t == [status |-> "live", viewer |-> v, binding |-> agent[v].binding,
                   beat |-> FALSE]
  <2>1. t \in TokenRec BY DEF TypeOK, TokenRec, AgentRec
  <2>2. SetToken(e, t) /\ UNCHANGED actions BY <1>8 DEF Mint
  <2> HIDE DEF t
  <2> QED BY <1>1, <2>1, <2>2 DEF TypeOK
<1>9. ASSUME NEW a \in Action, NEW n \in 0..MaxChunks, SendPropose(e, a, n)
      PROVE  TypeOK'
  <2> DEFINE v == send[e].viewer
  <2>1. /\ Propose(v, e, send[e].gen, a, n)
        /\ v \in Viewer /\ send[e].gen \in 0..MaxBridge
    BY <1>9 DEF SendPropose, SendDone, TypeOK, SendRec, Bridge
  <2> HIDE DEF v
  <2>2. /\ actions' \in [Action -> ActionRec]
        /\ writer' \in [Action -> WriterRec]
        /\ lock' \in [Bridge -> Viewer \cup Action \cup {Nobody}]
    BY <2>1, ProposeType
  <2> QED BY <1>6, <1>9, <2>2 DEF SendPropose, SendDone, TypeOK
<1> QED
  BY <1>2, <1>3, <1>4, <1>5, <1>7, <1>8, <1>9

LEMMA TerminalType == TypeOK /\ Terminal => TypeOK'
<1> SUFFICES ASSUME TypeOK, Terminal PROVE TypeOK'
  OBVIOUS
<1>1. life' \in LifeRec
  <2>1. /\ \A pc \in {"idle", "invalidated"} : [life EXCEPT !["close"] = pc] \in LifeRec
        /\ \A pc \in {"idle", "checked", "popped"} : [life EXCEPT !["end"] = pc] \in LifeRec
        /\ \A pc \in {"idle", "popped", "invalidated"} :
             [life EXCEPT !["start"] = pc] \in LifeRec
    BY DEF TypeOK, LifeRec
  <2> QED
    BY <2>1 DEF Terminal, SetLife, CloseInvalidate, ClosePop, EndCheck, EndPop,
                EndInvalidate, StartPop, StartInvalidate, StartSet
<1>2. bridge' \in 0..MaxBridge /\ created' \in 0..MaxBridge
  BY BoundsAssumption
  DEF TypeOK, Terminal, CloseInvalidate, ClosePop, EndCheck, EndPop,
      EndInvalidate, StartPop, StartInvalidate, StartSet, Invalidate, LifeOnly
<1>3. ASSUME LifeOnly PROVE TypeOK'
  BY <1>1, <1>2, <1>3 DEF LifeOnly, TypeOK
<1>4. ASSUME Invalidate(Viewer) PROVE TypeOK'
  BY <1>1, <1>2, <1>4, InvalidateType
<1>5. CASE StartPop
  BY <1>1, <1>2, <1>5 DEF StartPop, TypeOK
<1> QED
  BY <1>3, <1>4, <1>5
  DEF Terminal, CloseInvalidate, ClosePop, EndCheck, EndPop, EndInvalidate,
      StartPop, StartInvalidate, StartSet

LEMMA ReturnType ==
  ASSUME TypeOK, NEW a \in Action, NEW r \in {"ok", "error"}, NEW held,
         Return(a, r, held)
  PROVE  /\ writer' \in [Action -> WriterRec]
         /\ lock' \in [Bridge -> Viewer \cup Action \cup {Nobody}]
<1> DEFINE w == [writer EXCEPT ![a].pc = "done"]
<1>1. w \in [Action -> WriterRec] BY DEF TypeOK, WriterRec
<1>2. writer' = [w EXCEPT ![a].result = r] BY DEF Return
<1> HIDE DEF w
<1>3. writer' \in [Action -> WriterRec] BY <1>1, <1>2 DEF WriterRec
<1> QED BY <1>3 DEF Return, TypeOK

LEMMA WriteType ==
  ASSUME TypeOK, NEW a \in Action, Write(a)
  PROVE  TypeOK'
<1>0. WriterIdle /\ lastInput' \in [Bridge -> Viewer \cup Action \cup {Nobody}]
  BY DEF TypeOK, Write, WriterStart, WriterPick, WriterLock, WriterWrite, WriterFinal
<1>1. SUFFICES /\ actions' \in [Action -> ActionRec]
               /\ writer' \in [Action -> WriterRec]
               /\ lock' \in [Bridge -> Viewer \cup Action \cup {Nobody}]
  BY <1>0 DEF WriterIdle, TypeOK
<1> USE DEF TypeOK
<1>2. ASSUME NEW held, CheckFails(a, held)
      PROVE  /\ actions' \in [Action -> ActionRec]
             /\ writer' \in [Action -> WriterRec]
             /\ lock' \in [Bridge -> Viewer \cup Action \cup {Nobody}]
  BY <1>2, ReturnType, CancelledType DEF CheckFails
<1>3. [actions EXCEPT ![a].status = "completed"] \in [Action -> ActionRec]
  BY DEF ActionRec, Status, EndStatus
<1>4. ASSUME NEW pc \in {"next", "write"}
      PROVE  [writer EXCEPT ![a].pc = pc] \in [Action -> WriterRec]
  BY DEF WriterRec
<1>5. CASE WriterStart(a)
  BY <1>2, <1>3, <1>4, <1>5, ReturnType DEF WriterStart
<1>6. CASE WriterPick(a)
  <2> DEFINE w == [writer EXCEPT ![a].pc = "lock"]
             x == [w EXCEPT ![a].gen = bridge]
  <2>1. w \in [Action -> WriterRec] BY DEF WriterRec
  <2>2. CASE bridge = 0
    BY <1>6, <2>2, ReturnType DEF WriterPick
  <2>3. CASE bridge # 0
    <3>1. writer' = x /\ UNCHANGED <<actions, lock>>
      BY <1>6, <2>3 DEF WriterPick
    <3> HIDE DEF w
    <3>2. x \in [Action -> WriterRec] BY <2>1 DEF WriterRec
    <3> QED BY <3>1, <3>2
  <2> QED BY <2>2, <2>3
<1>7. CASE WriterLock(a)
  BY <1>2, <1>4, <1>7 DEF WriterLock
<1>8. CASE WriterWrite(a)
  <2> DEFINE g == writer[a].gen
             pc == IF writer[a].written + 1 = actions[a].chunks THEN "final" ELSE "next"
             w == [writer EXCEPT ![a].pc = pc]
             x == [w EXCEPT ![a].written = writer[a].written + 1]
             y == [x EXCEPT ![a].into = writer[a].into \cup {g}]
  <2>1. writer' = y
    BY <1>8 DEF WriterWrite
  <2>2. w \in [Action -> WriterRec] BY DEF WriterRec
  <2>3. writer[a].written + 1 \in Nat /\ writer[a].into \cup {g} \in SUBSET (0..MaxBridge)
    BY DEF WriterRec
  <2> HIDE DEF w
  <2>4. x \in [Action -> WriterRec] BY <2>2, <2>3 DEF WriterRec
  <2> HIDE DEF x
  <2>5. y \in [Action -> WriterRec] BY <2>3, <2>4 DEF WriterRec
  <2> QED BY <1>8, <2>1, <2>5 DEF WriterWrite
<1>9. CASE WriterFinal(a)
  <2>1. actions' \in [Action -> ActionRec]
    BY <1>3, <1>9, CancelledType DEF WriterFinal
  <2> QED BY <1>9, <2>1, ReturnType DEF WriterFinal
<1> QED BY <1>5, <1>6, <1>7, <1>8, <1>9 DEF Write

LEMMA TypeStep == TypeOK /\ [Next]_vars => TypeOK'
<1>1. TypeOK /\ UNCHANGED vars => TypeOK'
  BY DEF TypeOK, vars
<1> QED
  BY <1>1, RequestedType, HumanType, ExternalType, TerminalType, WriteType DEF Next

LEMMA InitType == Init => TypeOK
BY BoundsAssumption
DEF Init, TypeOK, NoState, NewState, NoAction, NoWriter, NoToken, NoSend, Idle,
    AgentRec, ActionRec, WriterRec, TokenRec, SendRec, HumanRec, LifeRec, Mode,
    Privacy, Status

\* Every variable keeps its type, whatever the interleaving.
THEOREM TypeCorrect == Spec => []TypeOK
BY InitType, TypeStep, PTL DEF Spec

-----------------------------------------------------------------------------
(* What the input lock of a bridge gives: exclusive writes, human input    *)
(* that is never overtaken, direct bursts, and input written once.         *)
(*                                                                         *)
(* The inductive invariant.                                                *)

\* Who holds an input lock: the thread inside a write, and a direct writer
\* for as long as it runs.
LockInv ==
  /\ \A a \in Action :
       /\ writer[a].pc \in {"lock", "write"} => writer[a].gen # 0
       /\ writer[a].pc = "write" => lock[writer[a].gen] = a
       /\ Running(a) /\ writer[a].outer # 0 => lock[writer[a].outer] = a
       /\ writer[a].pc = "none" => writer[a].outer = 0
  /\ \A v \in Viewer :
       /\ human[v].pc # "idle" => human[v].gen # 0
       /\ human[v].pc = "write" => lock[human[v].gen] = v

\* How far a writer has got, and the status of its action.
ProgressInv ==
  \A a \in Action :
    /\ actions[a].status \in {"unused", "pending_approval", "rejected"}
         => writer[a].pc = "none"
    /\ writer[a].pc \in {"none", "start"} => writer[a].written = 0
    /\ writer[a].pc \in {"next", "lock", "write"}
         => writer[a].written < actions[a].chunks
    /\ writer[a].pc \in {"final", "done"} => writer[a].written <= actions[a].chunks
    /\ writer[a].pc = "final" => writer[a].written = actions[a].chunks
    /\ actions[a].status = "completed"
         => writer[a].pc = "done" /\ writer[a].written = actions[a].chunks

InputInv == TypeOK /\ LockInv /\ ProgressInv

-----------------------------------------------------------------------------
(* Steps that touch no writer, no lock and no terminal.                    *)

\* An action keeps its input, its owner and the stamp of its proposal.
Kept(a) ==
  /\ actions'[a].chunks = actions[a].chunks
  /\ actions'[a].viewer = actions[a].viewer
  /\ actions'[a].by = actions[a].by
  /\ actions'[a].binding = actions[a].binding
  /\ actions'[a].epoch = actions[a].epoch
  /\ actions'[a].pver = actions[a].pver

\* An action is kept, and its status only gets further.
SameAction(a) ==
  /\ Kept(a)
  /\ \/ actions'[a].status = actions[a].status
     \/ actions'[a].status = "failed" /\ actions[a].status \in OpenStatus
     \/ actions'[a].status = "rejected" /\ actions[a].status = "pending_approval"

Quiet ==
  /\ UNCHANGED <<writer, lock, human, lastInput>>
  /\ \A a \in Action : SameAction(a)
  /\ \A v \in Viewer : agent'[v].lease \in {agent[v].lease, 0}

LEMMA CancelledQuiet ==
  ASSUME TypeOK, NEW A, A \subseteq {a \in Action : actions[a].status \in OpenStatus},
         actions' = Cancelled(A)
  PROVE  \A a \in Action : SameAction(a)
<1> SUFFICES ASSUME NEW a \in Action PROVE SameAction(a)
  OBVIOUS
<1>1. CASE a \in A
  <2>1. actions'[a] = [actions[a] EXCEPT !.status = "failed"]
    BY <1>1 DEF Cancelled
  <2>2. actions[a] \in ActionRec BY DEF TypeOK
  <2> QED BY <1>1, <2>1, <2>2 DEF SameAction, Kept, ActionRec
<1>2. CASE a \notin A
  BY <1>2 DEF Cancelled, SameAction, Kept
<1> QED BY <1>1, <1>2

LEMMA LeaseKept ==
  ASSUME NEW s \in AgentRec
  PROVE  /\ Bump(s).lease = s.lease
         /\ \A p \in Privacy : WithPrivacy(s, p).lease = s.lease
         /\ \A m \in Mode, b \in BOOLEAN :
              /\ [s EXCEPT !.mode = m].lease = s.lease
              /\ [s EXCEPT !.paused = b, !.mode = m].lease = s.lease
              /\ [s EXCEPT !.mode = m, !.paused = b].lease = s.lease
         /\ ClosedGate(s).lease = s.lease
BY DEF Bump, WithPrivacy, ClosedGate, AgentRec

LEMMA ControlQuiet ==
  ASSUME TypeOK, NEW v \in Viewer, NEW s, NEW A, Control(v, s, A),
         s.lease = StateOf(v).lease, A \subseteq OpenBy(v)
  PROVE  Quiet
<1>1. A \subseteq {a \in Action : actions[a].status \in OpenStatus}
  BY DEF OpenBy, StoredBy
<1>2. \A w \in Viewer : agent'[w].lease \in {agent[w].lease, 0}
  BY DEF Control, StateOf, NewState, TypeOK
<1> QED
  BY <1>1, <1>2, CancelledQuiet DEF Control, Admitted, Quiet

LEMMA InvalidateQuiet ==
  ASSUME TypeOK, NEW V, Invalidate(V)
  PROVE  Quiet
<1>1. UNION {OpenBy(v) : v \in V} \subseteq {a \in Action : actions[a].status \in OpenStatus}
  BY DEF OpenBy, StoredBy
<1>2. \A w \in Viewer : agent'[w].lease \in {agent[w].lease, 0}
  BY DEF Invalidate, NoState, NewState, TypeOK
<1> QED
  BY <1>1, <1>2, CancelledQuiet DEF Invalidate, Quiet

\* Every step is quiet or one of those that start, run or compete with writers.
LEMMA StepCases ==
  ASSUME TypeOK, [Next]_vars
  PROVE  \/ Quiet
         \/ \E v \in Viewer, who \in Viewer \cup Agent, g \in Bridge, a \in Action,
               n \in 0..MaxChunks :
              /\ Propose(v, who, g, a, n) /\ (who \in Agent => TokenValid(who))
              /\ UNCHANGED <<agent, token, human, lastInput>>
         \/ \E v \in Viewer, a \in Action : Approve(v, a)
         \/ \E v \in Viewer : HumanAdmit(v) \/ HumanNote(v) \/ HumanWrite(v)
         \/ \E a \in Action : Write(a)
<1>a. ASSUME UNCHANGED <<agent, actions, writer, lock, human, lastInput>> PROVE Quiet
  BY <1>a DEF Quiet, SameAction, Kept
<1>1. CASE UNCHANGED vars
  BY <1>1, <1>a DEF vars
<1>2. ASSUME NEW v \in Viewer, Admit(v) \/ Refuse(v) PROVE Quiet
  BY <1>2, <1>a DEF Admit, Refuse, Admitted
<1>3. ASSUME NEW v \in Viewer, Attach(v) PROVE Quiet
  <2> DEFINE s == StateOf(v)
             u == [s EXCEPT !.mode = "observe"]
             t == IF s.mode = "disabled" THEN Bump(u) ELSE s
  <2>1. s \in AgentRec BY StateOfType
  <2>2. u \in AgentRec BY <2>1, UpdateType DEF Mode
  <2>3. Control(v, t, {}) BY <1>3 DEF Attach
  <2>4. t.lease = s.lease
    BY <2>1, <2>2, LeaseKept DEF Mode
  <2> HIDE DEF t
  <2> QED BY <2>3, <2>4, ControlQuiet
<1>4. ASSUME NEW v \in Viewer, Pause(v) PROVE Quiet
  <2>1. ClosedGate(StateOf(v)).lease = StateOf(v).lease BY StateOfType, LeaseKept
  <2> QED BY <1>4, <2>1, ControlQuiet DEF Pause
<1>5. ASSUME NEW v \in Viewer, Detach(v) PROVE Quiet
  BY <1>5, InvalidateQuiet DEF Detach
<1>6. ASSUME NEW v \in Viewer, NEW m \in Mode, ModeSet(v, m) PROVE Quiet
  <2> DEFINE s == StateOf(v)
             u == IF m # s.mode THEN Bump(s) ELSE s
             t == [u EXCEPT !.mode = m, !.paused = FALSE]
             A == IF m # s.mode THEN OpenBy(v) ELSE {}
  <2>1. s \in AgentRec BY StateOfType
  <2>2. u \in AgentRec /\ u.lease = s.lease BY <2>1, UpdateType, LeaseKept
  <2>3. Control(v, t, A) BY <1>6 DEF ModeSet
  <2>4. A \subseteq OpenBy(v) OBVIOUS
  <2> HIDE DEF u, A
  <2>5. t.lease = s.lease BY <2>2, LeaseKept
  <2> HIDE DEF t
  <2> QED BY <2>3, <2>4, <2>5, ControlQuiet
<1>7. ASSUME NEW v \in Viewer, NEW m \in Mode, Resume(v, m) PROVE Quiet
  <2> DEFINE s == StateOf(v)
             u == [s EXCEPT !.paused = FALSE, !.mode = m]
             w == WithPrivacy(u, "normal")
             t == Bump(w)
  <2>1. s \in AgentRec BY StateOfType
  <2>2. u \in AgentRec /\ u.lease = s.lease BY <2>1, UpdateType, LeaseKept
  <2>3. Control(v, t, {}) BY <1>7 DEF Resume
  <2> HIDE DEF u
  <2>4. w \in AgentRec /\ w.lease = s.lease BY <2>2, UpdateType, LeaseKept DEF Privacy
  <2> HIDE DEF w
  <2>5. t.lease = s.lease BY <2>4, LeaseKept
  <2> HIDE DEF t
  <2> QED BY <2>3, <2>5, ControlQuiet
<1>8. ASSUME NEW v \in Viewer, NEW p \in Privacy, PrivacySet(v, p) PROVE Quiet
  <2> DEFINE s == StateOf(v)
             A == IF p # s.privacy THEN OpenBy(v) ELSE {}
  <2>1. ClosedGate(s).lease = s.lease /\ WithPrivacy(s, p).lease = s.lease
    BY StateOfType, LeaseKept
  <2>2. \/ Control(v, ClosedGate(s), OpenBy(v))
        \/ Control(v, WithPrivacy(s, p), A)
    BY <1>8 DEF PrivacySet
  <2>3. A \subseteq OpenBy(v) OBVIOUS
  <2> HIDE DEF A
  <2> QED BY <2>1, <2>2, <2>3, ControlQuiet
<1>9. ASSUME NEW v \in Viewer, NEW a \in Action, NEW n \in 0..MaxChunks,
             ViewerPropose(v, a, n)
      PROVE  /\ Propose(v, v, request[v], a, n) /\ request[v] \in Bridge
             /\ v \notin Agent /\ UNCHANGED <<agent, token, human, lastInput>>
  BY <1>9, ThreadsAssumption DEF ViewerPropose, Admitted, TypeOK, Bridge
<1>10. ASSUME NEW v \in Viewer, NEW a \in Action, Reject(v, a) PROVE Quiet
  <2>1. ASSUME NEW b \in Action PROVE SameAction(b)
    BY <1>10 DEF Reject, Decide, TypeOK, ActionRec, SameAction, Kept
  <2> QED BY <1>10, <2>1 DEF Reject, Decide, Quiet
<1>11. ASSUME NEW v \in Viewer, LeaseExpires(v) PROVE Quiet
  <2>1. \A w \in Viewer : agent'[w].lease \in {agent[w].lease, 0}
    BY <1>11 DEF LeaseExpires, TypeOK, AgentRec
  <2> QED BY <1>11, <2>1 DEF LeaseExpires, Quiet, SameAction, Kept
<1>12. ASSUME NEW e \in Agent,
              \/ TokenExpires(e) \/ HeartbeatValidate(e) \/ HeartbeatRenew(e)
              \/ RevokeToken(e) \/ SendAdmit(e) \/ SendRefuse(e)
              \/ \E v \in Viewer : Mint(e, v)
       PROVE  Quiet
  BY <1>12, <1>a DEF TokenExpires, HeartbeatValidate, HeartbeatRenew, RevokeToken,
     SendAdmit, SendRefuse, SendDone, Mint, SetToken
<1>13. ASSUME NEW e \in Agent, RevokeCancel(e) PROVE Quiet
  <2> DEFINE A == {a \in OpenBy(token[e].viewer) : actions[a].by = e}
  <2>1. A \subseteq {a \in Action : actions[a].status \in OpenStatus}
    BY DEF OpenBy, StoredBy
  <2>2. actions' = Cancelled(A) /\ UNCHANGED <<agent, writer, lock, human, lastInput>>
    BY <1>13 DEF RevokeCancel, SetToken
  <2> HIDE DEF A
  <2> QED BY <2>1, <2>2, CancelledQuiet DEF Quiet
<1>14. ASSUME NEW e \in Agent, NEW a \in Action, NEW n \in 0..MaxChunks,
              SendPropose(e, a, n)
       PROVE  /\ Propose(send[e].viewer, e, send[e].gen, a, n)
              /\ send[e].viewer \in Viewer /\ send[e].gen \in Bridge
              /\ TokenValid(e) /\ UNCHANGED <<agent, token, human, lastInput>>
  BY <1>14 DEF SendPropose, SendDone, TypeOK, SendRec
<1>15. ASSUME Terminal PROVE Quiet
  BY <1>15, <1>a, InvalidateQuiet
  DEF Terminal, CloseInvalidate, ClosePop, EndCheck, EndPop, EndInvalidate,
      StartPop, StartInvalidate, StartSet, LifeOnly
<1>16. CASE Requested
  BY <1>2, <1>3, <1>4, <1>5, <1>6, <1>7, <1>8, <1>9, <1>10, <1>16 DEF Requested
<1>17. CASE External
  BY <1>12, <1>13, <1>14, <1>17 DEF External
<1>18. CASE Human
  BY <1>11, <1>18 DEF Human
<1> QED
  BY <1>1, <1>15, <1>16, <1>17, <1>18 DEF Next

-----------------------------------------------------------------------------
(* Every step preserves the invariant.                                     *)

LEMMA QuietStep ==
  ASSUME InputInv, Quiet
  PROVE  LockInv' /\ ProgressInv'
<1>1. LockInv' BY DEF InputInv, LockInv, Quiet, Running
<1>2. ProgressInv'
  BY DEF InputInv, ProgressInv, Quiet, SameAction, Kept, OpenStatus
<1> QED BY <1>1, <1>2

\* What a proposal does to the writers, the locks and the records.
Proposed(v, who, g, a) ==
  LET direct == agent[v].mode = "direct_active" IN
  /\ Attached(v) /\ CanPropose(agent[v])
  /\ actions[a].status = "unused" /\ lock[g] = Nobody /\ writer[a].pc = "none"
  /\ \A b \in Action \ {a} : writer'[b] = writer[b]
  /\ writer'[a].pc = IF direct THEN "start" ELSE "none"
  /\ writer'[a].outer = IF direct THEN g ELSE writer[a].outer
  /\ writer'[a].gen = writer[a].gen /\ writer'[a].written = writer[a].written
  /\ writer'[a].into = writer[a].into
  /\ \A h \in Bridge : lock'[h] = IF direct /\ h = g THEN a ELSE lock[h]
  /\ actions'[a].viewer = v /\ actions'[a].by = who
  /\ actions'[a].binding = agent[v].binding
  /\ actions'[a].epoch = agent[v].epoch /\ actions'[a].pver = agent[v].pver
  /\ actions'[a].status = IF direct THEN "direct_pending" ELSE "pending_approval"
  /\ \A b \in Action \ {a} :
       /\ Kept(b)
       /\ \/ actions'[b].status = actions[b].status
          \/ actions'[b].status = "evicted" /\ actions[b].status \in EndStatus

LEMMA ProposeMoves ==
  ASSUME InputInv, NEW v \in Viewer, NEW who \in Viewer \cup Agent, NEW g \in Bridge,
         NEW a \in Action, NEW n \in 0..MaxChunks, Propose(v, who, g, a, n)
  PROVE  Proposed(v, who, g, a)
<1> DEFINE direct == agent[v].mode = "direct_active"
           w == [writer EXCEPT ![a].pc = "start"]
           x == [w EXCEPT ![a].outer = g]
<1>0. /\ actions[a].status = "unused" /\ lock[g] = Nobody
      /\ Attached(v) /\ CanPropose(agent[v])
  BY DEF Propose
<1>1. /\ writer' = IF direct THEN x ELSE writer
      /\ lock' = IF direct THEN [lock EXCEPT ![g] = a] ELSE lock
  BY DEF Propose
<1>2. writer[a].pc = "none"
  BY <1>0 DEF InputInv, ProgressInv
<1>3. w \in [Action -> WriterRec] /\ w[a].pc = "start" /\ w[a].outer = writer[a].outer
      /\ w[a].gen = writer[a].gen /\ w[a].written = writer[a].written
      /\ w[a].into = writer[a].into /\ \A b \in Action \ {a} : w[b] = writer[b]
  BY DEF InputInv, TypeOK, WriterRec
<1>4. x[a].pc = "start" /\ x[a].outer = g
      /\ x[a].gen = writer[a].gen /\ x[a].written = writer[a].written
      /\ x[a].into = writer[a].into /\ \A b \in Action \ {a} : x[b] = writer[b]
  <2> HIDE DEF w
  <2> QED BY <1>3 DEF WriterRec
<1>5. /\ writer'[a].pc = IF direct THEN "start" ELSE "none"
      /\ writer'[a].outer = IF direct THEN g ELSE writer[a].outer
      /\ writer'[a].gen = writer[a].gen /\ writer'[a].written = writer[a].written
      /\ writer'[a].into = writer[a].into
      /\ \A b \in Action \ {a} : writer'[b] = writer[b]
  <2> HIDE DEF w, x, direct
  <2> QED BY <1>1, <1>2, <1>4
<1>6. \A h \in Bridge : lock'[h] = IF direct /\ h = g THEN a ELSE lock[h]
  BY <1>1 DEF InputInv, TypeOK
<1>7. ASSUME NEW b \in Action
      PROVE  /\ b = a => /\ actions'[b].viewer = v /\ actions'[b].by = who
                         /\ actions'[b].binding = agent[v].binding
                         /\ actions'[b].epoch = agent[v].epoch
                         /\ actions'[b].pver = agent[v].pver
                         /\ actions'[b].status = IF direct THEN "direct_pending"
                                                 ELSE "pending_approval"
             /\ b # a => /\ Kept(b)
                         /\ \/ actions'[b].status = actions[b].status
                            \/ /\ actions'[b].status = "evicted"
                               /\ actions[b].status \in EndStatus
  <2> DEFINE new == [viewer |-> v, binding |-> agent[v].binding,
                     epoch |-> agent[v].epoch, pver |-> agent[v].pver,
                     status |-> IF direct THEN "direct_pending" ELSE "pending_approval",
                     by |-> who, chunks |-> n]
             old == [actions[b] EXCEPT !.status = "evicted"]
  <2>1. PICK gone \in Room(v) :
          actions' = [c \in Action |->
            CASE c = a -> new
              [] c \in gone -> [actions[c] EXCEPT !.status = "evicted"]
              [] OTHER -> actions[c]]
    BY DEF Propose
  <2>2. /\ new.status = IF direct THEN "direct_pending" ELSE "pending_approval"
        /\ new.viewer = v /\ new.by = who /\ new.binding = agent[v].binding
        /\ new.epoch = agent[v].epoch /\ new.pver = agent[v].pver
    OBVIOUS
  <2>3. /\ old.status = "evicted" /\ old.chunks = actions[b].chunks
        /\ old.viewer = actions[b].viewer /\ old.by = actions[b].by
        /\ old.binding = actions[b].binding /\ old.epoch = actions[b].epoch
        /\ old.pver = actions[b].pver
    BY DEF InputInv, TypeOK, ActionRec
  <2>4. \/ b = a /\ actions'[b] = new
        \/ b # a /\ actions'[b] = old /\ actions[b].status \in EndStatus
        \/ b # a /\ actions'[b] = actions[b]
    <3> HIDE DEF new
    <3>1. actions'[b] = CASE b = a -> new
                          [] b \in gone -> [actions[b] EXCEPT !.status = "evicted"]
                          [] OTHER -> actions[b]
      BY <2>1
    <3>2. CASE b = a
      <4>1. a \notin gone
        BY <1>0 DEF Room, StoredBy, Stored
      <4> QED BY <3>1, <3>2, <4>1
    <3>3. CASE b # a /\ b \in gone
      <4>1. b \in StoredBy(v) /\ b \notin OpenBy(v)
        BY <3>3 DEF Room
      <4>2. actions[b].status \in EndStatus
        BY <4>1 DEF StoredBy, OpenBy, Stored, InputInv, TypeOK, ActionRec, Status
      <4> QED BY <3>1, <3>3, <4>2
    <3>4. CASE b # a /\ b \notin gone
      BY <3>1, <3>4
    <3> QED BY <3>2, <3>3, <3>4
  <2> HIDE DEF new, old
  <2> QED BY <2>2, <2>3, <2>4 DEF Kept
<1> HIDE DEF w, x
<1> QED BY <1>0, <1>2, <1>5, <1>6, <1>7 DEF Proposed

LEMMA ProposeStep ==
  ASSUME InputInv, NEW v \in Viewer, NEW who \in Viewer \cup Agent, NEW g \in Bridge,
         NEW a \in Action, NEW n \in 0..MaxChunks, Propose(v, who, g, a, n),
         UNCHANGED <<agent, human, lastInput>>
  PROVE  LockInv' /\ ProgressInv'
<1>1. Proposed(v, who, g, a) BY ProposeMoves
<1>2. \A b \in Action :
        /\ writer[b].gen # 0 => writer[b].gen \in Bridge
        /\ writer[b].outer # 0 => writer[b].outer \in Bridge
        /\ b # Nobody
  BY ThreadsAssumption DEF InputInv, TypeOK, WriterRec, Bridge
<1>3. LockInv'
  <2>1. ASSUME NEW b \in Action
        PROVE  /\ writer'[b].pc \in {"lock", "write"} => writer'[b].gen # 0
               /\ writer'[b].pc = "write" => lock'[writer'[b].gen] = b
               /\ Running(b)' /\ writer'[b].outer # 0 => lock'[writer'[b].outer] = b
               /\ writer'[b].pc = "none" => writer'[b].outer = 0
    <3>1. CASE b = a
      BY <1>1, <3>1 DEF InputInv, LockInv, Running, Proposed, Kept
    <3>2. CASE b # a
      BY <1>1, <1>2, <3>2 DEF InputInv, LockInv, Running, Proposed, Kept
    <3> QED BY <3>1, <3>2
  <2>2. ASSUME NEW w \in Viewer
        PROVE  /\ human'[w].pc # "idle" => human'[w].gen # 0
               /\ human'[w].pc = "write" => lock'[human'[w].gen] = w
    <3>1. w # Nobody BY ThreadsAssumption
    <3>2. human[w].gen # 0 => human[w].gen \in Bridge
      BY DEF InputInv, TypeOK, HumanRec, Bridge
    <3> QED BY <1>1, <3>1, <3>2 DEF InputInv, LockInv, Proposed, Kept
  <2> QED BY <2>1, <2>2 DEF LockInv
<1>4. ProgressInv'
  <2>1. writer[a].written = 0 BY <1>1 DEF Proposed, InputInv, ProgressInv, Kept
  <2> QED BY <1>1, <2>1 DEF Proposed, InputInv, ProgressInv, Kept
<1> QED BY <1>3, <1>4

LEMMA ApproveStep ==
  ASSUME InputInv, NEW v \in Viewer, NEW a \in Action, Approve(v, a)
  PROVE  LockInv' /\ ProgressInv'
<1>1. /\ actions[a].status = "pending_approval"
      /\ actions' = [actions EXCEPT ![a].status = "approved"]
      /\ writer' = [writer EXCEPT ![a].pc = "start"]
      /\ UNCHANGED <<human, lock>>
  BY DEF Approve, Decide
<1>2. writer[a].pc = "none" BY <1>1 DEF InputInv, ProgressInv
<1>3. writer[a].outer = 0 /\ writer[a].written = 0
  BY <1>2 DEF InputInv, LockInv, ProgressInv
<1>4. /\ \A b \in Action \ {a} : writer'[b] = writer[b] /\ actions'[b] = actions[b]
      /\ writer'[a].pc = "start" /\ writer'[a].outer = 0 /\ writer'[a].written = 0
      /\ actions'[a].status = "approved"
  BY <1>1, <1>3 DEF InputInv, TypeOK, WriterRec, ActionRec
<1>5. LockInv' BY <1>1, <1>4 DEF InputInv, LockInv, Running
<1>6. ProgressInv' BY <1>4 DEF InputInv, ProgressInv
<1> QED BY <1>5, <1>6

LEMMA HumanStep ==
  ASSUME InputInv, NEW v \in Viewer, HumanAdmit(v) \/ HumanNote(v) \/ HumanWrite(v)
  PROVE  LockInv' /\ ProgressInv'
<1>0. UNCHANGED <<actions, writer>>
  BY DEF HumanAdmit, HumanNote, HumanWrite
<1>1. ProgressInv' BY <1>0 DEF InputInv, ProgressInv
<1>2. \A w \in Viewer : /\ human[w] \in HumanRec
                        /\ w \notin Action /\ w # Nobody
                        /\ human[w].gen # 0 => human[w].gen \in Bridge
  BY ThreadsAssumption DEF InputInv, TypeOK, HumanRec, Bridge
<1>3. \A b \in Action : /\ b # Nobody
                        /\ writer[b].gen # 0 => writer[b].gen \in Bridge
                        /\ writer[b].outer # 0 => writer[b].outer \in Bridge
  BY ThreadsAssumption DEF InputInv, TypeOK, WriterRec, Bridge
<1>4. CASE HumanAdmit(v)
  <2>1. /\ \A w \in Viewer \ {v} : human'[w] = human[w]
        /\ human'[v] = [pc |-> "wait", gen |-> bridge]
        /\ bridge # 0 /\ UNCHANGED lock
    BY <1>4 DEF HumanAdmit, InputInv, TypeOK
  <2>2. human'[v].pc = "wait" /\ human'[v].gen # 0
    BY <2>1
  <2> QED BY <1>0, <1>1, <2>1, <2>2 DEF InputInv, LockInv, Running
<1> DEFINE g == human[v].gen
<1>5. CASE HumanNote(v)
  <2>1. /\ g \in Bridge /\ g # 0 /\ lock[g] = Nobody
        /\ \A w \in Viewer \ {v} : human'[w] = human[w]
        /\ human'[v].gen = g /\ human'[v].pc = "write"
        /\ \A h \in Bridge : lock'[h] = IF h = g THEN v ELSE lock[h]
    BY <1>2, <1>5 DEF HumanNote, InputInv, TypeOK, LockInv, HumanRec
  <2> HIDE DEF g
  <2>2. \A w \in Viewer : /\ human'[w].pc # "idle" => human'[w].gen # 0
                          /\ human'[w].pc = "write" => lock'[human'[w].gen] = w
    BY <1>2, <2>1 DEF InputInv, LockInv
  <2> QED BY <1>0, <1>1, <1>3, <2>1, <2>2 DEF InputInv, LockInv, Running
<1>6. CASE HumanWrite(v)
  <2>1. /\ g \in Bridge /\ g # 0 /\ lock[g] = v
        /\ \A w \in Viewer \ {v} : human'[w] = human[w]
        /\ human'[v].pc = "idle"
        /\ \A h \in Bridge : lock'[h] = IF h = g THEN Nobody ELSE lock[h]
    BY <1>2, <1>6 DEF HumanWrite, Idle, InputInv, TypeOK, LockInv, HumanRec
  <2> HIDE DEF g
  <2>2. \A w \in Viewer : /\ human'[w].pc # "idle" => human'[w].gen # 0
                          /\ human'[w].pc = "write" => lock'[human'[w].gen] = w
    BY <1>2, <2>1 DEF InputInv, LockInv
  <2>3. \A b \in Action : b # v BY <1>2
  <2> QED BY <1>0, <1>1, <1>3, <2>1, <2>2, <2>3 DEF InputInv, LockInv, Running
<1> QED BY <1>1, <1>4, <1>5, <1>6

\* What a step of the writer of a may do to the writer, the locks and the action.
Moved(a, pc) ==
  /\ writer'[a].pc = pc
  /\ writer'[a].outer = writer[a].outer

Released(a) ==
  \A h \in Bridge : lock'[h] = lock[h] \/ (lock'[h] = Nobody /\ lock[h] \in {Nobody, a})

WriterReturned(a) ==
  /\ writer[a].pc \in {"start", "next", "lock", "final"}
  /\ Moved(a, "done") /\ writer'[a].written = writer[a].written
  /\ writer'[a].into = writer[a].into
  /\ Released(a) /\ UNCHANGED lastInput
  /\ actions'[a].status \in {actions[a].status, "failed", "completed"}
  /\ actions'[a].status # actions[a].status => Stored(a)
  /\ actions'[a].status = "completed" =>
       \/ actions[a].status = "completed"
       \/ writer[a].written = actions[a].chunks /\ actions[a].status \in Writable

WriterAdvanced(a) ==
  /\ writer'[a].written = writer[a].written /\ writer'[a].into = writer[a].into
  /\ UNCHANGED <<actions, lastInput>>
  /\ \/ /\ writer[a].pc = "start" /\ Moved(a, "next")
        /\ actions[a].chunks > 0 /\ UNCHANGED lock
     \/ /\ writer[a].pc = "next" /\ Moved(a, "lock")
        /\ writer'[a].gen = bridge /\ bridge # 0 /\ UNCHANGED lock
     \/ /\ writer[a].pc = "lock" /\ Moved(a, "write")
        /\ writer'[a].gen = writer[a].gen /\ lock[writer[a].gen] \in {Nobody, a}
        /\ lock' = [lock EXCEPT ![writer[a].gen] = a]
        /\ Allowed(a)
        /\ actions[a].status \in Writable /\ agent[actions[a].viewer].lease = 0

WriterWrote(a) ==
  LET g == writer[a].gen
      last == writer[a].written + 1 = actions[a].chunks
  IN
  /\ writer[a].pc = "write" /\ Moved(a, IF last THEN "final" ELSE "next")
  /\ writer'[a].written = writer[a].written + 1
  /\ writer'[a].into = writer[a].into \cup {g}
  /\ lastInput' = [lastInput EXCEPT ![g] = a]
  /\ lock' = IF writer[a].outer = g THEN lock ELSE [lock EXCEPT ![g] = Nobody]
  /\ UNCHANGED actions

LEMMA ReturnMoves ==
  ASSUME InputInv, NEW a \in Action, NEW result \in {"ok", "error"},
         NEW held \in SUBSET (0..MaxBridge), Return(a, result, held),
         writer[a].pc \in {"start", "next", "lock", "final"},
         \A g \in held : lock[g] \in {Nobody, a}
  PROVE  /\ Moved(a, "done") /\ writer'[a].written = writer[a].written
         /\ writer'[a].into = writer[a].into
         /\ \A b \in Action \ {a} : writer'[b] = writer[b]
         /\ Released(a)
<1>1. /\ Moved(a, "done") /\ writer'[a].written = writer[a].written
      /\ writer'[a].into = writer[a].into
      /\ \A b \in Action \ {a} : writer'[b] = writer[b]
  <2> DEFINE w == [writer EXCEPT ![a].pc = "done"]
             x == [w EXCEPT ![a].result = result]
  <2>1. writer' = x BY DEF Return
  <2>2. w \in [Action -> WriterRec] /\ w[a].pc = "done" /\ w[a].outer = writer[a].outer
        /\ w[a].written = writer[a].written /\ w[a].into = writer[a].into
        /\ \A b \in Action \ {a} : w[b] = writer[b]
    BY DEF InputInv, TypeOK, WriterRec
  <2> HIDE DEF w
  <2>3. x[a].pc = "done" /\ x[a].outer = writer[a].outer
        /\ x[a].written = writer[a].written /\ x[a].into = writer[a].into
        /\ \A b \in Action \ {a} : x[b] = writer[b]
    BY <2>2 DEF WriterRec
  <2> QED BY <2>1, <2>3 DEF Moved
<1>2. Released(a)
  <2>1. writer[a].outer \in Bridge => lock[writer[a].outer] = a
    BY DEF InputInv, LockInv, Running, Bridge
  <2>2. \A h \in Bridge : lock'[h] = IF h \in {writer[a].outer} \cup held THEN Nobody
                                     ELSE lock[h]
    BY DEF Return
  <2> QED BY <2>1, <2>2 DEF Released
<1> QED BY <1>1, <1>2

LEMMA FailedMoves ==
  ASSUME InputInv, NEW a \in Action, actions' = Cancelled({a})
  PROVE  /\ actions'[a].status = "failed" /\ Kept(a)
         /\ \A b \in Action \ {a} : actions'[b] = actions[b]
<1>1. actions'[a] = [actions[a] EXCEPT !.status = "failed"] BY DEF Cancelled
<1>2. actions[a] \in ActionRec BY DEF InputInv, TypeOK
<1> QED BY <1>1, <1>2 DEF Cancelled, ActionRec, Kept

LEMMA WriteCases ==
  ASSUME InputInv, NEW a \in Action, Write(a)
  PROVE  /\ WriterIdle
         /\ \A b \in Action \ {a} : writer'[b] = writer[b] /\ actions'[b] = actions[b]
         /\ Kept(a)
         /\ WriterReturned(a) \/ WriterAdvanced(a) \/ WriterWrote(a)
<1>0. actions[a] \in ActionRec /\ writer[a] \in WriterRec
  BY DEF InputInv, TypeOK
<1> DEFINE Rest == \A b \in Action \ {a} : writer'[b] = writer[b] /\ actions'[b] = actions[b]
<1>1. WriterIdle
  BY DEF Write, WriterStart, WriterPick, WriterLock, WriterWrite, WriterFinal, WriterIdle
<1>2. ASSUME NEW held \in SUBSET (0..MaxBridge), CheckFails(a, held), UNCHANGED lastInput,
             writer[a].pc \in {"start", "lock"}, \A g \in held : lock[g] \in {Nobody, a}
      PROVE  WriterReturned(a) /\ Rest /\ Kept(a)
  <2>1. actions' = actions \/ (actions' = Cancelled({a}) /\ Stored(a))
    BY <1>2 DEF CheckFails, Fenced
  <2>2. /\ actions'[a].status \in {actions[a].status, "failed"} /\ Kept(a)
        /\ actions'[a].status # actions[a].status => Stored(a)
        /\ \A b \in Action \ {a} : actions'[b] = actions[b]
    BY <2>1, FailedMoves DEF Kept
  <2>3. Return(a, "error", held) BY <1>2 DEF CheckFails
  <2> QED BY <1>2, <2>2, <2>3, ReturnMoves DEF WriterReturned
<1>3. ASSUME actions' = [actions EXCEPT ![a].status = "completed"]
      PROVE  /\ actions'[a].status = "completed" /\ Kept(a)
             /\ \A b \in Action \ {a} : actions'[b] = actions[b]
  BY <1>3 DEF InputInv, TypeOK, ActionRec, Kept
<1>4. ASSUME NEW pc \in {"next", "write"}, writer' = [writer EXCEPT ![a].pc = pc]
      PROVE  /\ Moved(a, pc) /\ writer'[a].written = writer[a].written
             /\ writer'[a].into = writer[a].into /\ writer'[a].gen = writer[a].gen
             /\ \A b \in Action \ {a} : writer'[b] = writer[b]
  BY <1>4 DEF InputInv, TypeOK, WriterRec, Moved
<1>5. CASE WriterStart(a)
  <2>0. writer[a].pc = "start" /\ writer[a].written = 0 /\ UNCHANGED lastInput
    BY <1>5 DEF WriterStart, InputInv, ProgressInv
  <2>1. CASE CheckFails(a, {})
    BY <1>1, <1>2, <2>0, <2>1
  <2>2. CASE /\ actions[a].chunks = 0 /\ Allowed(a)
             /\ actions' = [actions EXCEPT ![a].status = "completed"]
             /\ Return(a, "ok", {})
    BY <1>1, <1>3, <2>0, <2>2, ReturnMoves DEF WriterReturned, Allowed, Rejected, Fenced
  <2>3. CASE /\ actions[a].chunks > 0
             /\ writer' = [writer EXCEPT ![a].pc = "next"]
             /\ UNCHANGED <<actions, lock>>
    BY <1>1, <1>4, <2>0, <2>3 DEF WriterAdvanced, Kept
  <2> QED BY <1>5, <2>1, <2>2, <2>3 DEF WriterStart
<1>6. CASE WriterPick(a)
  <2>0. writer[a].pc = "next" /\ UNCHANGED <<actions, lastInput>>
    BY <1>6 DEF WriterPick
  <2>1. CASE Return(a, "error", {})
    BY <1>1, <2>0, <2>1, ReturnMoves DEF WriterReturned, Kept
  <2>2. CASE bridge # 0 /\ writer' = [writer EXCEPT ![a].pc = "lock", ![a].gen = bridge]
             /\ UNCHANGED lock
    <3> DEFINE w == [writer EXCEPT ![a].pc = "lock"]
               x == [w EXCEPT ![a].gen = bridge]
    <3>1. writer' = x BY <2>2
    <3>2. w \in [Action -> WriterRec] /\ w[a].pc = "lock" /\ w[a].outer = writer[a].outer
          /\ w[a].written = writer[a].written /\ w[a].into = writer[a].into
          /\ \A b \in Action \ {a} : w[b] = writer[b]
      BY DEF InputInv, TypeOK, WriterRec
    <3> HIDE DEF w
    <3>3. x[a].pc = "lock" /\ x[a].outer = writer[a].outer /\ x[a].gen = bridge
          /\ x[a].written = writer[a].written /\ x[a].into = writer[a].into
          /\ \A b \in Action \ {a} : x[b] = writer[b]
      BY <3>2 DEF WriterRec
    <3> QED BY <1>1, <2>0, <2>2, <3>1, <3>3 DEF Moved, WriterAdvanced, Kept
  <2> QED BY <1>6, <2>1, <2>2 DEF WriterPick
<1>7. CASE WriterLock(a)
  <2> DEFINE g == writer[a].gen
  <2>0. /\ writer[a].pc = "lock" /\ UNCHANGED lastInput
        /\ lock[g] \in {Nobody, a} /\ g \in 0..MaxBridge
    BY <1>0, <1>7 DEF WriterLock, WriterRec
  <2>1. CASE CheckFails(a, {g})
    <3> HIDE DEF g
    <3> QED BY <1>1, <1>2, <2>0, <2>1
  <2>2. CASE Allowed(a) /\ writer' = [writer EXCEPT ![a].pc = "write"]
             /\ lock' = [lock EXCEPT ![g] = a] /\ UNCHANGED actions
    <3>1. actions[a].status \in Writable /\ agent[actions[a].viewer].lease = 0
      BY <2>2 DEF Allowed, Rejected
    <3> QED BY <1>1, <1>4, <2>0, <2>2, <3>1 DEF WriterAdvanced, Kept
  <2> QED BY <1>7, <2>1, <2>2 DEF WriterLock
<1>8. CASE WriterWrite(a)
  <2> DEFINE g == writer[a].gen
             last == writer[a].written + 1 = actions[a].chunks
             pc == IF last THEN "final" ELSE "next"
             w == [writer EXCEPT ![a].pc = pc]
             x == [w EXCEPT ![a].written = @ + 1]
             y == [x EXCEPT ![a].into = @ \cup {g}]
  <2>1. writer' = y BY <1>8 DEF WriterWrite
  <2>2. w \in [Action -> WriterRec] /\ w[a].pc = pc /\ w[a].outer = writer[a].outer
        /\ w[a].written = writer[a].written /\ w[a].into = writer[a].into
        /\ \A b \in Action \ {a} : w[b] = writer[b]
    BY DEF InputInv, TypeOK, WriterRec
  <2> HIDE DEF w
  <2>3. x \in [Action -> WriterRec] /\ x[a].pc = pc /\ x[a].outer = writer[a].outer
        /\ x[a].written = writer[a].written + 1 /\ x[a].into = writer[a].into
        /\ \A b \in Action \ {a} : x[b] = writer[b]
    BY <2>2 DEF WriterRec
  <2> HIDE DEF x
  <2>4. y[a].pc = pc /\ y[a].outer = writer[a].outer
        /\ y[a].written = writer[a].written + 1
        /\ y[a].into = writer[a].into \cup {g}
        /\ \A b \in Action \ {a} : y[b] = writer[b]
    BY <2>3 DEF WriterRec
  <2> HIDE DEF y
  <2> QED BY <1>1, <1>8, <2>1, <2>4 DEF WriterWrite, WriterWrote, Moved, Kept
<1>9. CASE WriterFinal(a)
  <2>0. /\ writer[a].pc = "final" /\ UNCHANGED lastInput
        /\ writer[a].written = actions[a].chunks
    BY <1>9 DEF WriterFinal, InputInv, ProgressInv
  <2>1. /\ actions'[a].status \in {actions[a].status, "failed", "completed"} /\ Kept(a)
        /\ actions'[a].status # actions[a].status => Stored(a)
        /\ actions'[a].status = "completed" =>
             actions[a].status \in Writable \cup {"completed"}
        /\ \A b \in Action \ {a} : actions'[b] = actions[b]
    <3>1. \/ actions' = actions \/ (actions' = Cancelled({a}) /\ Stored(a))
          \/ /\ Stored(a)
             /\ actions' = [actions EXCEPT ![a].status = "completed"]
             /\ actions[a].status \in Writable
      BY <1>9 DEF WriterFinal
    <3> QED BY <1>3, <3>1, FailedMoves DEF Kept
  <2>2. \E result \in {"ok", "error"} : Return(a, result, {})
    BY <1>9 DEF WriterFinal
  <2> QED BY <1>1, <2>0, <2>1, <2>2, ReturnMoves DEF WriterReturned
<1> QED BY <1>5, <1>6, <1>7, <1>8, <1>9 DEF Write

\* The writer itself.
LEMMA WriteStep ==
  ASSUME InputInv, NEW a \in Action, Write(a)
  PROVE  LockInv' /\ ProgressInv'
<1>0. /\ UNCHANGED <<agent, human>>
      /\ \A b \in Action \ {a} : writer'[b] = writer[b] /\ actions'[b] = actions[b]
      /\ actions'[a].chunks = actions[a].chunks
      /\ WriterReturned(a) \/ WriterAdvanced(a) \/ WriterWrote(a)
  BY WriteCases DEF WriterIdle, Kept
<1>1. \A b \in Action : /\ b # Nobody /\ b \notin Viewer
                        /\ writer[b].gen # 0 => writer[b].gen \in Bridge
                        /\ writer[b].outer # 0 => writer[b].outer \in Bridge
                        /\ writer[b].written \in Nat /\ actions[b].chunks \in Nat
  BY ThreadsAssumption DEF InputInv, TypeOK, WriterRec, ActionRec, Bridge
<1>2. \A v \in Viewer : v # Nobody /\ (human[v].gen # 0 => human[v].gen \in Bridge)
  BY ThreadsAssumption DEF InputInv, TypeOK, HumanRec, Bridge
<1>3. \A h \in Bridge : lock'[h] = lock[h] \/ lock[h] \in {Nobody, a}
  <2>1. CASE WriterReturned(a)
    BY <2>1 DEF WriterReturned, Released
  <2>2. CASE WriterAdvanced(a)
    BY <2>2 DEF WriterAdvanced, InputInv, TypeOK
  <2>3. CASE WriterWrote(a)
    <3>1. lock[writer[a].gen] = a BY <2>3 DEF WriterWrote, InputInv, LockInv
    <3> QED BY <2>3, <3>1 DEF WriterWrote, InputInv, TypeOK
  <2> QED BY <1>0, <2>1, <2>2, <2>3
<1>4. LockInv'
  <2>1. ASSUME NEW b \in Action
        PROVE  /\ writer'[b].pc \in {"lock", "write"} => writer'[b].gen # 0
               /\ writer'[b].pc = "write" => lock'[writer'[b].gen] = b
               /\ Running(b)' /\ writer'[b].outer # 0 => lock'[writer'[b].outer] = b
               /\ writer'[b].pc = "none" => writer'[b].outer = 0
    <3>1. CASE b # a
      BY <1>0, <1>1, <1>3, <3>1 DEF InputInv, LockInv, Running
    <3>2. CASE b = a /\ WriterReturned(a)
      BY <3>2 DEF WriterReturned, Moved, Running
    <3>3. CASE b = a /\ WriterAdvanced(a)
      <4>1. Running(a) BY <3>3 DEF WriterAdvanced, Running
      <4>2. writer[a].outer # 0 => lock'[writer[a].outer] = a
        BY <1>1, <3>3, <4>1 DEF WriterAdvanced, InputInv, LockInv, TypeOK
      <4>3. writer'[a].pc = "write" =>
              /\ writer'[a].gen = writer[a].gen /\ writer[a].gen # 0
              /\ lock'[writer[a].gen] = a
        BY <1>1, <3>3 DEF WriterAdvanced, Moved, InputInv, LockInv, TypeOK
      <4>4. writer'[a].pc = "lock" => writer'[a].gen # 0
        BY <3>3 DEF WriterAdvanced, Moved
      <4> QED BY <3>3, <4>2, <4>3, <4>4 DEF WriterAdvanced, Moved
    <3>4. CASE b = a /\ WriterWrote(a)
      <4>1. writer[a].outer # 0 => lock[writer[a].outer] = a
        BY <3>4 DEF WriterWrote, InputInv, LockInv, Running
      <4>2. writer[a].outer # 0 => lock'[writer[a].outer] = a
        BY <1>1, <3>4, <4>1 DEF WriterWrote, InputInv, TypeOK
      <4> QED BY <3>4, <4>2 DEF WriterWrote, Moved
    <3> QED BY <1>0, <3>1, <3>2, <3>3, <3>4
  <2>2. ASSUME NEW w \in Viewer
        PROVE  /\ human'[w].pc # "idle" => human'[w].gen # 0
               /\ human'[w].pc = "write" => lock'[human'[w].gen] = w
    BY <1>0, <1>1, <1>2, <1>3 DEF InputInv, LockInv
  <2> QED BY <2>1, <2>2 DEF LockInv
<1>5. ProgressInv'
  <2>1. ASSUME NEW b \in Action, b # a
        PROVE  writer'[b] = writer[b] /\ actions'[b] = actions[b]
    BY <1>0, <2>1
  <2>2. CASE WriterReturned(a)
    <3>1. /\ writer'[a].pc = "done" /\ writer[a].pc # "none" /\ writer[a].pc # "done"
          /\ writer'[a].written = writer[a].written
          /\ writer[a].written <= actions[a].chunks
          /\ actions[a].status # "completed"
      BY <1>1, <2>2 DEF WriterReturned, Moved, InputInv, ProgressInv
    <3> QED BY <1>0, <2>1, <2>2, <3>1 DEF WriterReturned, InputInv, ProgressInv
  <2>3. CASE WriterAdvanced(a)
    BY <1>0, <1>1, <2>1, <2>3 DEF WriterAdvanced, Moved, InputInv, ProgressInv
  <2>4. CASE WriterWrote(a)
    BY <1>0, <1>1, <2>1, <2>4 DEF WriterWrote, Moved, InputInv, ProgressInv
  <2> QED BY <1>0, <2>2, <2>3, <2>4
<1> QED BY <1>4, <1>5

LEMMA InitInput == Init => InputInv
<1> SUFFICES ASSUME Init PROVE InputInv
  OBVIOUS
<1>1. /\ \A a \in Action : writer[a] = NoWriter /\ actions[a] = NoAction
      /\ \A v \in Viewer : human[v] = Idle
  BY DEF Init
<1>2. LockInv BY <1>1 DEF LockInv, NoWriter, Idle, Running
<1>3. ProgressInv BY <1>1 DEF ProgressInv, NoWriter, NoAction
<1> QED BY <1>2, <1>3, InitType DEF InputInv

LEMMA InputStep == InputInv /\ [Next]_vars => InputInv'
<1> SUFFICES ASSUME InputInv, [Next]_vars PROVE InputInv'
  OBVIOUS
<1>1. TypeOK /\ TypeOK' BY TypeStep DEF InputInv
<1> QED
  BY <1>1, StepCases, QuietStep, ProposeStep, ApproveStep, HumanStep, WriteStep DEF InputInv

\* The inductive invariant behind the results below.
THEOREM InputInvariant == Spec => []InputInv
BY InitInput, InputStep, PTL DEF Spec

\* Two threads are never inside the write of one bridge: each holds its lock.
THEOREM WritesAreExclusive == Spec => []WritesExclusive
<1>1. InputInv => WritesExclusive
  <2> SUFFICES ASSUME InputInv PROVE WritesExclusive
    OBVIOUS
  <2>1. \A a \in Action, v \in Viewer : a # v BY ThreadsAssumption
  <2> QED BY <2>1 DEF InputInv, LockInv, WritesExclusive
<1> QED BY <1>1, InputInvariant, PTL

\* The input of an action is written at most once, and wholly when the action
\* is reported completed, for any number of viewers, agents and chunks.
THEOREM InputWrittenOnce == Spec => []WrittenOnce
<1>1. InputInv => WrittenOnce
  <2> SUFFICES ASSUME InputInv, NEW a \in Action
               PROVE  /\ writer[a].written <= actions[a].chunks
                      /\ actions[a].status = "completed" =>
                           writer[a].written = actions[a].chunks
    BY DEF WrittenOnce
  <2>1. /\ writer[a] \in WriterRec /\ actions[a] \in ActionRec
    BY DEF InputInv, TypeOK
  <2> QED BY <2>1 DEF InputInv, ProgressInv, WriterRec, ActionRec
<1> QED BY <1>1, InputInvariant, PTL

\* An outcome is never overwritten, by any step of any thread.
THEOREM OutcomesAreFinal == Spec => OutcomeIsFinal
<1>1. ASSUME InputInv, [Next]_vars, NEW a \in Action, actions[a].status \in EndStatus
      PROVE  actions'[a].status \in {actions[a].status, "evicted"}
  <2>0. actions[a].status \in {"completed", "failed", "rejected"}
    BY <1>1 DEF EndStatus
  <2>1. CASE Quiet
    BY <2>0, <2>1 DEF Quiet, SameAction, Kept, OpenStatus
  <2>2. ASSUME NEW v \in Viewer, NEW who \in Viewer \cup Agent, NEW g \in Bridge,
               NEW b \in Action, NEW n \in 0..MaxChunks, Propose(v, who, g, b, n)
        PROVE  actions'[a].status \in {actions[a].status, "evicted"}
    <3>1. Proposed(v, who, g, b) BY <1>1, <2>2, ProposeMoves
    <3> QED BY <2>0, <3>1 DEF Proposed, Kept
  <2>3. ASSUME NEW v \in Viewer, NEW b \in Action, Approve(v, b)
        PROVE  actions'[a].status = actions[a].status
    BY <1>1, <2>0, <2>3 DEF Approve, Decide, InputInv, TypeOK
  <2>4. ASSUME NEW v \in Viewer, HumanAdmit(v) \/ HumanNote(v) \/ HumanWrite(v)
        PROVE  actions'[a].status = actions[a].status
    BY <2>4 DEF HumanAdmit, HumanNote, HumanWrite
  <2>5. ASSUME NEW b \in Action, Write(b)
        PROVE  actions'[a].status = actions[a].status
    <3>1. CASE a # b
      BY <1>1, <2>5, <3>1, WriteCases
    <3>2. CASE a = b /\ WriterReturned(a)
      <4>1. writer[a].pc \notin {"none", "done"} BY <3>2 DEF WriterReturned
      <4>2. actions[a].status = "failed"
        BY <1>1, <2>0, <4>1 DEF InputInv, ProgressInv
      <4> QED BY <3>2, <4>2 DEF WriterReturned, Writable
    <3>3. CASE WriterAdvanced(b) \/ WriterWrote(b)
      BY <3>3 DEF WriterAdvanced, WriterWrote
    <3> QED BY <1>1, <2>5, <3>1, <3>2, <3>3, WriteCases
  <2>6. TypeOK BY <1>1 DEF InputInv
  <2> QED BY <1>1, <2>1, <2>2, <2>3, <2>4, <2>5, <2>6, StepCases
<1>2. InputInv /\ [Next]_vars =>
        \A a \in Action : actions[a].status \in EndStatus =>
          actions'[a].status \in {actions[a].status, "evicted"}
  BY <1>1
<1> QED BY <1>2, InputInvariant, PTL DEF Spec, OutcomeIsFinal

-----------------------------------------------------------------------------
(* Human input and direct bursts.                                          *)

OwnerInv ==
  \A a \in Action :
    /\ writer[a].pc # "none" => actions[a].viewer \in Viewer
    /\ 0 \notin writer[a].into
    /\ writer[a].pc = "none" => writer[a].into = {}

OrderInv == OwnerInv /\ HumanFirst /\ DirectBurst

LEMMA QuietOrder ==
  ASSUME InputInv, OrderInv, Quiet
  PROVE  OrderInv'
<1>1. OwnerInv' BY DEF OrderInv, OwnerInv, Quiet, SameAction, Kept
<1>2. ASSUME NEW a \in Action, writer'[a].pc = "write"
      PROVE  agent'[actions'[a].viewer].lease # writer'[a].gen
  <2>1. actions[a].viewer \in Viewer /\ actions'[a].viewer = actions[a].viewer
        /\ writer[a].gen # 0 /\ writer' = writer
        /\ agent[actions[a].viewer].lease # writer[a].gen
    BY <1>2 DEF Quiet, SameAction, Kept, OrderInv, OwnerInv, HumanFirst, InputInv, LockInv
  <2>2. agent'[actions[a].viewer].lease \in {agent[actions[a].viewer].lease, 0}
    BY <2>1 DEF Quiet
  <2> QED BY <2>1, <2>2
<1>3. DirectBurst' BY DEF OrderInv, DirectBurst, Quiet, Running
<1> QED BY <1>1, <1>2, <1>3 DEF OrderInv, HumanFirst

LEMMA ProposeOrder ==
  ASSUME InputInv, OrderInv, NEW v \in Viewer, NEW who, NEW g \in Bridge, NEW a \in Action,
         Proposed(v, who, g, a), UNCHANGED <<agent, human, lastInput>>
  PROVE  OrderInv'
<1>1. OwnerInv' BY DEF OrderInv, OwnerInv, Proposed, Kept
<1>2. HumanFirst' BY DEF OrderInv, HumanFirst, Proposed, Kept
<1>3. DirectBurst' BY DEF OrderInv, OwnerInv, DirectBurst, Proposed, Running, Kept
<1> QED BY <1>1, <1>2, <1>3 DEF OrderInv

LEMMA ApproveOrder ==
  ASSUME InputInv, OrderInv, NEW v \in Viewer, NEW a \in Action, Approve(v, a)
  PROVE  OrderInv'
<1>1. /\ a \in StoredBy(v) /\ actions[a].status = "pending_approval"
      /\ actions' = [actions EXCEPT ![a].status = "approved"]
      /\ writer' = [writer EXCEPT ![a].pc = "start"]
      /\ UNCHANGED <<agent, lastInput>>
  BY DEF Approve, Decide
<1>2. writer[a].pc = "none" /\ actions[a].viewer = v
  BY <1>1 DEF InputInv, ProgressInv, StoredBy
<1>3. /\ \A b \in Action \ {a} : writer'[b] = writer[b] /\ actions'[b] = actions[b]
      /\ writer'[a].pc = "start" /\ writer'[a].into = writer[a].into
      /\ writer'[a].outer = writer[a].outer /\ actions'[a].viewer = v
  BY <1>1, <1>2 DEF InputInv, TypeOK, WriterRec, ActionRec
<1>4. OwnerInv' BY <1>2, <1>3 DEF OrderInv, OwnerInv
<1>5. HumanFirst' BY <1>1, <1>3 DEF OrderInv, HumanFirst
<1>6. DirectBurst' BY <1>1, <1>2, <1>3 DEF OrderInv, OwnerInv, DirectBurst, Running
<1> QED BY <1>4, <1>5, <1>6 DEF OrderInv

LEMMA HumanOrder ==
  ASSUME InputInv, OrderInv, NEW v \in Viewer,
         HumanAdmit(v) \/ HumanNote(v) \/ HumanWrite(v)
  PROVE  OrderInv'
<1>0. UNCHANGED <<actions, writer>>
  BY DEF HumanAdmit, HumanNote, HumanWrite
<1>1. OwnerInv' BY <1>0 DEF OrderInv, OwnerInv
<1>2. \A a \in Action : a # Nobody /\ a # v /\ (writer[a].outer # 0 => writer[a].outer \in Bridge)
  BY ThreadsAssumption DEF InputInv, TypeOK, WriterRec, Bridge
<1>3. CASE HumanAdmit(v)
  BY <1>0, <1>1, <1>3 DEF HumanAdmit, OrderInv, HumanFirst, DirectBurst, Running
<1>4. CASE HumanNote(v)
  <2>1. ASSUME NEW a \in Action, writer[a].pc = "write"
        PROVE  agent'[actions[a].viewer].lease # writer[a].gen
    <3>1. lock[writer[a].gen] = a /\ actions[a].viewer \in Viewer
      BY <2>1 DEF InputInv, LockInv, OrderInv, OwnerInv
    <3>2. human[v].gen # writer[a].gen
      BY <1>2, <1>4, <3>1 DEF HumanNote
    <3>3. agent'[actions[a].viewer].lease \in {agent[actions[a].viewer].lease, human[v].gen}
      BY <1>4, <3>1 DEF HumanNote, InputInv, TypeOK, AgentRec
    <3> QED BY <2>1, <3>2, <3>3 DEF OrderInv, HumanFirst
  <2>2. HumanFirst' BY <1>0, <2>1 DEF HumanFirst
  <2>3. DirectBurst' BY <1>0, <1>4 DEF HumanNote, OrderInv, DirectBurst, Running
  <2> QED BY <1>1, <2>2, <2>3 DEF OrderInv
<1>5. CASE HumanWrite(v)
  <2>1. HumanFirst' BY <1>0, <1>5 DEF HumanWrite, OrderInv, HumanFirst
  <2>2. ASSUME NEW a \in Action, Running(a), writer[a].outer \in writer[a].into
        PROVE  lastInput'[writer[a].outer] = a
    <3>1. writer[a].outer # 0 BY <2>2 DEF OrderInv, OwnerInv
    <3>2. lock[writer[a].outer] = a /\ lock[human[v].gen] = v
      BY <1>5, <2>2, <3>1 DEF HumanWrite, InputInv, LockInv
    <3>3. human[v].gen # writer[a].outer BY <1>2, <3>2
    <3>4. lastInput'[writer[a].outer] = lastInput[writer[a].outer]
      BY <1>2, <1>5, <3>1, <3>3 DEF HumanWrite, InputInv, TypeOK
    <3> QED BY <2>2, <3>4 DEF OrderInv, DirectBurst
  <2>3. DirectBurst' BY <1>0, <2>2 DEF DirectBurst, Running
  <2> QED BY <1>1, <2>1, <2>3 DEF OrderInv
<1> QED BY <1>3, <1>4, <1>5

LEMMA WriteOrder ==
  ASSUME InputInv, OrderInv, NEW a \in Action, Write(a)
  PROVE  OrderInv'
<1>0. /\ UNCHANGED <<agent, human>>
      /\ \A b \in Action \ {a} : writer'[b] = writer[b] /\ actions'[b] = actions[b]
      /\ actions'[a].viewer = actions[a].viewer
      /\ WriterReturned(a) \/ WriterAdvanced(a) \/ WriterWrote(a)
  BY WriteCases DEF WriterIdle, Kept
<1>1. \A b \in Action : /\ writer[b].gen # 0 => writer[b].gen \in Bridge
                        /\ writer[b].outer # 0 => writer[b].outer \in Bridge
  BY DEF InputInv, TypeOK, WriterRec, Bridge
<1>2. OwnerInv'
  <2>1. CASE WriterReturned(a)
    BY <1>0, <2>1 DEF OrderInv, OwnerInv, WriterReturned, Moved
  <2>2. CASE WriterAdvanced(a)
    BY <1>0, <2>2 DEF OrderInv, OwnerInv, WriterAdvanced, Moved
  <2>3. CASE WriterWrote(a)
    <3>1. writer[a].gen # 0 /\ writer[a].pc = "write"
      BY <2>3 DEF WriterWrote, InputInv, LockInv
    <3>2. writer'[a].into = writer[a].into \cup {writer[a].gen}
          /\ writer'[a].pc \in {"final", "next"}
      BY <2>3 DEF WriterWrote, Moved
    <3> QED BY <1>0, <3>1, <3>2 DEF OrderInv, OwnerInv
  <2> QED BY <1>0, <2>1, <2>2, <2>3
<1>3. HumanFirst'
  <2>1. ASSUME NEW b \in Action, b # a, writer'[b].pc = "write"
        PROVE  agent'[actions'[b].viewer].lease # writer'[b].gen
    BY <1>0, <2>1 DEF OrderInv, HumanFirst
  <2>2. ASSUME writer'[a].pc = "write"
        PROVE  agent'[actions'[a].viewer].lease # writer'[a].gen
    <3>1. /\ writer[a].pc = "lock" /\ writer'[a].gen = writer[a].gen
          /\ agent[actions[a].viewer].lease = 0
      BY <1>0, <2>2 DEF WriterReturned, WriterAdvanced, WriterWrote, Moved
    <3>2. writer[a].gen # 0 BY <3>1 DEF InputInv, LockInv
    <3> QED BY <1>0, <3>1, <3>2
  <2> QED BY <2>1, <2>2 DEF HumanFirst
<1>4. DirectBurst'
  <2>1. ASSUME NEW b \in Action, b # a, Running(b)', writer'[b].outer \in writer'[b].into
        PROVE  lastInput'[writer'[b].outer] = b
    <3>1. /\ writer'[b] = writer[b] /\ Running(b) /\ writer[b].outer \in writer[b].into
      BY <1>0, <2>1 DEF Running
    <3>2. writer[b].outer # 0 /\ lock[writer[b].outer] = b
          /\ lastInput[writer[b].outer] = b
      BY <3>1 DEF OrderInv, OwnerInv, DirectBurst, InputInv, LockInv
    <3>3. CASE UNCHANGED lastInput
      BY <3>1, <3>2, <3>3
    <3>4. CASE WriterWrote(a)
      <4>1. lock[writer[a].gen] = a
        BY <3>4 DEF WriterWrote, InputInv, LockInv
      <4>2. writer[a].gen # writer[b].outer BY <2>1, <3>2, <4>1
      <4>3. lastInput'[writer[b].outer] = lastInput[writer[b].outer]
        BY <1>1, <3>2, <3>4, <4>2 DEF WriterWrote, InputInv, TypeOK
      <4> QED BY <3>1, <3>2, <4>3
    <3> QED BY <1>0, <3>3, <3>4 DEF WriterReturned, WriterAdvanced
  <2>2. ASSUME Running(a)', writer'[a].outer \in writer'[a].into
        PROVE  lastInput'[writer'[a].outer] = a
    <3>1. CASE WriterAdvanced(a)
      BY <2>2, <3>1 DEF WriterAdvanced, Moved, Running, OrderInv, DirectBurst
    <3>2. CASE WriterWrote(a)
      <4>1. /\ writer[a].pc = "write" /\ writer'[a].outer = writer[a].outer
            /\ writer'[a].into = writer[a].into \cup {writer[a].gen}
            /\ lastInput' = [lastInput EXCEPT ![writer[a].gen] = a]
        BY <3>2 DEF WriterWrote, Moved
      <4>2. writer[a].gen \in Bridge BY <1>1, <4>1 DEF InputInv, LockInv
      <4>3. CASE writer[a].outer = writer[a].gen
        BY <4>1, <4>2, <4>3 DEF InputInv, TypeOK
      <4>4. CASE writer[a].outer # writer[a].gen
        <5>1. writer[a].outer \in writer[a].into /\ Running(a)
          BY <2>2, <4>1, <4>4 DEF Running
        <5>2. writer[a].outer \in Bridge /\ lastInput[writer[a].outer] = a
          BY <1>1, <5>1 DEF OrderInv, OwnerInv, DirectBurst
        <5> QED BY <4>1, <4>4, <5>2 DEF InputInv, TypeOK
      <4> QED BY <4>3, <4>4
    <3>3. CASE WriterReturned(a)
      BY <2>2, <3>3 DEF WriterReturned, Moved, Running
    <3> QED BY <1>0, <3>1, <3>2, <3>3
  <2> QED BY <2>1, <2>2 DEF DirectBurst
<1> QED BY <1>2, <1>3, <1>4 DEF OrderInv

LEMMA OrderInvariant == Spec => []OrderInv
<1>1. Init => OrderInv
  <2> SUFFICES ASSUME Init PROVE OrderInv
    OBVIOUS
  <2>1. \A a \in Action : writer[a] = NoWriter BY DEF Init
  <2> QED BY <2>1 DEF NoWriter, OrderInv, OwnerInv, HumanFirst, DirectBurst, Running
<1>2. InputInv /\ OrderInv /\ [Next]_vars => OrderInv'
  <2> SUFFICES ASSUME InputInv, OrderInv, [Next]_vars PROVE OrderInv'
    OBVIOUS
  <2>1. TypeOK BY DEF InputInv
  <2> QED
    BY <2>1, StepCases, QuietOrder, ProposeMoves, ProposeOrder, ApproveOrder,
       HumanOrder, WriteOrder
<1> QED BY <1>1, <1>2, InputInvariant, PTL DEF Spec

\* Human input typed into a bridge is never followed by a chunk of an agent
\* while its lease runs, for any number of viewers, agents and terminals.
THEOREM HumanInputFirst == Spec => []HumanFirst
<1>1. OrderInv => HumanFirst BY DEF OrderInv
<1> QED BY <1>1, OrderInvariant, PTL

\* A direct action reaches its bridge as one burst.
THEOREM DirectIsOneBurst == Spec => []DirectBurst
<1>1. OrderInv => DirectBurst BY DEF OrderInv
<1> QED BY <1>1, OrderInvariant, PTL

=============================================================================
