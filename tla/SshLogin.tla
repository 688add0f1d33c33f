------------------------------ MODULE SshLogin ------------------------------
(***************************************************************************)
(* Logging in to the hops of an SSH route, one after the other: the login  *)
(* cards in the page (src/static/js/standterm-ssh-login.js), the page that *)
(* owns them (src/templates/index.html), and the thread of the server that *)
(* makes the connection and asks for what it needs                         *)
(* (src/terminal_backends/ssh.py).  Messages arrive in order, but an old   *)
(* attempt's thread may still be sending when the next attempt begins, a   *)
(* lost socket loses what is under way, and another page of the same       *)
(* session may start the terminal, which ends this page's attempt without  *)
(* a word.                                                                 *)
(***************************************************************************)
EXTENDS Naturals, Sequences

CONSTANTS Attempt,   \* attempts in the order they are made, 1..n
          Hops,      \* nodes of the route, the last one is the target
          Tries,     \* passwords per node, 3 in the code
          MaxDown,   \* bound: messages on their way to the page
          MaxAway,   \* bound: how often the user leaves the tab or the socket is lost
          None

ASSUME LoginAssumption == /\ Hops \in Nat \ {0} /\ Tries \in Nat \ {0} /\ MaxAway \in Nat /\ MaxDown \in Nat
                          /\ Attempt \subseteq Nat /\ None \notin Nat

Node == 1..Hops
Requests == Attempt \X Nat   \* the attempt that asks, and its how-manieth request
Kinds == {"host_key", "password"}
Phases == {"waiting", "connect", "verify_and_authenticate", "host_key", "password",
           "authenticate", "authenticated", "shell", "complete", "failed"}
Flows == [attempt : Attempt, index : 0..Hops, finished : BOOLEAN, seen : SUBSET Requests,
          phase : [Node -> Phases],
          ask   : [Node -> [request : Requests \cup {None}, kind : Kinds \cup {None}]],
          input : [Node -> Requests \cup {None}]]

ASSUME NoneAssumption == None \notin Phases \cup Requests \cup Flows

VARIABLES
    draft,    \* the attempt the page is making, or None
    flow,     \* its login cards, or None
    active,   \* the tab is the one on show
    srv,      \* srv[a]: the thread of attempt a
    down, up, \* messages to the page, and to the server
    away      \* for the bound

vars == <<draft, flow, active, srv, down, up, away>>

(* A request is named by its attempt and its number, a card by its node.  *)
Idle == [state |-> "none", node |-> 1, step |-> "connect", kind |-> None, asked |-> 0, tries |-> 0]
Over(state) == [Idle EXCEPT !.state = state]   \* nothing of an ended attempt is used again
Request(a) == <<a, srv[a].asked>>
Waits(t) == t.state \in {"ask", "refused"}   \* for an answer; a refused one leaves it waiting
Running(a) == srv[a].state \in {"run", "ask", "refused", "expired"}

NoAsk == [request |-> None, kind |-> None]
Cards(a) == [attempt |-> a, index |-> 0, finished |-> FALSE, seen |-> {},
             phase |-> [n \in Node |-> "waiting"],
             ask   |-> [n \in Node |-> NoAsk],
             input |-> [n \in Node |-> None]]   \* the request a password was typed for

Init == /\ draft = None /\ flow = None /\ active = TRUE
        /\ srv = [a \in Attempt |-> Idle]
        /\ down = <<>> /\ up = <<>> /\ away = 0

----------------------------------------------------------------------------
(* The page. *)
ClearInput(f, nodes) == [f EXCEPT !.ask = [n \in Node |-> IF n \in nodes THEN NoAsk ELSE @[n]],
                                  !.input = [n \in Node |-> IF n \in nodes THEN None ELSE @[n]]]

\* Fault: a message for the node that is already on show counts as old.
Faulty_Rejects(f, m) ==
    \/ f.finished \/ m.attempt # f.attempt
    \/ m.node <= f.index

Rejects(f, m) ==
    \/ f.finished \/ m.attempt # f.attempt
    \/ m.node < f.index
    \/ m.type = "prompt" /\ m.request \in f.seen
    \/ f.phase[m.node] \in {"authenticated", "complete"} /\ m.phase # "shell"

Shown(m) == IF m.node = Hops /\ m.phase = "authenticated" THEN "shell" ELSE m.phase

(* A message turns to its node, and no other node keeps a prompt or an input. *)
Handle(f, m) ==
    LET g == [ClearInput(f, Node) EXCEPT !.index = m.node, !.phase[m.node] = Shown(m)]
    IN  IF Rejects(f, m) THEN f
        ELSE IF m.type # "prompt" THEN g
        ELSE [g EXCEPT !.seen = @ \cup {m.request},
                       !.ask[m.node] = [request |-> m.request, kind |-> m.phase]]

Finish(f, success, node) ==
    [ClearInput(f, Node) EXCEPT
        !.finished = TRUE,
        !.phase = [n \in Node |-> IF success THEN "complete" ELSE IF n = node THEN "failed" ELSE @[n]]]

Start(a) ==
    /\ draft = None /\ flow = None
    /\ srv[a] = Idle /\ \A b \in Attempt : b < a => srv[b] # Idle
    /\ \A i \in DOMAIN up : up[i].type # "start"
    /\ draft' = a /\ flow' = Cards(a)
    /\ up' = Append(up, [type |-> "start", attempt |-> a])
    /\ UNCHANGED <<active, srv, down, away>>

Type(n) ==
    /\ flow # None /\ active /\ ~ flow.finished
    /\ flow.ask[n].kind = "password" /\ flow.input[n] = None
    /\ flow' = [flow EXCEPT !.input[n] = flow.ask[n].request]
    /\ UNCHANGED <<draft, active, srv, down, up, away>>

\* Fault: the answer leaves the page, and its prompt and input stay behind.
Faulty_Reply(n) ==
    /\ flow # None /\ active /\ ~ flow.finished /\ flow.ask[n].request # None
    /\ flow.ask[n].kind = "password" => flow.input[n] # None
    /\ up' = Append(up, [type |-> "answer", attempt |-> flow.attempt, node |-> n,
                         request |-> flow.ask[n].request, kind |-> flow.ask[n].kind,
                         typed |-> flow.input[n]])
    /\ UNCHANGED <<draft, flow, active, srv, down, away>>

(* The answer leaves the page with the request it belongs to, and leaves nothing behind. *)
Reply(n) ==
    /\ flow # None /\ active /\ ~ flow.finished /\ flow.ask[n].request # None
    /\ flow.ask[n].kind = "password" => flow.input[n] # None
    /\ flow' = [ClearInput(flow, {n}) EXCEPT
                  !.phase[n] = IF flow.ask[n].kind = "password" THEN "authenticate"
                               ELSE "verify_and_authenticate"]
    /\ up' = IF draft # flow.attempt THEN up
             ELSE Append(up, [type |-> "answer", attempt |-> flow.attempt, node |-> n,
                              request |-> flow.ask[n].request, kind |-> flow.ask[n].kind,
                              typed |-> flow.input[n]])
    /\ UNCHANGED <<draft, active, srv, down, away>>

CancelConnection ==
    /\ flow # None /\ ~ flow.finished
    /\ up' = Append(up, [type |-> "cancel", attempt |-> draft])
    /\ draft' = None /\ flow' = None
    /\ UNCHANGED <<active, srv, down, away>>

Back == /\ flow # None /\ flow.finished
        /\ draft' = None /\ flow' = None
        /\ UNCHANGED <<active, srv, down, up, away>>

SwitchTab == /\ away < MaxAway /\ away' = away + 1
             /\ active' = ~ active
             /\ UNCHANGED <<draft, flow, srv, down, up>>

(* A message of an attempt that is not the page's own is dropped. *)
Receive ==
    /\ down # <<>> /\ down' = Tail(down)
    /\ LET m == Head(down)
       IN  IF flow = None \/ m.attempt # draft THEN UNCHANGED <<draft, flow>>
           ELSE \/ /\ m.type \in {"prompt", "progress"}
                   /\ flow' = Handle(flow, m) /\ UNCHANGED draft
                \/ /\ m.type = "connected"
                   /\ flow' = None /\ draft' = None
                \/ /\ m.type = "error"
                   /\ flow' = Finish(flow, FALSE, m.node) /\ draft' = None
    /\ UNCHANGED <<active, srv, up, away>>

(* The socket is lost: the page forgets its logins, the server cancels them. *)
Disconnect ==
    /\ away < MaxAway /\ away' = away + 1
    /\ draft' = None /\ flow' = None /\ down' = <<>> /\ up' = <<>>
    /\ srv' = [a \in Attempt |-> IF Running(a) THEN Over("cancelled") ELSE srv[a]]
    /\ UNCHANGED active

----------------------------------------------------------------------------
(* The server. *)
Say(a, type, phase, t) ==
    /\ Len(down) < MaxDown
    /\ srv' = [srv EXCEPT ![a] = t]
    /\ down' = Append(down, [type |-> type, attempt |-> a, node |-> srv[a].node, phase |-> phase,
                             request |-> <<a, t.asked>>])
    /\ UNCHANGED <<draft, flow, active, up, away>>

(* An answer to the request that is waiting ends the wait.  One that is too long, *)
(* or whose client is not allowed any more, is dropped; the page is not told.     *)
Resolve(m) ==
    LET t == srv[m.attempt]
    IN  IF Waits(t) /\ m.node = t.node /\ m.kind = t.kind /\ m.request = Request(m.attempt)
        THEN srv' \in {[srv EXCEPT ![m.attempt].state = s] : s \in {"run", "refused"}}
        ELSE srv' = srv

(* What the page sends is handled at once: a start or a cancel ends the older connection. *)
Serve ==
    /\ up # <<>> /\ up' = Tail(up)
    /\ LET m == Head(up)
       IN  \/ /\ m.type = "start"
              /\ srv' = [a \in Attempt |-> IF a = m.attempt THEN [Idle EXCEPT !.state = "run"]
                                           ELSE IF Running(a) THEN Over("cancelled")
                                           ELSE srv[a]]
           \/ /\ m.type = "cancel"
              /\ srv' = [srv EXCEPT ![m.attempt] = IF Running(m.attempt) THEN Over("cancelled") ELSE @]
           \/ m.type = "answer" /\ Resolve(m)
    /\ UNCHANGED <<draft, flow, active, down, away>>

(* Another page starts or closes the terminal: the attempt ends, and its own page is not told. *)
Supersede(a) ==
    /\ Running(a) /\ srv' = [srv EXCEPT ![a] = Over("superseded")]
    /\ UNCHANGED <<draft, flow, active, down, up, away>>

At(a, step) == srv[a].state = "run" /\ srv[a].step = step
Goto(a, step) == [srv[a] EXCEPT !.step = step]

Connect(a) == At(a, "connect") /\ Say(a, "progress", "connect", Goto(a, "verify"))
Verify(a) == At(a, "verify") /\ Say(a, "progress", "verify_and_authenticate", Goto(a, "hostkey"))

(* The thread waits for an answer to a request of its own. *)
Ask(a, kind, then) ==
    Say(a, "prompt", kind, [Goto(a, then) EXCEPT !.state = "ask", !.kind = kind, !.asked = @ + 1])
AskHostKey(a) == At(a, "hostkey") /\ Ask(a, "host_key", "auth")
KnownHost(a) == /\ At(a, "hostkey")
                /\ srv' = [srv EXCEPT ![a].step = "auth"]
                /\ UNCHANGED <<draft, flow, active, down, up, away>>
AskPassword(a) == At(a, "auth") /\ Ask(a, "password", "authenticate")
KeyLogin(a) == At(a, "auth") /\ srv[a].tries = 0 /\ Say(a, "progress", "authenticate", Goto(a, "accepted"))
Authenticate(a) == At(a, "authenticate") /\ Say(a, "progress", "authenticate",
                        [Goto(a, "answered") EXCEPT !.tries = @ + 1])
WrongPassword(a) == /\ At(a, "answered") /\ srv[a].tries < Tries
                    /\ srv' = [srv EXCEPT ![a].step = "auth"]
                    /\ UNCHANGED <<draft, flow, active, down, up, away>>
Authenticated(a) == /\ At(a, "answered") \/ At(a, "accepted")
                    /\ Say(a, "progress", "authenticated", Goto(a, "next"))
NextHop(a) == /\ At(a, "next") /\ srv[a].node < Hops
              /\ srv' = [srv EXCEPT ![a].node = @ + 1, ![a].step = "connect", ![a].tries = 0]
              /\ UNCHANGED <<draft, flow, active, down, up, away>>
OpenShell(a) == At(a, "next") /\ srv[a].node = Hops /\ Say(a, "progress", "shell", Goto(a, "shell"))
Connected(a) == At(a, "shell") /\ Say(a, "connected", None, Over("done"))

(* The deadline passes, or the remote side hangs up, before the thread wakes up and gives up. *)
Expire(a) == /\ Waits(srv[a])
             /\ srv' = [srv EXCEPT ![a].state = "expired"]
             /\ UNCHANGED <<draft, flow, active, down, up, away>>
\* Fault: a thread whose request ran out of time ends without a word.
Faulty_Fail(a) ==
    /\ srv[a].state = "expired"
    /\ srv' = [srv EXCEPT ![a] = Over("failed")]
    /\ UNCHANGED <<draft, flow, active, down, up, away>>

Fail(a) == /\ srv[a].state = "expired" \/ (srv[a].state = "run" /\ srv[a].step # "connect")
           /\ Say(a, "error", None, Over("failed"))

Thread(a) ==
    \/ Connect(a) \/ Verify(a) \/ AskHostKey(a) \/ KnownHost(a) \/ AskPassword(a) \/ KeyLogin(a)
    \/ Authenticate(a) \/ WrongPassword(a) \/ Authenticated(a) \/ NextHop(a) \/ OpenShell(a)
    \/ Connected(a) \/ Expire(a) \/ Fail(a)

Next ==
    \/ \E a \in Attempt : Start(a) \/ Thread(a) \/ Supersede(a)
    \/ \E n \in Node : Type(n) \/ Reply(n)
    \/ CancelConnection \/ Back \/ SwitchTab \/ Receive \/ Disconnect \/ Serve

Spec == Init /\ [][Next]_vars

(* Messages are delivered, and what a thread waits for has a limit of time, but for the  *)
(* remote side that is to open a shell.  The user owes nothing.                          *)
FairSpec == /\ Spec /\ WF_vars(Receive) /\ WF_vars(Serve)
            /\ \A a \in Attempt : WF_vars(~ At(a, "shell") /\ Thread(a))

----------------------------------------------------------------------------
\* What the page holds for one node and request goes nowhere else: a password is
\* in the card of the request it was typed for, under a prompt that still stands,
\* or on its way as the only answer to that request.
AnswersBelong ==
    /\ flow # None => \A n \in Node : flow.input[n] # None =>
          ~ flow.finished /\ n = flow.index /\ flow.input[n] = flow.ask[n].request
    /\ \A i \in DOMAIN up : up[i].type = "answer" =>
          /\ up[i].request[1] = up[i].attempt
          /\ up[i].kind = "password" => up[i].typed = up[i].request
          /\ \A j \in DOMAIN up : (up[j].type = "answer" /\ up[j].request = up[i].request) => j = i

\* A prompt is not lost on the way to its answer: while the server waits and has
\* refused nothing, and its messages have arrived, the card of the waiting node
\* shows that request, unless the answer or a cancel is on its way.
PromptShown ==
    \A a \in Attempt :
        (srv[a].state = "ask" /\ draft = a /\ \A i \in DOMAIN down : down[i].attempt # a) =>
            \/ flow.ask[srv[a].node] = [request |-> Request(a), kind |-> srv[a].kind]
            \/ \E i \in DOMAIN up : up[i].type = "answer" /\ up[i].request = Request(a)

\* Cards that are still working come to an end, with or without the user, even if
\* an answer was refused.  Two things keep them working: a remote side that never
\* opens the shell, and another page that has taken the terminal.
Working(a) == flow # None /\ ~ flow.finished /\ flow.attempt = a
LoginEnds ==
    \A a \in Attempt :
        []<>(~ At(a, "shell")) => (Working(a) ~> (~ Working(a) \/ srv[a].state = "superseded"))
=============================================================================
