--------------------------- MODULE SshLoginProofs ---------------------------
(***************************************************************************)
(* Every answer of the page belongs to the request it was given for, and   *)
(* the prompt of a thread that waits, and has refused nothing, is on show: *)
(* theorems about SshLogin for any number of attempts, hops, passwords,    *)
(* and for messages that are on their way without a limit.                 *)
(***************************************************************************)
EXTENDS SshLogin, SequenceTheorems, TLAPS

-----------------------------------------------------------------------------
(* Types.                                                                  *)

Threads ==
  [state : {"none", "run", "ask", "refused", "expired", "cancelled", "superseded", "done", "failed"},
   node : Node, kind : Kinds \cup {None}, asked : Nat, tries : Nat,
   step : {"connect", "verify", "hostkey", "auth", "authenticate", "answered",
           "accepted", "next", "shell"}]

\* What a thread says, under its own name: the phase of a prompt is its kind,
\* and only the end of an attempt has none.
Reported == {"connect", "verify_and_authenticate", "authenticate", "authenticated", "shell"}
Messages ==
  {m \in [type : {"prompt", "progress", "connected", "error"}, attempt : Attempt,
          node : Node, phase : Phases \cup {None}, request : Requests] :
     /\ m.request[1] = m.attempt
     /\ m.type = "prompt" => m.phase \in Kinds
     /\ m.type = "progress" => m.phase \in Reported
     /\ m.type \in {"connected", "error"} => m.phase = None}

\* An answer names the request it was asked by, and a password the one it was
\* typed for.
Answers ==
  {m \in [type : {"answer"}, attempt : Attempt, node : Node, request : Requests,
          kind : Kinds, typed : Requests \cup {None}] :
     /\ m.request[1] = m.attempt
     /\ m.kind = "password" => m.typed = m.request}
Orders == [type : {"start", "cancel"}, attempt : Attempt]

TypeOK ==
  /\ draft \in Attempt \cup {None}
  /\ flow \in Flows \cup {None}
  /\ srv \in [Attempt -> Threads]
  /\ down \in Seq(Messages)
  /\ up \in Seq(Answers \cup Orders)

-----------------------------------------------------------------------------
(* The inductive invariant.                                                *)

\* The requests the page has seen, and the one it shows for a node.
Seen        == IF flow = None THEN {} ELSE flow.seen
PromptAt(n) == IF flow = None THEN None ELSE flow.ask[n].request

\* The cards are those of the attempt the page makes, or have ended; a prompt
\* is shown on the node in turn only.
Open == flow # None /\ ~flow.finished
Page ==
  /\ draft # None => Open
  /\ Open => draft = flow.attempt
  /\ flow # None =>
       /\ \A r \in flow.seen : r[1] = flow.attempt
       /\ \A n \in Node :
            /\ flow.ask[n].request # None =>
                 /\ n = flow.index /\ ~flow.finished
                 /\ flow.ask[n].request \in flow.seen /\ flow.ask[n].kind \in Kinds
            /\ flow.input[n] # None => flow.input[n] = flow.ask[n].request

\* An attempt that was not served yet has at most one order to start on its way.
Starts ==
  /\ \A i \in DOMAIN up : up[i].type = "start" => srv[up[i].attempt].state = "none"
  /\ \A i, j \in DOMAIN up : up[i].type = "start" /\ up[j].type = "start" => i = j
  /\ \A a \in Attempt : srv[a].state = "none" => srv[a] = Idle

\* No request is asked twice, answered twice, or asked again once it was seen.
Once ==
  /\ \A i, j \in DOMAIN down :
       /\ down[i].type = "prompt" /\ down[j].type = "prompt"
       /\ down[i].request = down[j].request
       => i = j
  /\ \A i, j \in DOMAIN up :
       up[i].type = "answer" /\ up[j].type = "answer" /\ up[i].request = up[j].request
       => i = j
  /\ \A i \in DOMAIN down : down[i].type = "prompt" =>
       /\ down[i].request \notin Seen
       /\ \A j \in DOMAIN up : up[j].type = "answer" => up[j].request # down[i].request
  /\ \A j \in DOMAIN up : up[j].type = "answer" =>
       \A n \in Node : PromptAt(n) # up[j].request

\* The k-th request of a was made, so its next one has another number.
Known(a, k) == srv[a].state # "none" /\ (Running(a) => k <= srv[a].asked)
Numbers ==
  /\ \A i \in DOMAIN down : Known(down[i].attempt, down[i].request[2])
  /\ \A i \in DOMAIN up : up[i].type = "answer" => Known(up[i].attempt, up[i].request[2])
  /\ \A r \in Seen : Known(r[1], r[2])

\* Wherever the request that a waits for is, it has the node and kind of a.
Match(a) ==
  srv[a].state = "ask" =>
    /\ srv[a].step \in {"auth", "authenticate"} /\ srv[a].kind \in Kinds
    /\ \A i \in DOMAIN down : down[i].type = "prompt" /\ down[i].request = Request(a)
         => down[i].node = srv[a].node /\ down[i].phase = srv[a].kind
    /\ \A i \in DOMAIN up : up[i].type = "answer" /\ up[i].request = Request(a)
         => up[i].node = srv[a].node /\ up[i].kind = srv[a].kind
    /\ \A n \in Node : PromptAt(n) = Request(a)
         => n = srv[a].node /\ flow.ask[n].kind = srv[a].kind

\* Neither a message nor the page is ahead of the thread.
Going(a) == Running(a) \/ srv[a].state = "none"
Past(a, n) ==
  n < srv[a].node \/ (n = srv[a].node /\ srv[a].step \in {"next", "shell"})
Where(a) ==
  Going(a) =>
    /\ \A i \in DOMAIN down : down[i].attempt = a =>
         /\ down[i].node <= srv[a].node
         /\ down[i].phase = "authenticated" => Past(a, down[i].node)
    /\ draft = a =>
         /\ flow.index <= srv[a].node
         /\ \A n \in Node : flow.phase[n] \in {"authenticated", "complete"} => Past(a, n)

\* The last message of a thread that waits is its prompt; once that arrived,
\* it is on show, or answered.
LastOf(a, i) ==
  down[i].attempt = a /\ \A j \in DOMAIN down : j > i => down[j].attempt # a
Asked(a) ==
  srv[a].state = "ask" /\ draft = a =>
    /\ \A i \in DOMAIN down : LastOf(a, i)
         => down[i].type = "prompt" /\ down[i].request = Request(a)
    /\ \/ \E i \in DOMAIN down : down[i].attempt = a
       \/ PromptAt(srv[a].node) = Request(a)
       \/ \E i \in DOMAIN up : up[i].type = "answer" /\ up[i].request = Request(a)

LoginInv ==
  /\ TypeOK /\ Page /\ Starts /\ Once /\ Numbers
  /\ \A a \in Attempt : Match(a) /\ Where(a) /\ Asked(a)

-----------------------------------------------------------------------------
(* Messages on their way.                                                  *)

\* What a queue is once a message was sent, and once its first was taken.
LEMMA Queued ==
  ASSUME NEW S, NEW q \in Seq(S), NEW m \in S
  PROVE  /\ Append(q, m) \in Seq(S) /\ Len(q) \in Nat /\ DOMAIN q = 1..Len(q)
         /\ DOMAIN Append(q, m) = 1..(Len(q) + 1)
         /\ \A i \in 1..Len(q) : Append(q, m)[i] = q[i]
         /\ Append(q, m)[Len(q) + 1] = m
BY AppendProperties, LenProperties

LEMMA Taken ==
  ASSUME NEW S, NEW q \in Seq(S), q # <<>>
  PROVE  /\ Tail(q) \in Seq(S) /\ Head(q) \in S /\ Head(q) = q[1]
         /\ 1 \in DOMAIN q
         /\ \A i \in DOMAIN Tail(q) : i + 1 \in DOMAIN q /\ i + 1 # 1 /\ Tail(q)[i] = q[i + 1]
         /\ \A i \in DOMAIN q : i # 1 => i - 1 \in DOMAIN Tail(q) /\ Tail(q)[i - 1] = q[i]
<1>1. /\ Head(q) \in S /\ Tail(q) \in Seq(S) /\ Len(Tail(q)) = Len(q) - 1
      /\ \A i \in 1..Len(Tail(q)) : Tail(q)[i] = q[i + 1]
  BY HeadTailProperties
<1>2. Len(q) \in Nat \ {0}
  BY EmptySeq
<1>3. DOMAIN q = 1..Len(q) /\ DOMAIN Tail(q) = 1..(Len(q) - 1)
  BY <1>1, LenProperties
<1>4. Head(q) = q[1]
  OBVIOUS
<1> QED BY <1>1, <1>2, <1>3, <1>4

LEMMA Elements ==
  ASSUME NEW S, NEW q \in Seq(S)
  PROVE  \A i \in DOMAIN q : q[i] \in S /\ i \in Nat
BY LenProperties

\* Every message there is was there before, k places further back.
FewerDown(k) ==
  \A i \in DOMAIN down' : i + k \in DOMAIN down /\ down'[i] = down[i + k]
FewerAnswers(k) ==
  \A i \in DOMAIN up' : up'[i].type = "answer" =>
    i + k \in DOMAIN up /\ up'[i] = up[i + k]

\* The page asks for nothing new.
FewerPrompts ==
  /\ Seen' \subseteq Seen
  /\ \A n \in Node :
       \/ PromptAt(n)' = None
       \/ PromptAt(n)' = PromptAt(n) /\ flow'.ask[n].kind = flow.ask[n].kind

\* A thread keeps its number, and one that waits is as it was.
ThreadsStay ==
  \A a \in Attempt :
    /\ srv[a].state # "none" =>
         /\ srv'[a].state # "none"
         /\ Running(a)' => Running(a) /\ srv[a].asked = srv'[a].asked
    /\ srv'[a].state = "ask" => srv'[a] = srv[a]

LEMMA OnceStays ==
  ASSUME TypeOK, TypeOK', Once, NEW k \in Nat, NEW l \in Nat,
         FewerDown(k), FewerAnswers(l), FewerPrompts
  PROVE  Once'
<1>1. /\ \A i \in DOMAIN down' : i \in Nat
      /\ \A i \in DOMAIN up' : i \in Nat /\ (up'[i].type = "answer" => up'[i].request \in Requests)
  BY Elements DEF TypeOK, Answers, Orders
<1>2. \A i, j \in DOMAIN down' :
        down'[i].type = "prompt" /\ down'[j].type = "prompt" /\ down'[i].request = down'[j].request
          => i = j
  <2> SUFFICES ASSUME NEW i \in DOMAIN down', NEW j \in DOMAIN down',
                      down'[i].type = "prompt", down'[j].type = "prompt",
                      down'[i].request = down'[j].request
               PROVE  i = j
    OBVIOUS
  <2>1. i + k = j + k
    BY DEF Once, FewerDown
  <2> QED BY <1>1, <2>1
<1>3. \A i, j \in DOMAIN up' :
        up'[i].type = "answer" /\ up'[j].type = "answer" /\ up'[i].request = up'[j].request
          => i = j
  <2> SUFFICES ASSUME NEW i \in DOMAIN up', NEW j \in DOMAIN up',
                      up'[i].type = "answer", up'[j].type = "answer",
                      up'[i].request = up'[j].request
               PROVE  i = j
    OBVIOUS
  <2>1. i + l = j + l
    BY DEF Once, FewerAnswers
  <2> QED BY <1>1, <2>1
<1>4. ASSUME NEW i \in DOMAIN down', down'[i].type = "prompt"
      PROVE  /\ down'[i].request \notin Seen'
             /\ \A j \in DOMAIN up' : up'[j].type = "answer" => up'[j].request # down'[i].request
  BY <1>4 DEF Once, FewerDown, FewerAnswers, FewerPrompts
<1>5. ASSUME NEW j \in DOMAIN up', up'[j].type = "answer", NEW n \in Node
      PROVE  PromptAt(n)' # up'[j].request
  BY <1>1, <1>5, NoneAssumption DEF Once, FewerAnswers, FewerPrompts
<1> QED BY <1>2, <1>3, <1>4, <1>5 DEF Once

LEMMA KnownStays ==
  ASSUME ThreadsStay, NEW a \in Attempt, NEW k, Known(a, k)
  PROVE  Known(a, k)'
BY DEF ThreadsStay, Known

LEMMA NumbersStay ==
  ASSUME TypeOK, TypeOK', Numbers, ThreadsStay, NEW k \in Nat, NEW l \in Nat,
         FewerDown(k), FewerAnswers(l), FewerPrompts
  PROVE  Numbers'
<1>1. /\ \A i \in DOMAIN down : down[i].attempt \in Attempt
      /\ \A i \in DOMAIN up : up[i].attempt \in Attempt
      /\ \A r \in Seen : r[1] \in Attempt
  BY Elements DEF TypeOK, Messages, Answers, Orders, Seen, Flows, Requests
<1>2. \A i \in DOMAIN down' : Known(down[i].attempt, down[i].request[2])'
  BY <1>1, KnownStays DEF Numbers, FewerDown
<1>3. \A i \in DOMAIN up' : up'[i].type = "answer" =>
        Known(up[i].attempt, up[i].request[2])'
  BY <1>1, KnownStays DEF Numbers, FewerAnswers
<1>4. \A r \in Seen' : Known(r[1], r[2])'
  BY <1>1, KnownStays DEF Numbers, FewerPrompts
<1> QED BY <1>2, <1>3, <1>4 DEF Numbers

LEMMA MatchStays ==
  ASSUME TypeOK, NEW a \in Attempt, Match(a), srv'[a].state = "ask" => srv'[a] = srv[a],
         NEW k \in Nat, NEW l \in Nat, FewerDown(k), FewerAnswers(l), FewerPrompts
  PROVE  Match(a)'
<1> SUFFICES ASSUME srv'[a].state = "ask"
             PROVE  Match(a)'
  BY DEF Match
<1>1. srv'[a] = srv[a] /\ Request(a)' = Request(a) /\ Request(a) = <<a, srv[a].asked>>
  BY DEF Request
<1>2. Request(a) # None
  BY <1>1, NoneAssumption DEF TypeOK, Threads, Requests
<1>3. Request(a)' = Request(a)
  BY <1>1
<1> HIDE DEF Request
<1>4. \A n \in Node : PromptAt(n)' = Request(a)
        => n = srv[a].node /\ flow'.ask[n].kind = srv[a].kind
  BY <1>1, <1>2 DEF Match, FewerPrompts
<1> QED BY <1>1, <1>3, <1>4 DEF Match, FewerDown, FewerAnswers

\* The thread only goes forward, and the page stays on its node.
Forward(a) ==
  Going(a)' => /\ Going(a) /\ srv[a].node <= srv'[a].node
               /\ \A n \in Node : Past(a, n) => Past(a, n)'
PageStays(a) ==
  draft' = a =>
    \/ /\ draft = a /\ flow'.index = flow.index
       /\ \A n \in Node : flow'.phase[n] \in {"authenticated", "complete"}
                            => flow'.phase[n] = flow.phase[n]
    \/ flow'.index = 0 /\ \A n \in Node : flow'.phase[n] = "waiting"

LEMMA NodeIsNat == \A n \in Node : n \in Nat /\ 0 <= n
BY DEF Node

LEMMA ThreadNode ==
  ASSUME TypeOK, NEW a \in Attempt
  PROVE  srv[a] \in Threads /\ srv[a].node \in Node /\ srv[a].node \in Nat /\ 0 <= srv[a].node
BY NodeIsNat DEF TypeOK, Threads

LEMMA DownMessage ==
  ASSUME TypeOK, NEW i \in DOMAIN down
  PROVE  /\ down[i] \in Messages /\ down[i].attempt \in Attempt
         /\ down[i].node \in Node /\ down[i].node \in Nat
         /\ down[i].request \in Requests /\ down[i].request[1] = down[i].attempt
<1>1. down[i] \in Messages
  BY Elements DEF TypeOK
<1> QED BY <1>1, NodeIsNat DEF Messages

LEMMA WhereDown ==
  ASSUME TypeOK, TypeOK', NEW a \in Attempt, Where(a), Forward(a), NEW k \in Nat, FewerDown(k),
         Going(a)'
  PROVE  \A i \in DOMAIN down' : down'[i].attempt = a =>
           /\ down'[i].node <= srv'[a].node
           /\ down'[i].phase = "authenticated" => Past(a, down[i].node)'
<1>1. /\ srv[a].node \in Nat /\ srv'[a].node \in Nat
      /\ \A i \in DOMAIN down : down[i].node \in Node /\ down[i].node \in Nat
  <2>1. srv'[a] \in Threads
    BY DEF TypeOK
  <2> QED BY <2>1, ThreadNode, NodeIsNat, DownMessage DEF Threads
<1> SUFFICES ASSUME NEW i \in DOMAIN down', down'[i].attempt = a
             PROVE  /\ down'[i].node <= srv'[a].node
                    /\ down'[i].phase = "authenticated" => Past(a, down[i].node)'
  OBVIOUS
<1>2. i + k \in DOMAIN down /\ down'[i] = down[i + k]
  BY DEF FewerDown
<1>3. /\ down[i + k].node <= srv[a].node
      /\ down[i + k].phase = "authenticated" => Past(a, down[i + k].node)
  BY <1>2 DEF Where, Forward
<1>4. \A n \in Node : Past(a, n) => Past(a, n)'
  BY DEF Forward
<1> QED BY <1>1, <1>2, <1>3, <1>4 DEF Forward, Past

LEMMA WhereStays ==
  ASSUME TypeOK, TypeOK', NEW a \in Attempt, Where(a), Forward(a), PageStays(a),
         NEW k \in Nat, FewerDown(k), draft' = a => flow' \in Flows,
         draft = a => flow \in Flows
  PROVE  Where(a)'
<1> SUFFICES ASSUME Going(a)' PROVE Where(a)'
  BY DEF Where
<1>1. \A i \in DOMAIN down' : down'[i].attempt = a =>
        /\ down'[i].node <= srv'[a].node
        /\ down'[i].phase = "authenticated" => Past(a, down[i].node)'
  BY WhereDown
<1>2. ASSUME draft' = a
      PROVE  /\ flow'.index <= srv'[a].node
             /\ \A n \in Node : flow'.phase[n] \in {"authenticated", "complete"} => Past(a, n)'
  <2>1. srv[a].node \in Nat /\ srv'[a].node \in Nat /\ flow'.index \in Nat
    <3>1. srv'[a] \in Threads
      BY DEF TypeOK
    <3>2. flow'.index \in 0..Hops
      BY <1>2 DEF Flows
    <3> QED BY <3>1, <3>2, ThreadNode, NodeIsNat, LoginAssumption DEF Threads
  <2>2. CASE /\ draft = a /\ flow'.index = flow.index
             /\ \A n \in Node : flow'.phase[n] \in {"authenticated", "complete"}
                                  => flow'.phase[n] = flow.phase[n]
    BY <2>1, <2>2 DEF Where, Forward
  <2>3. CASE flow'.index = 0 /\ \A n \in Node : flow'.phase[n] = "waiting"
    BY <2>1, <2>3
  <2> QED BY <1>2, <2>2, <2>3 DEF PageStays
<1> QED BY <1>1, <1>2 DEF Where

\* Nothing about a request that is waited for happens.
LEMMA AskedStays ==
  ASSUME NEW a \in Attempt, Asked(a),
         srv'[a].state = "ask" /\ draft' = a =>
           /\ draft = a /\ srv'[a] = srv[a] /\ down' = down
           /\ \A n \in Node : PromptAt(n)' = PromptAt(n)
           /\ srv[a].node \in Node
           /\ \A i \in DOMAIN up : i \in DOMAIN up' /\ up'[i] = up[i]
  PROVE  Asked(a)'
<1> SUFFICES ASSUME srv'[a].state = "ask", draft' = a PROVE Asked(a)'
  BY DEF Asked
<1>1. /\ draft = a /\ srv'[a] = srv[a] /\ down' = down
      /\ PromptAt(srv[a].node)' = PromptAt(srv[a].node)
      /\ \A i \in DOMAIN up : i \in DOMAIN up' /\ up'[i] = up[i]
      /\ Request(a)' = Request(a)
  BY DEF Request
<1>2. \A i : LastOf(a, i)' <=> LastOf(a, i)
  BY <1>1 DEF LastOf
<1>4. \A i \in DOMAIN down' : LastOf(a, i)'
         => down'[i].type = "prompt" /\ down'[i].request = Request(a)'
  BY <1>1, <1>2 DEF Asked
<1>5. \/ \E i \in DOMAIN down' : down'[i].attempt = a
      \/ PromptAt(srv[a].node)' = Request(a)'
      \/ \E i \in DOMAIN up' : up'[i].type = "answer" /\ up'[i].request = Request(a)'
  <2>1. CASE \E i \in DOMAIN up : up[i].type = "answer" /\ up[i].request = Request(a)
    BY <1>1, <2>1
  <2> QED BY <1>1, <2>1 DEF Asked
<1> QED BY <1>4, <1>5 DEF Asked

LEMMA PageFlow ==
  ASSUME TypeOK, Page
  PROVE  /\ draft # None => flow \in Flows /\ flow # None /\ ~flow.finished /\ flow.attempt = draft
         /\ flow # None => flow \in Flows
         /\ \A a \in Attempt : a # None
BY LoginAssumption DEF TypeOK, Page, Open

\* A step that says, asks and answers nothing new.
LEMMA QuietStep ==
  ASSUME LoginInv, TypeOK', Page', Starts', ThreadsStay, NEW k \in Nat, NEW l \in Nat,
         FewerDown(k), FewerAnswers(l), FewerPrompts,
         \A a \in Attempt : Forward(a) /\ PageStays(a) /\ Asked(a)'
  PROVE  LoginInv'
<1>1. Once'
  BY OnceStays DEF LoginInv
<1>2. Numbers'
  BY NumbersStay DEF LoginInv
<1>3. ASSUME NEW a \in Attempt PROVE Match(a)' /\ Where(a)'
  <2>1. Match(a)'
    BY MatchStays DEF LoginInv, ThreadsStay
  <2>2. /\ draft' = a => flow' \in Flows
        /\ draft = a => flow \in Flows
    BY LoginAssumption DEF LoginInv, TypeOK, Page, Open
  <2>3. Where(a)'
    BY <2>2, WhereStays DEF LoginInv
  <2> QED BY <2>1, <2>3
<1> QED BY <1>1, <1>2, <1>3 DEF LoginInv

LEMMA SameThreads ==
  ASSUME TypeOK, srv' = srv
  PROVE  ThreadsStay /\ \A a \in Attempt : Forward(a)
<1>1. ThreadsStay
  BY DEF ThreadsStay, Running
<1>2. ASSUME NEW a \in Attempt PROVE Forward(a)
  <2>1. srv[a].node <= srv[a].node
    BY ThreadNode
  <2> QED BY <2>1 DEF Forward, Going, Running, Past
<1> QED BY <1>1, <1>2

LEMMA SameDown ==
  ASSUME TypeOK, down' = down
  PROVE  FewerDown(0)
<1>1. \A i \in DOMAIN down : i \in Nat
  BY Elements DEF TypeOK
<1> QED BY <1>1 DEF FewerDown

LEMMA SameUp ==
  ASSUME TypeOK, up' = up
  PROVE  FewerAnswers(0)
<1>1. \A i \in DOMAIN up : i \in Nat
  BY Elements DEF TypeOK
<1> QED BY <1>1 DEF FewerAnswers

\* An order of the page is no answer.
LEMMA OrderSent ==
  ASSUME TypeOK, NEW m \in Orders, up' = Append(up, m)
  PROVE  /\ up' \in Seq(Answers \cup Orders) /\ FewerAnswers(0)
         /\ \A i \in DOMAIN up' :
              \/ i \in DOMAIN up /\ up'[i] = up[i]
              \/ up'[i] = m /\ i \notin DOMAIN up
         /\ \A i, j \in DOMAIN up' : i \notin DOMAIN up /\ j \notin DOMAIN up => i = j
<1>1. up \in Seq(Answers \cup Orders) /\ m \in Answers \cup Orders
  BY DEF TypeOK
<1>2. /\ Append(up, m) \in Seq(Answers \cup Orders) /\ Len(up) \in Nat /\ DOMAIN up = 1..Len(up)
      /\ DOMAIN Append(up, m) = 1..(Len(up) + 1)
      /\ \A i \in 1..Len(up) : Append(up, m)[i] = up[i]
      /\ Append(up, m)[Len(up) + 1] = m
  BY <1>1, Queued
<1>3. \A i \in DOMAIN up' :
        \/ i \in DOMAIN up /\ up'[i] = up[i]
        \/ up'[i] = m /\ i = Len(up) + 1
  BY <1>2
<1>4. m.type # "answer"
  BY DEF Orders
<1>5. FewerAnswers(0)
  BY <1>2, <1>3, <1>4 DEF FewerAnswers
<1> QED BY <1>2, <1>3, <1>5

\* No cards, no prompt.
LEMMA NoPage ==
  ASSUME flow' = None \/ (flow' # None /\ flow'.seen = {}
                          /\ \A n \in Node : flow'.ask[n].request = None)
  PROVE  FewerPrompts
BY DEF FewerPrompts, Seen, PromptAt

-----------------------------------------------------------------------------
(* The page.                                                               *)

LEMMA InitLogin == Init => LoginInv
<1> SUFFICES ASSUME Init PROVE LoginInv
  OBVIOUS
<1>1. Idle \in Threads
  BY LoginAssumption DEF Idle, Threads, Node
<1>2. TypeOK
  BY <1>1, EmptySeq DEF Init, TypeOK
<1>3. DOMAIN down = {} /\ DOMAIN up = {} /\ Seen = {} /\ flow = None /\ draft = None
  BY DEF Init, Seen
<1>4. \A a \in Attempt : srv[a].state = "none" /\ srv[a] = Idle /\ a # None
  BY LoginAssumption DEF Init, Idle
<1>5. Page /\ Starts /\ Once /\ Numbers
  BY <1>3, <1>4 DEF Page, Open, Starts, Once, Numbers
<1>6. \A a \in Attempt : Match(a) /\ Where(a) /\ Asked(a)
  BY <1>3, <1>4 DEF Match, Where, Asked
<1> QED BY <1>2, <1>5, <1>6 DEF LoginInv

LEMMA StillStep ==
  ASSUME LoginInv, UNCHANGED <<draft, flow, srv, down, up>>
  PROVE  LoginInv'
<1>1. TypeOK /\ Page /\ Starts /\ \A a \in Attempt : Asked(a)
  BY DEF LoginInv
<1>2. TypeOK' /\ Page' /\ Starts'
  BY <1>1 DEF TypeOK, Page, Open, Starts
<1>3. FewerPrompts /\ (\A n : PromptAt(n)' = PromptAt(n)) /\ \A a \in Attempt : PageStays(a)
  BY DEF FewerPrompts, Seen, PromptAt, PageStays
<1>4. \A a \in Attempt : Asked(a)'
  BY <1>1, <1>3, ThreadNode, AskedStays
<1> QED BY <1>1, <1>2, <1>3, <1>4, SameDown, SameUp, SameThreads, QuietStep

LEMMA StartStep ==
  ASSUME LoginInv, NEW b \in Attempt, Start(b)
  PROVE  LoginInv'
<1> DEFINE m == [type |-> "start", attempt |-> b]
<1>1. /\ TypeOK /\ Starts /\ draft = None /\ flow = None /\ srv[b] = Idle
      /\ \A i \in DOMAIN up : up[i].type # "start"
      /\ draft' = b /\ flow' = Cards(b) /\ up' = Append(up, m)
      /\ srv' = srv /\ down' = down
  BY DEF Start, LoginInv
<1>2. /\ m \in Orders /\ b # None /\ srv[b].state = "none" /\ m.attempt = b
  BY <1>1, LoginAssumption DEF Orders, Idle
<1> HIDE DEF m
<1>3. /\ Cards(b) \in Flows /\ Cards(b).attempt = b /\ Cards(b).seen = {}
      /\ Cards(b).index = 0 /\ ~Cards(b).finished
      /\ \A n \in Node : /\ Cards(b).ask[n].request = None /\ Cards(b).input[n] = None
                         /\ Cards(b).phase[n] = "waiting"
  BY LoginAssumption DEF Cards, Flows, Phases, NoAsk
<1>4. Cards(b) # None
  BY <1>3, NoneAssumption
<1>5. TypeOK'
  BY <1>1, <1>2, <1>3, OrderSent DEF TypeOK
<1>6. Page'
  BY <1>1, <1>3, <1>4 DEF Page, Open
<1>7. Starts'
  BY <1>1, <1>2, OrderSent DEF Starts
<1>8. FewerPrompts
  BY <1>1, <1>3, <1>4, NoPage
<1>9. ASSUME NEW a \in Attempt PROVE PageStays(a) /\ Asked(a)'
  <2>1. PageStays(a)
    BY <1>1, <1>3 DEF PageStays
  <2>2. ~(srv'[a].state = "ask" /\ draft' = a)
    BY <1>1, <1>2
  <2> QED BY <2>1, <2>2 DEF Asked
<1> QED BY <1>1, <1>2, <1>5, <1>6, <1>7, <1>8, <1>9, OrderSent, SameDown, SameThreads, QuietStep

\* The page gives its cards up.
LEMMA GiveUp ==
  ASSUME LoginInv, draft' = None, flow' = None, srv' = srv, NEW k \in Nat,
         down' \in Seq(Messages), FewerDown(k), up' \in Seq(Answers \cup Orders), FewerAnswers(0),
         \A i \in DOMAIN up' : up'[i].type = "start" => i \in DOMAIN up /\ up'[i] = up[i]
  PROVE  LoginInv'
<1>1. TypeOK /\ \A a \in Attempt : a # None
  BY PageFlow DEF LoginInv
<1>2. TypeOK'
  BY <1>1 DEF TypeOK
<1>3. Page'
  BY DEF Page, Open
<1>4. Starts'
  BY DEF LoginInv, Starts
<1>5. \A a \in Attempt : PageStays(a) /\ Asked(a)'
  BY <1>1 DEF PageStays, Asked
<1> QED BY <1>1, <1>2, <1>3, <1>4, <1>5, SameThreads, NoPage, QuietStep

LEMMA CancelStep ==
  ASSUME LoginInv, CancelConnection \/ Back
  PROVE  LoginInv'
<1>0. TypeOK /\ up \in Seq(Answers \cup Orders) /\ down \in Seq(Messages)
  BY DEF LoginInv, TypeOK
<1>1. CASE CancelConnection
  <2> DEFINE m == [type |-> "cancel", attempt |-> draft]
  <2>1. draft \in Attempt
    BY <1>1, PageFlow DEF CancelConnection, LoginInv, Page, Open, Flows
  <2>2. m \in Orders /\ m.type = "cancel" /\ up' = Append(up, m)
    BY <1>1, <2>1 DEF CancelConnection, Orders
  <2> HIDE DEF m
  <2> QED BY <1>0, <1>1, <2>2, OrderSent, SameDown, GiveUp DEF CancelConnection
<1>2. CASE Back
  BY <1>0, <1>2, SameUp, SameDown, GiveUp DEF Back
<1> QED BY <1>1, <1>2

LEMMA TypeStep ==
  ASSUME LoginInv, NEW n \in Node, Type(n)
  PROVE  LoginInv'
<1> DEFINE v == [flow.input EXCEPT ![n] = flow.ask[n].request]
           g == [flow EXCEPT !.input = v]
<1>1. /\ TypeOK /\ Page /\ Starts /\ flow # None /\ ~flow.finished /\ flow \in Flows
      /\ flow.input[n] = None /\ flow' = g
      /\ UNCHANGED <<draft, srv, down, up>>
  BY PageFlow DEF Type, LoginInv
<1>2. flow.input \in [Node -> Requests \cup {None}] /\ flow.ask[n].request \in Requests \cup {None}
  BY <1>1 DEF Flows
<1>3. /\ v \in [Node -> Requests \cup {None}] /\ v[n] = flow.ask[n].request
      /\ \A p \in Node \ {n} : v[p] = flow.input[p]
  BY <1>2
<1> HIDE DEF v
<1>4. /\ g \in Flows /\ g.attempt = flow.attempt /\ g.index = flow.index
      /\ g.finished = flow.finished /\ g.seen = flow.seen /\ g.phase = flow.phase
      /\ g.ask = flow.ask /\ g.input = v
  BY <1>1, <1>3 DEF Flows
<1> HIDE DEF g
<1>5. flow' # None
  BY <1>1, <1>4, NoneAssumption
<1>6. TypeOK' /\ Starts'
  BY <1>1, <1>4 DEF TypeOK, Starts
<1>7. Page'
  BY <1>1, <1>3, <1>4, <1>5 DEF Page, Open
<1>8. FewerPrompts /\ \A p \in Node : PromptAt(p)' = PromptAt(p)
  BY <1>1, <1>4, <1>5 DEF FewerPrompts, Seen, PromptAt
<1>9. \A a \in Attempt : PageStays(a) /\ Asked(a)'
  <2>1. \A a \in Attempt : PageStays(a)
    BY <1>1, <1>4 DEF PageStays
  <2>2. \A a \in Attempt : Asked(a)'
    BY <1>1, <1>8, ThreadNode, AskedStays DEF LoginInv
  <2> QED BY <2>1, <2>2
<1> QED BY <1>1, <1>6, <1>7, <1>8, <1>9, SameDown, SameUp, SameThreads, QuietStep

\* What clearing the nodes in N leaves of the cards.
LEMMA Cleared ==
  ASSUME NEW f \in Flows, NEW N
  PROVE  LET g == ClearInput(f, N) IN
         /\ g \in Flows /\ g.attempt = f.attempt /\ g.index = f.index
         /\ g.finished = f.finished /\ g.seen = f.seen /\ g.phase = f.phase
         /\ \A n \in Node : /\ g.ask[n] = IF n \in N THEN NoAsk ELSE f.ask[n]
                            /\ g.input[n] = IF n \in N THEN None ELSE f.input[n]
<1> DEFINE A == [n \in Node |-> IF n \in N THEN NoAsk ELSE f.ask[n]]
           I == [n \in Node |-> IF n \in N THEN None ELSE f.input[n]]
           h == [f EXCEPT !.ask = A]
           g == [h EXCEPT !.input = I]
<1>1. /\ A \in [Node -> [request : Requests \cup {None}, kind : Kinds \cup {None}]]
      /\ I \in [Node -> Requests \cup {None}]
  BY DEF Flows, NoAsk
<1>2. ClearInput(f, N) = g
  BY DEF ClearInput, Flows
<1>3. \A n \in Node : /\ A[n] = IF n \in N THEN NoAsk ELSE f.ask[n]
                      /\ I[n] = IF n \in N THEN None ELSE f.input[n]
  OBVIOUS
<1> HIDE DEF A, I
<1>4. /\ h \in Flows /\ h.attempt = f.attempt /\ h.index = f.index
      /\ h.finished = f.finished /\ h.seen = f.seen /\ h.phase = f.phase /\ h.ask = A
  BY <1>1 DEF Flows
<1> HIDE DEF h
<1>5. /\ g \in Flows /\ g.attempt = h.attempt /\ g.index = h.index
      /\ g.finished = h.finished /\ g.seen = h.seen /\ g.phase = h.phase /\ g.ask = h.ask
      /\ g.input = I
  BY <1>1, <1>4 DEF Flows
<1> HIDE DEF g
<1> QED BY <1>2, <1>3, <1>4, <1>5

LEMMA ReplyStep ==
  ASSUME LoginInv, NEW n \in Node, Reply(n)
  PROVE  LoginInv'
<1> DEFINE r == flow.ask[n].request
           ph == IF flow.ask[n].kind = "password" THEN "authenticate"
                 ELSE "verify_and_authenticate"
           m == [type |-> "answer", attempt |-> flow.attempt, node |-> n, request |-> r,
                 kind |-> flow.ask[n].kind, typed |-> flow.input[n]]
           h == ClearInput(flow, {n})
           f == [h.phase EXCEPT ![n] = ph]
           g == [h EXCEPT !.phase = f]
<1>1. /\ TypeOK /\ Page /\ Starts /\ Once /\ Numbers
      /\ flow # None /\ ~flow.finished /\ flow \in Flows /\ r # None
      /\ flow.ask[n].kind = "password" => flow.input[n] # None
      /\ draft = flow.attempt
  BY PageFlow DEF Reply, LoginInv, Page, Open
<1>2. up' = Append(up, m) /\ flow' = g /\ UNCHANGED <<draft, srv, down>>
  BY <1>1, Cleared DEF Reply, Flows
<1>3. /\ n = flow.index /\ r \in Seen /\ r \in Requests /\ r[1] = flow.attempt
      /\ flow.ask[n].kind \in Kinds
      /\ flow.input[n] # None => flow.input[n] = r
      /\ PromptAt(n) = r /\ \A p \in Node \ {n} : PromptAt(p) = None
  BY <1>1 DEF Page, Seen, PromptAt, Flows
<1>4. /\ m \in Answers /\ m.request = r /\ m.node = n /\ m.kind = flow.ask[n].kind
      /\ m.type = "answer" /\ m.attempt = flow.attempt
  <2>1. /\ flow.attempt \in Attempt /\ flow.input[n] \in Requests \cup {None}
        /\ flow.ask[n].kind = "password" => flow.input[n] = r
    BY <1>1, <1>3 DEF Flows
  <2> HIDE DEF r
  <2> QED BY <1>3, <2>1 DEF Answers
<1>5. ph \in Phases /\ ph \notin {"authenticated", "complete"}
  BY DEF Phases
<1> HIDE DEF m, ph
<1>6. /\ h \in Flows /\ h.attempt = flow.attempt /\ h.index = flow.index
      /\ h.finished = flow.finished /\ h.seen = flow.seen /\ h.phase = flow.phase
      /\ \A p \in Node : /\ h.ask[p].request = None
                         /\ h.input[p] = IF p = n THEN None ELSE flow.input[p]
  BY <1>1, <1>3, Cleared DEF PromptAt, NoAsk
<1> HIDE DEF h
<1>7. /\ f \in [Node -> Phases]
      /\ \A p \in Node : f[p] \in {"authenticated", "complete"} => f[p] = flow.phase[p]
  BY <1>5, <1>6 DEF Flows
<1> HIDE DEF f
<1>8. /\ g \in Flows /\ g.attempt = flow.attempt /\ g.index = flow.index
      /\ g.finished = flow.finished /\ g.seen = flow.seen /\ g.phase = f
      /\ g.ask = h.ask /\ g.input = h.input
  BY <1>6, <1>7 DEF Flows
<1> HIDE DEF g
<1>9. flow' # None
  BY <1>2, <1>8, NoneAssumption
<1>10. /\ Append(up, m) \in Seq(Answers \cup Orders) /\ Len(up) \in Nat /\ DOMAIN up = 1..Len(up)
       /\ DOMAIN up' = 1..(Len(up) + 1)
       /\ \A i \in 1..Len(up) : up'[i] = up[i]
       /\ up'[Len(up) + 1] = m
  <2>1. up \in Seq(Answers \cup Orders) /\ m \in Answers \cup Orders
    BY <1>1, <1>4 DEF TypeOK
  <2> QED BY <1>2, <2>1, Queued
<1>11. \A i \in DOMAIN up' :
         \/ i \in DOMAIN up /\ up'[i] = up[i]
         \/ up'[i] = m /\ i = Len(up) + 1
  BY <1>10
<1> HIDE DEF r
<1>12. TypeOK'
  BY <1>1, <1>2, <1>8, <1>10 DEF TypeOK
<1>13. Page'
  BY <1>1, <1>2, <1>3, <1>6, <1>8, <1>9 DEF Page, Open
<1>14. Starts'
  BY <1>1, <1>2, <1>4, <1>11 DEF Starts
<1>15. Seen' = Seen /\ \A p \in Node : PromptAt(p)' = None
  BY <1>1, <1>2, <1>6, <1>8, <1>9 DEF Seen, PromptAt
<1>16. \A j \in DOMAIN up : up[j].type = "answer" => up[j].request # r
  BY <1>1, <1>3 DEF Once
<1>17. Once'
  <2>1. \A i, j \in DOMAIN up' :
          up'[i].type = "answer" /\ up'[j].type = "answer" /\ up'[i].request = up'[j].request
            => i = j
    BY <1>1, <1>4, <1>11, <1>16 DEF Once
  <2>2. \A i \in DOMAIN down : down[i].type = "prompt" =>
          \A j \in DOMAIN up' : up'[j].type = "answer" => up'[j].request # down[i].request
    BY <1>1, <1>3, <1>4, <1>11 DEF Once
  <2>3. \A j \in DOMAIN up' : up'[j].type = "answer" => up'[j].request # None
    <3>1. \A j \in DOMAIN up' : up'[j] \in Answers \cup Orders
      BY <1>12, Elements DEF TypeOK
    <3> QED BY <3>1, NoneAssumption DEF Answers, Orders
  <2> QED BY <1>1, <1>2, <1>15, <2>1, <2>2, <2>3 DEF Once
<1>18. Numbers'
  <2>1. Known(r[1], r[2])
    BY <1>1, <1>3 DEF Numbers
  <2>2. \A a, k : Known(a, k)' <=> Known(a, k)
    BY <1>2 DEF Known, Running
  <2> QED BY <1>1, <1>2, <1>3, <1>4, <1>11, <1>15, <2>1, <2>2 DEF Numbers
<1>19. ASSUME NEW a \in Attempt PROVE Match(a)' /\ Where(a)' /\ Asked(a)'
  <2>1. Match(a) /\ Where(a) /\ Asked(a) /\ Request(a)' = Request(a)
    BY <1>2 DEF LoginInv, Request
  <2>2. srv[a].asked \in Nat /\ Request(a) # None
    BY <1>1, ThreadNode, NoneAssumption DEF Threads, Request, Requests
  <2>3. r = Request(a) /\ srv[a].state = "ask" => n = srv[a].node /\ m.kind = srv[a].kind
    BY <1>3, <1>4, <2>1 DEF Match
  <2> HIDE DEF Request
  <2>4. Match(a)'
    <3> SUFFICES ASSUME srv[a].state = "ask" PROVE Match(a)'
      BY <1>2 DEF Match
    <3>1. \A i \in DOMAIN up' : up'[i].type = "answer" /\ up'[i].request = Request(a)
            => up'[i].node = srv[a].node /\ up'[i].kind = srv[a].kind
      BY <1>4, <1>11, <2>1, <2>3 DEF Match
    <3>2. \A p \in Node : PromptAt(p)' # Request(a)
      BY <1>15, <2>2
    <3> QED BY <1>2, <2>1, <3>1, <3>2 DEF Match
  <2>5. Where(a)'
    <3>1. PageStays(a)
      BY <1>2, <1>7, <1>8 DEF PageStays
    <3>2. /\ draft' = a => flow' \in Flows
          /\ draft = a => flow \in Flows
      BY <1>1, <1>2, <1>8
    <3> QED BY <1>1, <1>2, <1>12, <2>1, <3>1, <3>2, SameDown, SameThreads, WhereStays
  <2>6. Asked(a)'
    <3> SUFFICES ASSUME srv[a].state = "ask", draft = a PROVE Asked(a)'
      BY <1>2 DEF Asked
    <3>1. \A i : LastOf(a, i)' <=> LastOf(a, i)
      BY <1>2 DEF LastOf
    <3>2. srv[a].node \in Node
      BY <1>1, ThreadNode
    <3>3. PromptAt(srv[a].node) = Request(a) => r = Request(a)
      BY <1>3, <2>2, <3>2
    <3>4. Len(up) + 1 \in DOMAIN up' /\ \A i \in DOMAIN up : i \in DOMAIN up' /\ up'[i] = up[i]
      BY <1>10
    <3>5. \/ \E i \in DOMAIN down : down[i].attempt = a
          \/ \E i \in DOMAIN up' : up'[i].type = "answer" /\ up'[i].request = Request(a)
      <4>1. CASE PromptAt(srv[a].node) = Request(a)
        BY <1>4, <1>10, <3>3, <3>4, <4>1
      <4>2. CASE \E i \in DOMAIN up : up[i].type = "answer" /\ up[i].request = Request(a)
        BY <3>4, <4>2
      <4> QED BY <2>1, <4>1, <4>2 DEF Asked
    <3> QED BY <1>2, <2>1, <3>1, <3>5 DEF Asked
  <2> QED BY <2>4, <2>5, <2>6
<1> QED BY <1>12, <1>13, <1>14, <1>17, <1>18, <1>19 DEF LoginInv

\* The first message has arrived.
LEMMA Arrived ==
  ASSUME TypeOK, down # <<>>, down' = Tail(down)
  PROVE  /\ Head(down) = down[1] /\ 1 \in DOMAIN down
         /\ Head(down) \in Messages /\ Head(down).attempt \in Attempt
         /\ Head(down).node \in Node /\ Head(down).request \in Requests
         /\ down' \in Seq(Messages) /\ FewerDown(1)
         /\ \A i \in DOMAIN down' : i + 1 \in DOMAIN down /\ i + 1 # 1 /\ down'[i] = down[i + 1]
         /\ \A i \in DOMAIN down : i # 1 => i - 1 \in DOMAIN down' /\ down'[i - 1] = down[i]
<1>1. down \in Seq(Messages)
  BY DEF TypeOK
<1> HIDE DEF Messages
<1>2. /\ down' \in Seq(Messages) /\ Head(down) \in Messages /\ Head(down) = down[1]
      /\ 1 \in DOMAIN down
      /\ \A i \in DOMAIN down' : i + 1 \in DOMAIN down /\ i + 1 # 1 /\ down'[i] = down[i + 1]
      /\ \A i \in DOMAIN down : i # 1 => i - 1 \in DOMAIN down' /\ down'[i - 1] = down[i]
  BY <1>1, Taken
<1>3. FewerDown(1)
  BY <1>2 DEF FewerDown
<1>4. /\ Head(down).attempt \in Attempt /\ Head(down).node \in Node
      /\ Head(down).request \in Requests
  BY <1>2 DEF Messages
<1> QED BY <1>2, <1>3, <1>4

\* What is left of a thread's question once a message has arrived: more of its
\* messages, or the prompt in the one that has.
LEMMA AskedArrived ==
  ASSUME TypeOK, down # <<>>, down' = Tail(down), srv' = srv, draft' = draft,
         NEW a \in Attempt, Asked(a), srv[a].state = "ask", draft = a
  PROVE  /\ \A i \in DOMAIN down' : LastOf(a, i)'
              => down'[i].type = "prompt" /\ down'[i].request = Request(a)'
         /\ \/ \E i \in DOMAIN down' : down'[i].attempt = a
            \/ /\ Head(down).attempt = a /\ Head(down).type = "prompt"
               /\ Head(down).request = Request(a)
            \/ /\ Head(down).attempt # a
               /\ \/ PromptAt(srv[a].node) = Request(a)
                  \/ \E i \in DOMAIN up : up[i].type = "answer" /\ up[i].request = Request(a)
<1> DEFINE m == Head(down)
<1>1. /\ m = down[1] /\ 1 \in DOMAIN down
      /\ \A i \in DOMAIN down' : i + 1 \in DOMAIN down /\ i + 1 # 1 /\ down'[i] = down[i + 1]
      /\ \A i \in DOMAIN down : i # 1 => i - 1 \in DOMAIN down' /\ down'[i - 1] = down[i]
      /\ Request(a)' = Request(a)
  BY Arrived DEF Request
<1>2. /\ \A i \in DOMAIN down : i \in Nat /\ 1 <= i
      /\ \A i \in DOMAIN down' : i \in Nat
  <2>1. down \in Seq(Messages) /\ down' \in Seq(Messages)
    BY Arrived DEF TypeOK
  <2> QED BY <2>1, LenProperties
<1>3. \A i \in DOMAIN down' : LastOf(a, i)' => LastOf(a, i + 1)
  <2> SUFFICES ASSUME NEW i \in DOMAIN down', LastOf(a, i)',
                      NEW j \in DOMAIN down, j > i + 1
               PROVE  down[j].attempt # a /\ down[i + 1].attempt = a
    BY <1>1 DEF LastOf
  <2>1. j # 1 /\ j - 1 > i
    BY <1>2
  <2>2. j - 1 \in DOMAIN down' /\ down'[j - 1] = down[j]
    BY <1>1, <2>1
  <2> QED BY <1>1, <2>1, <2>2 DEF LastOf
<1>4. \A i \in DOMAIN down' : LastOf(a, i)'
        => down'[i].type = "prompt" /\ down'[i].request = Request(a)'
  BY <1>1, <1>3 DEF Asked
<1>5. CASE m.attempt = a /\ \A i \in DOMAIN down : i # 1 => down[i].attempt # a
  <2>1. LastOf(a, 1)
    BY <1>1, <1>2, <1>5 DEF LastOf
  <2> QED BY <1>1, <1>4, <1>5, <2>1 DEF Asked
<1>6. CASE \E i \in DOMAIN down : i # 1 /\ down[i].attempt = a
  BY <1>1, <1>4, <1>6
<1>7. CASE m.attempt # a /\ \A i \in DOMAIN down : down[i].attempt # a
  BY <1>1, <1>4, <1>7 DEF Asked
<1> QED BY <1>1, <1>5, <1>6, <1>7

\* The prompt a thread waits for is no old news for the page.
LEMMA PromptTaken ==
  ASSUME LoginInv, NEW i \in DOMAIN down, NEW a \in Attempt, srv[a].state = "ask", draft = a,
         down[i].type = "prompt", down[i].request = Request(a), down[i].attempt = a
  PROVE  ~Rejects(flow, down[i])
<1>1. /\ TypeOK /\ Page /\ Once /\ Match(a) /\ Where(a)
      /\ flow \in Flows /\ flow # None /\ ~flow.finished /\ flow.attempt = a
  BY PageFlow DEF LoginInv
<1>2. /\ srv[a].step \in {"auth", "authenticate"} /\ down[i].node = srv[a].node
      /\ srv[a].node \in Nat /\ srv[a].node \in Node
  BY <1>1, ThreadNode DEF Match
<1>3. flow.index <= srv[a].node /\ ~Past(a, srv[a].node)
      /\ \A n \in Node : flow.phase[n] \in {"authenticated", "complete"} => Past(a, n)
  BY <1>1, <1>2 DEF Where, Going, Running, Past
<1>4. flow.index \in Nat
  BY <1>1, LoginAssumption DEF Flows
<1>5. down[i].request \notin flow.seen
  BY <1>1 DEF Once, Seen
<1> QED BY <1>1, <1>2, <1>3, <1>4, <1>5 DEF Rejects

\* The cards once they show a message.
LEMMA Turned ==
  ASSUME NEW f \in Flows, NEW m \in Messages, m.type \in {"prompt", "progress"}, ~Rejects(f, m)
  PROVE  LET g == Handle(f, m) IN
         /\ g \in Flows /\ g.attempt = f.attempt /\ g.index = m.node
         /\ g.finished = f.finished
         /\ g.seen = IF m.type = "prompt" THEN f.seen \cup {m.request} ELSE f.seen
         /\ \A n \in Node :
              /\ g.input[n] = None
              /\ g.ask[n] = IF n = m.node /\ m.type = "prompt"
                            THEN [request |-> m.request, kind |-> m.phase] ELSE NoAsk
              /\ g.phase[n] \in {"authenticated", "complete"} =>
                   g.phase[n] = f.phase[n] \/ (n = m.node /\ m.phase = "authenticated")
<1> DEFINE c == ClearInput(f, Node)
           P == [c.phase EXCEPT ![m.node] = Shown(m)]
           d == [c EXCEPT !.index = m.node]
           g == [d EXCEPT !.phase = P]
           S == g.seen \cup {m.request}
           h == [g EXCEPT !.seen = S]
           A == [g.ask EXCEPT ![m.node] = [request |-> m.request, kind |-> m.phase]]
           e == [h EXCEPT !.ask = A]
<1>1. /\ c \in Flows /\ c.attempt = f.attempt /\ c.index = f.index
      /\ c.finished = f.finished /\ c.seen = f.seen /\ c.phase = f.phase
      /\ \A n \in Node : c.ask[n] = NoAsk /\ c.input[n] = None
  BY Cleared
<1>2. /\ m.node \in Node /\ m.node \in 0..Hops /\ m.request \in Requests
      /\ Shown(m) \in Phases
      /\ Shown(m) \in {"authenticated", "complete"} => m.phase = "authenticated"
      /\ m.type = "prompt" => m.phase \in Kinds
  BY NodeIsNat DEF Messages, Node, Shown, Reported, Kinds, Phases
<1>3. Handle(f, m) = IF m.type # "prompt" THEN g ELSE e
  BY <1>1 DEF Handle, Flows
<1> HIDE DEF c
<1>4. /\ P \in [Node -> Phases]
      /\ \A n \in Node : P[n] \in {"authenticated", "complete"} =>
           P[n] = f.phase[n] \/ (n = m.node /\ m.phase = "authenticated")
  BY <1>1, <1>2 DEF Flows
<1> HIDE DEF P
<1>5. /\ d \in Flows /\ d.attempt = f.attempt /\ d.index = m.node
      /\ d.finished = f.finished /\ d.seen = f.seen
      /\ d.ask = c.ask /\ d.input = c.input
  BY <1>1, <1>2 DEF Flows
<1> HIDE DEF d
<1>6. /\ g \in Flows /\ g.attempt = f.attempt /\ g.index = m.node
      /\ g.finished = f.finished /\ g.seen = f.seen /\ g.phase = P
      /\ g.ask = c.ask /\ g.input = c.input
  BY <1>4, <1>5 DEF Flows
<1> HIDE DEF g
<1>7. CASE m.type # "prompt"
  BY <1>1, <1>3, <1>4, <1>6, <1>7
<1>8. CASE m.type = "prompt"
  <2>1. S \in SUBSET Requests /\ S = f.seen \cup {m.request}
    BY <1>2, <1>6 DEF Flows
  <2> HIDE DEF S
  <2>2. /\ h \in Flows /\ h.attempt = f.attempt /\ h.index = m.node
        /\ h.finished = f.finished /\ h.seen = S /\ h.phase = P
        /\ h.ask = c.ask /\ h.input = c.input
    BY <1>6, <2>1 DEF Flows
  <2> HIDE DEF h
  <2>3. /\ A \in [Node -> [request : Requests \cup {None}, kind : Kinds \cup {None}]]
        /\ \A n \in Node : A[n] = IF n = m.node
                                  THEN [request |-> m.request, kind |-> m.phase] ELSE NoAsk
    BY <1>1, <1>2, <1>6, <1>8 DEF Flows
  <2> HIDE DEF A
  <2>4. /\ e \in Flows /\ e.attempt = f.attempt /\ e.index = m.node
        /\ e.finished = f.finished /\ e.seen = S /\ e.phase = P
        /\ e.ask = A /\ e.input = c.input
    BY <2>2, <2>3 DEF Flows
  <2> HIDE DEF e
  <2> QED BY <1>1, <1>3, <1>4, <1>8, <2>1, <2>3, <2>4
<1> QED BY <1>7, <1>8

\* The cards of a login that has ended.
LEMMA Finished ==
  ASSUME NEW f \in Flows, NEW p \in Node
  PROVE  LET g == Finish(f, FALSE, p) IN
         /\ g \in Flows /\ g.attempt = f.attempt /\ g.index = f.index
         /\ g.finished = TRUE /\ g.seen = f.seen
         /\ \A n \in Node : g.ask[n] = NoAsk /\ g.input[n] = None
<1> DEFINE c == ClearInput(f, Node)
           P == [n \in Node |-> IF n = p THEN "failed" ELSE c.phase[n]]
           d == [c EXCEPT !.finished = TRUE]
           g == [d EXCEPT !.phase = P]
<1>1. /\ c \in Flows /\ c.attempt = f.attempt /\ c.index = f.index
      /\ c.finished = f.finished /\ c.seen = f.seen /\ c.phase = f.phase
      /\ \A n \in Node : c.ask[n] = NoAsk /\ c.input[n] = None
  BY Cleared
<1>2. Finish(f, FALSE, p) = g
  BY <1>1 DEF Finish, Flows
<1> HIDE DEF c
<1>3. P \in [Node -> Phases]
  BY <1>1 DEF Flows, Phases
<1> HIDE DEF P
<1>4. /\ d \in Flows /\ d.attempt = f.attempt /\ d.index = f.index
      /\ d.finished = TRUE /\ d.seen = f.seen /\ d.ask = c.ask /\ d.input = c.input
  BY <1>1 DEF Flows
<1> HIDE DEF d
<1>5. /\ g \in Flows /\ g.attempt = f.attempt /\ g.index = f.index
      /\ g.finished = TRUE /\ g.seen = f.seen /\ g.ask = c.ask /\ g.input = c.input
  BY <1>3, <1>4 DEF Flows
<1> HIDE DEF g
<1> QED BY <1>1, <1>2, <1>5

\* A message that the page drops, being for another attempt or an old one.
LEMMA DropStep ==
  ASSUME LoginInv, down # <<>>, down' = Tail(down),
         UNCHANGED <<draft, flow, srv, up>>,
         \/ flow = None \/ Head(down).attempt # draft
         \/ Rejects(flow, Head(down))
  PROVE  LoginInv'
<1>1. TypeOK /\ Page /\ Starts /\ down' \in Seq(Messages) /\ FewerDown(1)
  BY Arrived DEF LoginInv
<1>2. TypeOK' /\ Page' /\ Starts'
  BY <1>1 DEF TypeOK, Page, Open, Starts
<1>3. FewerPrompts /\ (\A n : PromptAt(n)' = PromptAt(n)) /\ \A a \in Attempt : PageStays(a)
  BY DEF FewerPrompts, Seen, PromptAt, PageStays
<1>4. ASSUME NEW a \in Attempt PROVE Asked(a)'
  <2> SUFFICES ASSUME srv[a].state = "ask", draft = a PROVE Asked(a)'
    BY DEF Asked
  <2>1. Asked(a) /\ Request(a)' = Request(a) /\ srv[a].node \in Node
    BY <1>1, ThreadNode DEF LoginInv, Request
  <2>2. ~(/\ Head(down).attempt = a /\ Head(down).type = "prompt"
          /\ Head(down).request = Request(a))
    BY <1>1, Arrived, PromptTaken, PageFlow
  <2>3. /\ \A i \in DOMAIN down' : LastOf(a, i)'
             => down'[i].type = "prompt" /\ down'[i].request = Request(a)'
        /\ \/ \E i \in DOMAIN down' : down'[i].attempt = a
           \/ PromptAt(srv[a].node) = Request(a)
           \/ \E i \in DOMAIN up : up[i].type = "answer" /\ up[i].request = Request(a)
    BY <1>1, <2>1, <2>2, AskedArrived
  <2> QED BY <1>3, <2>1, <2>3 DEF Asked
<1> QED BY <1>1, <1>2, <1>3, <1>4, SameUp, SameThreads, QuietStep

\* A message that the page shows.
LEMMA ShowStep ==
  ASSUME LoginInv, down # <<>>, down' = Tail(down), UNCHANGED <<draft, srv, up>>,
         flow # None, Head(down).attempt = draft, Head(down).type \in {"prompt", "progress"},
         ~Rejects(flow, Head(down)), flow' = Handle(flow, Head(down))
  PROVE  LoginInv'
<1> DEFINE m == Head(down)
           r == m.request
<1>1. /\ TypeOK /\ Page /\ Starts /\ Once /\ Numbers
      /\ m = down[1] /\ 1 \in DOMAIN down /\ m \in Messages
      /\ m.attempt \in Attempt /\ m.node \in Node /\ r \in Requests /\ r[1] = m.attempt
      /\ down' \in Seq(Messages) /\ FewerDown(1)
      /\ \A i \in DOMAIN down' : i + 1 \in DOMAIN down /\ i + 1 # 1 /\ down'[i] = down[i + 1]
  BY Arrived DEF LoginInv, Messages
<1>2. /\ flow \in Flows /\ ~flow.finished /\ flow.attempt = draft /\ draft = m.attempt
      /\ draft # None
  <2>1. draft \in Attempt /\ draft # None
    BY <1>1, PageFlow
  <2> QED BY <1>1, <2>1, PageFlow
<1> HIDE DEF m, r
<1>3. /\ flow' \in Flows /\ flow'.attempt = flow.attempt /\ flow'.index = m.node
      /\ flow'.finished = flow.finished
      /\ flow'.seen = IF m.type = "prompt" THEN flow.seen \cup {r} ELSE flow.seen
      /\ \A n \in Node :
           /\ flow'.input[n] = None
           /\ flow'.ask[n] = IF n = m.node /\ m.type = "prompt"
                             THEN [request |-> r, kind |-> m.phase] ELSE NoAsk
           /\ flow'.phase[n] \in {"authenticated", "complete"} =>
                flow'.phase[n] = flow.phase[n] \/ (n = m.node /\ m.phase = "authenticated")
  BY <1>1, <1>2, Turned DEF m, r
<1>4. flow' # None /\ r # None /\ NoAsk.request = None
  BY <1>1, <1>3, NoneAssumption DEF NoAsk
<1>5. TypeOK' /\ Starts'
  BY <1>1, <1>3 DEF TypeOK, Starts
<1>6. m.type = "prompt" => m.phase \in Kinds
  BY <1>1 DEF Messages
<1>7. Page'
  <2>1. ASSUME NEW n \in Node, flow'.ask[n].request # None
        PROVE  /\ n = flow'.index /\ flow'.ask[n].request \in flow'.seen
               /\ flow'.ask[n].kind \in Kinds
    BY <1>3, <1>4, <1>6, <2>1
  <2>2. \A s \in flow'.seen : s[1] = flow'.attempt
    BY <1>1, <1>2, <1>3 DEF Page
  <2> QED BY <1>1, <1>2, <1>3, <1>4, <2>1, <2>2 DEF Page, Open
<1>8. /\ Seen' = IF m.type = "prompt" THEN Seen \cup {r} ELSE Seen
      /\ \A n \in Node : PromptAt(n)' = IF n = m.node /\ m.type = "prompt" THEN r ELSE None
  BY <1>3, <1>4 DEF Seen, PromptAt
<1>9. Once'
  <2>1. CASE m.type # "prompt"
    <3>1. FewerPrompts
      BY <1>8, <2>1 DEF FewerPrompts
    <3> QED BY <1>1, <1>5, <3>1, SameUp, OnceStays
  <2>2. CASE m.type = "prompt"
    <3>1. \A i, j \in DOMAIN down' :
            /\ down'[i].type = "prompt" /\ down'[j].type = "prompt"
            /\ down'[i].request = down'[j].request
            => i = j
      <4> SUFFICES ASSUME NEW i \in DOMAIN down', NEW j \in DOMAIN down',
                          down'[i].type = "prompt", down'[j].type = "prompt",
                          down'[i].request = down'[j].request
                   PROVE  i = j
        OBVIOUS
      <4>1. i + 1 = j + 1 /\ i \in Nat /\ j \in Nat
        <5>1. i \in Nat /\ j \in Nat
          BY <1>1, Elements
        <5> QED BY <1>1, <5>1 DEF Once
      <4> QED BY <4>1
    <3>2. ASSUME NEW i \in DOMAIN down', down'[i].type = "prompt"
          PROVE  /\ down'[i].request \notin Seen'
                 /\ \A j \in DOMAIN up : up[j].type = "answer" => up[j].request # down'[i].request
      <4>1. down'[i].request # r
        BY <1>1, <2>2, <3>2 DEF Once, r
      <4> QED BY <1>1, <1>8, <2>2, <3>2, <4>1 DEF Once
    <3>3. \A j \in DOMAIN up : up[j].type = "answer" => up[j].request # r /\ up[j].request # None
      <4>1. \A j \in DOMAIN up : up[j] \in Answers \cup Orders
        BY <1>1, Elements DEF TypeOK
      <4>2. \A j \in DOMAIN up : up[j].type = "answer" => up[j].request # None
        BY <4>1, NoneAssumption DEF Answers, Orders
      <4> QED BY <1>1, <2>2, <4>2 DEF Once, r
    <3> QED BY <1>1, <1>8, <3>1, <3>2, <3>3 DEF Once
  <2> QED BY <2>1, <2>2
<1>10. Numbers'
  <2>1. Known(r[1], r[2])
    BY <1>1 DEF Numbers, r
  <2>2. \A a, k : Known(a, k)' <=> Known(a, k)
    BY DEF Known, Running
  <2> QED BY <1>1, <1>8, <2>1, <2>2 DEF Numbers
<1>11. ASSUME NEW a \in Attempt PROVE Match(a)'
  <2> SUFFICES ASSUME srv[a].state = "ask" PROVE Match(a)'
    BY DEF Match
  <2>1. Match(a) /\ Request(a)' = Request(a) /\ srv[a].asked \in Nat
    BY <1>1, ThreadNode DEF LoginInv, Request, Threads
  <2>2. Request(a) # None
    BY <2>1, NoneAssumption DEF Request, Requests
  <2> HIDE DEF Request
  <2>3. ASSUME NEW n \in Node, PromptAt(n)' = Request(a)
        PROVE  n = srv[a].node /\ flow'.ask[n].kind = srv[a].kind
    <3>1. n = m.node /\ m.type = "prompt" /\ r = Request(a)
      BY <1>8, <2>2, <2>3
    <3>2. flow'.ask[n].kind = m.phase
      BY <1>3, <3>1
    <3>3. m.node = srv[a].node /\ m.phase = srv[a].kind
      BY <1>1, <2>1, <3>1 DEF Match, r
    <3> QED BY <3>1, <3>2, <3>3
  <2> QED BY <1>1, <2>1, <2>3 DEF Match
<1>12. ASSUME NEW a \in Attempt PROVE Where(a)'
  <2> SUFFICES ASSUME Going(a)' PROVE Where(a)'
    BY DEF Where
  <2>1. Where(a) /\ Going(a) /\ Forward(a)
    BY <1>1, SameThreads DEF LoginInv, Going, Running
  <2>2. \A i \in DOMAIN down' : down'[i].attempt = a =>
          /\ down'[i].node <= srv'[a].node
          /\ down'[i].phase = "authenticated" => Past(a, down[i].node)'
    BY <1>1, <1>5, <2>1, WhereDown
  <2>3. ASSUME draft = a
        PROVE  /\ flow'.index <= srv[a].node
               /\ \A n \in Node : flow'.phase[n] \in {"authenticated", "complete"} => Past(a, n)
    <3>1. /\ m.node <= srv[a].node
          /\ m.phase = "authenticated" => Past(a, m.node)
          /\ \A n \in Node : flow.phase[n] \in {"authenticated", "complete"} => Past(a, n)
      BY <1>1, <1>2, <2>1, <2>3 DEF Where
    <3> QED BY <1>3, <3>1
  <2>4. \A n : Past(a, n)' <=> Past(a, n)
    BY DEF Past
  <2> QED BY <2>2, <2>3, <2>4 DEF Where
<1>13. ASSUME NEW a \in Attempt PROVE Asked(a)'
  <2> SUFFICES ASSUME srv[a].state = "ask", draft = a PROVE Asked(a)'
    BY DEF Asked
  <2>1. Asked(a) /\ Match(a) /\ Request(a)' = Request(a) /\ srv[a].node \in Node
    BY <1>1, ThreadNode DEF LoginInv, Request
  <2>2. /\ \A i \in DOMAIN down' : LastOf(a, i)'
             => down'[i].type = "prompt" /\ down'[i].request = Request(a)'
        /\ \/ \E i \in DOMAIN down' : down'[i].attempt = a
           \/ m.type = "prompt" /\ r = Request(a)
    BY <1>1, <1>2, <2>1, AskedArrived DEF m, r
  <2>3. m.type = "prompt" /\ r = Request(a) => m.node = srv[a].node
    BY <1>1, <2>1 DEF Match, r
  <2> QED BY <1>8, <2>1, <2>2, <2>3 DEF Asked
<1> QED BY <1>5, <1>7, <1>9, <1>10, <1>11, <1>12, <1>13 DEF LoginInv

LEMMA ReceiveStep ==
  ASSUME LoginInv, Receive
  PROVE  LoginInv'
<1> DEFINE m == Head(down)
<1>1. /\ TypeOK /\ Page /\ Starts /\ down # <<>> /\ down' = Tail(down) /\ UNCHANGED <<srv, up>>
      /\ m.node \in Node /\ down' \in Seq(Messages) /\ FewerDown(1)
  BY Arrived DEF LoginInv, Receive
<1>2. CASE (flow = None \/ m.attempt # draft) /\ UNCHANGED <<draft, flow>>
  BY <1>1, <1>2, DropStep
<1>3. CASE /\ flow # None /\ m.attempt = draft /\ m.type \in {"prompt", "progress"}
           /\ flow' = Handle(flow, m) /\ UNCHANGED draft
  <2>1. CASE Rejects(flow, m)
    <3>1. flow' = flow
      BY <1>3, <2>1 DEF Handle
    <3> QED BY <1>1, <1>3, <2>1, <3>1, DropStep
  <2>2. CASE ~Rejects(flow, m)
    BY <1>1, <1>3, <2>2, ShowStep
  <2> QED BY <2>1, <2>2
<1>4. CASE flow' = None /\ draft' = None
  <2>1. up' \in Seq(Answers \cup Orders)
    BY <1>1 DEF TypeOK
  <2> QED BY <1>1, <1>4, <2>1, SameUp, GiveUp
<1>5. CASE /\ flow # None /\ flow' = Finish(flow, FALSE, m.node) /\ draft' = None
  <2>1. /\ flow \in Flows /\ \A a \in Attempt : a # None
    BY <1>1, <1>5, PageFlow
  <2>2. /\ flow' \in Flows /\ flow'.attempt = flow.attempt /\ flow'.finished
        /\ flow'.seen = flow.seen
        /\ \A n \in Node : flow'.ask[n].request = None /\ flow'.input[n] = None
    <3>1. NoAsk.request = None
      BY DEF NoAsk
    <3> QED BY <1>1, <1>5, <2>1, <3>1, Finished
  <2>3. TypeOK' /\ Page' /\ Starts'
    BY <1>1, <1>5, <2>2 DEF TypeOK, Page, Open, Starts
  <2>4. FewerPrompts
    BY <1>5, <2>2, NoneAssumption DEF FewerPrompts, Seen, PromptAt
  <2>5. \A a \in Attempt : PageStays(a) /\ Asked(a)'
    BY <1>5, <2>1 DEF PageStays, Asked
  <2> QED BY <1>1, <2>3, <2>4, <2>5, SameUp, SameThreads, QuietStep
<1> QED BY <1>2, <1>3, <1>4, <1>5 DEF Receive

\* A lost socket leaves no thread that asks and no message.
LEMMA DisconnectStep ==
  ASSUME LoginInv, Disconnect
  PROVE  LoginInv'
<1>1. /\ TypeOK /\ Starts
      /\ draft' = None /\ flow' = None /\ down' = <<>> /\ up' = <<>>
      /\ \A a \in Attempt : srv'[a] = IF Running(a) THEN Over("cancelled") ELSE srv[a]
      /\ \A a \in Attempt : a # None
  BY LoginAssumption DEF Disconnect, LoginInv
<1>2. DOMAIN down' = {} /\ DOMAIN up' = {} /\ Seen' = {} /\ \A n : PromptAt(n)' = None
  BY <1>1 DEF Seen, PromptAt
<1>3. Over("cancelled") \in Threads /\ Over("cancelled").state = "cancelled"
  BY LoginAssumption DEF Over, Idle, Threads, Node
<1>4. TypeOK'
  <2>1. srv' \in [Attempt -> Threads]
    BY <1>1, <1>3 DEF Disconnect, TypeOK
  <2> QED BY <1>1, <2>1, EmptySeq DEF TypeOK
<1>5. Page' /\ Once' /\ Numbers'
  BY <1>1, <1>2 DEF Page, Open, Once, Numbers
<1>6. Starts'
  BY <1>1, <1>2, <1>3 DEF Starts
<1>7. \A a \in Attempt : Match(a)' /\ Where(a)' /\ Asked(a)'
  <2>1. \A a \in Attempt : srv'[a].state # "ask"
    BY <1>1, <1>3 DEF Running
  <2> QED BY <1>1, <1>2, <2>1 DEF Match, Where, Asked
<1> QED BY <1>4, <1>5, <1>6, <1>7 DEF LoginInv

-----------------------------------------------------------------------------
(* The server.                                                             *)

\* A question outlives the first message to the server, unless it answers it.
LEMMA AskedServed ==
  ASSUME TypeOK, NEW a \in Attempt, Asked(a), up # <<>>, up' = Tail(up),
         UNCHANGED <<draft, flow, down>>,
         srv'[a].state = "ask" => srv'[a] = srv[a],
         srv[a].state = "ask" => ~(Head(up).type = "answer" /\ Head(up).request = Request(a))
  PROVE  Asked(a)'
<1> SUFFICES ASSUME srv'[a].state = "ask", draft = a PROVE Asked(a)'
  BY DEF Asked
<1>1. srv'[a] = srv[a] /\ srv[a].state = "ask" /\ Request(a)' = Request(a)
  BY DEF Request
<1>2. /\ Head(up) = up[1]
      /\ \A i \in DOMAIN up : i # 1 => i - 1 \in DOMAIN up' /\ up'[i - 1] = up[i]
  <2>1. up \in Seq(Answers \cup Orders)
    BY DEF TypeOK
  <2> HIDE DEF Answers, Orders
  <2> QED BY <2>1, Taken
<1>3. (\A i : LastOf(a, i)' <=> LastOf(a, i)) /\ PromptAt(srv[a].node)' = PromptAt(srv[a].node)
  BY <1>1 DEF LastOf, PromptAt
<1>4. (\E i \in DOMAIN up : up[i].type = "answer" /\ up[i].request = Request(a))
      => \E i \in DOMAIN up' : up'[i].type = "answer" /\ up'[i].request = Request(a)
  BY <1>1, <1>2
<1> QED BY <1>1, <1>3, <1>4 DEF Asked

\* The first message to the server has gone.
UpGone == \A i \in DOMAIN up' : i + 1 \in DOMAIN up /\ up'[i] = up[i + 1]

\* No thread begins.
NoneBegun ==
  \A a \in Attempt : \/ srv'[a] = srv[a]
                     \/ srv'[a].state # "none" /\ srv[a].state # "none"

\* Orders to start stay what they were when the first message is served.
LEMMA StartsServed ==
  ASSUME TypeOK, Starts, up' \in Seq(Answers \cup Orders), UpGone, NoneBegun
  PROVE  Starts'
<1>1. \A i \in DOMAIN up' : i \in Nat /\ up'[i].attempt \in Attempt
  <2>1. \A i \in DOMAIN up' : i \in Nat /\ up'[i] \in Answers \cup Orders
    <3> HIDE DEF Answers, Orders
    <3> QED BY Elements
  <2> QED BY <2>1 DEF Answers, Orders
<1>2. \A i \in DOMAIN up' : up'[i].type = "start" => srv'[up'[i].attempt].state = "none"
  <2> SUFFICES ASSUME NEW i \in DOMAIN up', up'[i].type = "start"
               PROVE  srv'[up'[i].attempt].state = "none"
    OBVIOUS
  <2>1. srv[up'[i].attempt].state = "none"
    BY DEF Starts, UpGone
  <2> QED BY <1>1, <2>1 DEF NoneBegun
<1>3. \A i, j \in DOMAIN up' : up'[i].type = "start" /\ up'[j].type = "start" => i = j
  <2> SUFFICES ASSUME NEW i \in DOMAIN up', NEW j \in DOMAIN up',
                      up'[i].type = "start", up'[j].type = "start"
               PROVE  i = j
    OBVIOUS
  <2>1. i + 1 = j + 1
    BY DEF Starts, UpGone
  <2> QED BY <1>1, <2>1
<1>4. \A a \in Attempt : srv'[a].state = "none" => srv'[a] = Idle
  BY DEF Starts, NoneBegun
<1> QED BY <1>2, <1>3, <1>4 DEF Starts

LEMMA ServeStep ==
  ASSUME LoginInv, Serve
  PROVE  LoginInv'
<1> DEFINE m == Head(up)
           b == m.attempt
<1>1. /\ TypeOK /\ Page /\ Starts /\ up # <<>> /\ up' = Tail(up)
      /\ UNCHANGED <<draft, flow, down>> /\ srv \in [Attempt -> Threads]
  BY DEF LoginInv, Serve, TypeOK
<1>2. /\ m = up[1] /\ 1 \in DOMAIN up /\ m \in Answers \cup Orders
      /\ up' \in Seq(Answers \cup Orders)
      /\ \A i \in DOMAIN up' : i + 1 \in DOMAIN up /\ i + 1 # 1 /\ up'[i] = up[i + 1]
  <2>1. up \in Seq(Answers \cup Orders)
    BY <1>1 DEF TypeOK
  <2> HIDE DEF Answers, Orders
  <2> QED BY <1>1, <2>1, Taken
<1>3. /\ b \in Attempt
      /\ m.type = "answer" => m.request[1] = b /\ m.request \in Requests
      /\ m.type \in {"start", "cancel", "answer"}
  BY <1>2 DEF Answers, Orders
<1> HIDE DEF m, b
<1>4. FewerAnswers(1)
  BY <1>2 DEF FewerAnswers
<1>5. /\ Over("cancelled") \in Threads /\ Over("cancelled").state = "cancelled"
      /\ Idle \in Threads /\ Idle.state = "none" /\ Idle.node = 1 /\ Idle.step = "connect"
      /\ [Idle EXCEPT !.state = "run"] \in Threads
      /\ [Idle EXCEPT !.state = "run"].state = "run"
      /\ [Idle EXCEPT !.state = "run"].node = 1
      /\ [Idle EXCEPT !.state = "run"].step = "connect"
  BY LoginAssumption DEF Over, Idle, Threads, Node
<1>6. /\ FewerPrompts /\ \A a \in Attempt : PageStays(a)
  BY <1>1 DEF FewerPrompts, Seen, PromptAt, PageStays
<1>7. Page'
  BY <1>1 DEF Page, Open
\* What is left to show of each order and answer.
<1>8. SUFFICES /\ srv' \in [Attempt -> Threads] /\ Starts' /\ ThreadsStay
               /\ \A a \in Attempt :
                    /\ Forward(a)
                    /\ srv'[a].state = "ask" => ~(m.type = "answer" /\ m.request = Request(a))
  <2>1. TypeOK'
    BY <1>1, <1>2, <1>8 DEF TypeOK
  <2>2. \A a \in Attempt : Asked(a)'
    <3> SUFFICES ASSUME NEW a \in Attempt, srv'[a].state = "ask" PROVE Asked(a)'
      BY DEF Asked
    <3>1. srv'[a] = srv[a] /\ Asked(a)
      BY <1>8 DEF ThreadsStay, LoginInv
    <3> QED BY <1>1, <1>8, <3>1, AskedServed DEF m
  <2> QED BY <1>1, <1>4, <1>6, <1>7, <1>8, <2>1, <2>2, SameDown, QuietStep
<1>9. ASSUME NoneBegun PROVE Starts'
  <2>1. TypeOK /\ Starts /\ up' \in Seq(Answers \cup Orders) /\ UpGone
    BY <1>1, <1>2 DEF UpGone
  <2> QED BY <1>9, <2>1, StartsServed
<1>10. CASE m.type = "start"
  <2>1. srv[b].state = "none" /\ srv[b] = Idle
    BY <1>1, <1>2, <1>3, <1>10 DEF Starts, b
  <2>2. srv' = [a \in Attempt |-> IF a = b THEN [Idle EXCEPT !.state = "run"]
                                  ELSE IF Running(a) THEN Over("cancelled") ELSE srv[a]]
    BY <1>10 DEF Serve, m, b
  <2>3. /\ srv' \in [Attempt -> Threads]
        /\ srv'[b] = [Idle EXCEPT !.state = "run"]
        /\ \A a \in Attempt \ {b} : srv'[a] = IF Running(a) THEN Over("cancelled") ELSE srv[a]
    BY <1>1, <1>3, <1>5, <2>2
  <2>4. Starts'
    <3>1. \A i \in DOMAIN up' : up'[i].type # "start"
      BY <1>1, <1>2, <1>10 DEF Starts
    <3>2. ASSUME NEW a \in Attempt, srv'[a].state = "none" PROVE srv'[a] = Idle
      BY <1>1, <1>5, <2>3, <3>2 DEF Starts
    <3> QED BY <3>1, <3>2 DEF Starts
  <2>5. \A a \in Attempt : srv'[a].state # "ask"
    BY <1>5, <2>3 DEF Running
  <2>6. ThreadsStay
    BY <1>5, <2>1, <2>3, <2>5 DEF ThreadsStay, Running
  <2>7. ASSUME NEW a \in Attempt PROVE Forward(a)
    <3> SUFFICES ASSUME Going(a)' PROVE Forward(a)
      BY DEF Forward
    <3>1. CASE a = b
      <4>1. Going(a) /\ srv[a].node = 1 /\ srv'[a].node = 1 /\ srv[a].step = "connect"
        BY <1>5, <2>1, <2>3, <3>1 DEF Going
      <4>2. \A n \in Node : ~Past(a, n)
        BY <4>1 DEF Past, Node
      <4> QED BY <4>1, <4>2 DEF Forward
    <3>2. CASE a # b
      <4>1. srv'[a] = srv[a] /\ Going(a) /\ srv[a].node <= srv[a].node
        BY <1>1, <1>5, <2>3, <3>2, ThreadNode DEF Going, Running
      <4> QED BY <4>1 DEF Forward, Past
    <3> QED BY <3>1, <3>2
  <2> QED BY <2>3, <2>4, <2>5, <2>6, <2>7
<1>11. CASE m.type = "cancel"
  <2>1. /\ srv' \in [Attempt -> Threads]
        /\ srv'[b] = IF Running(b) THEN Over("cancelled") ELSE srv[b]
        /\ \A a \in Attempt \ {b} : srv'[a] = srv[a]
    BY <1>1, <1>3, <1>5, <1>11 DEF Serve, m, b
  <2>2. \A a \in Attempt :
          \/ srv'[a] = srv[a]
          \/ srv'[a].state = "cancelled" /\ srv[a].state # "none"
    BY <1>5, <2>1 DEF Running
  <2>3. Starts'
    <3>1. NoneBegun
      BY <2>2 DEF NoneBegun
    <3> QED BY <1>9, <3>1
  <2>4. ThreadsStay
    BY <2>2 DEF ThreadsStay, Running
  <2>5. \A a \in Attempt : Forward(a)
    <3>1. \A a \in Attempt : srv[a].node <= srv[a].node
      BY <1>1, ThreadNode
    <3> QED BY <2>2, <3>1 DEF Forward, Going, Running, Past
  <2> QED BY <1>11, <2>1, <2>3, <2>4, <2>5
<1>12. CASE m.type = "answer"
  <2> DEFINE taken == /\ Waits(srv[b]) /\ m.node = srv[b].node /\ m.kind = srv[b].kind
                      /\ m.request = Request(b)
  <2>0. Resolve(m)
    BY <1>12 DEF Serve, m
  <2>1. CASE taken
    <3>0. PICK s \in {"run", "refused"} : srv' = [srv EXCEPT ![b].state = s]
      BY <1>1, <1>3, <2>0, <2>1 DEF Resolve, b
    <3> DEFINE w == [srv[b] EXCEPT !.state = s]
    <3>1. /\ w \in Threads /\ w.state \in {"run", "refused"} /\ w.asked = srv[b].asked
          /\ w.node = srv[b].node /\ w.step = srv[b].step
      BY <1>1, <1>3 DEF Threads
    <3>2. srv' = [srv EXCEPT ![b] = w]
      BY <3>0
    <3> HIDE DEF w
    <3>3. /\ srv' \in [Attempt -> Threads] /\ srv'[b] = w
          /\ \A a \in Attempt \ {b} : srv'[a] = srv[a]
      <4>1. srv \in [Attempt -> Threads] /\ b \in Attempt
        BY <1>1, <1>3
      <4> QED BY <3>1, <3>2, <4>1
    <3>4. Starts'
      <4>1. srv[b].state # "none" /\ srv'[b].state # "none"
        BY <2>1, <3>1, <3>3 DEF Waits
      <4>2. NoneBegun
        BY <3>3, <4>1 DEF NoneBegun
      <4> QED BY <1>9, <4>2
    <3>5. ThreadsStay
      BY <2>1, <3>1, <3>3 DEF ThreadsStay, Running, Waits
    <3>6. \A a \in Attempt : Forward(a)
      <4>1. \A a \in Attempt : /\ srv[a].node <= srv[a].node
                               /\ srv'[a].node = srv[a].node /\ srv'[a].step = srv[a].step
                               /\ Going(a)' => Going(a)
        BY <1>1, <2>1, <3>1, <3>3, ThreadNode DEF Going, Running, Waits
      <4> QED BY <4>1 DEF Forward, Past
    <3>7. ASSUME NEW a \in Attempt, srv'[a].state = "ask" PROVE m.request # Request(a)
      <4>1. a # b /\ m.request[1] = b /\ Request(a)[1] = a
        BY <1>3, <1>12, <3>1, <3>3, <3>7 DEF Request
      <4> QED BY <4>1
    <3> QED BY <3>3, <3>4, <3>5, <3>6, <3>7
  <2>2. CASE ~taken
    <3>1. srv' = srv
      BY <2>0, <2>2 DEF Resolve, b
    <3>2. Starts'
      BY <1>9, <3>1 DEF NoneBegun
    <3>3. ASSUME NEW a \in Attempt, srv[a].state = "ask", m.request = Request(a)
          PROVE  FALSE
      <4>1. Match(a) /\ a = b
        BY <1>3, <1>12, <3>3 DEF LoginInv, Request
      <4>2. m.node = srv[a].node /\ m.kind = srv[a].kind
        BY <1>2, <1>12, <3>3, <4>1 DEF Match
      <4> QED BY <2>2, <3>3, <4>1, <4>2 DEF Waits
    <3> QED BY <1>1, <3>1, <3>2, <3>3, SameThreads
  <2> QED BY <2>1, <2>2
<1> QED BY <1>3, <1>10, <1>11, <1>12

\* A step of a thread, or its end, that the page is not told of.
LEMMA SilentStep ==
  ASSUME LoginInv, NEW a \in Attempt, Running(a), NEW t \in Threads, srv' = [srv EXCEPT ![a] = t],
         UNCHANGED <<draft, flow, down, up>>,
         t.state \in {"run", "expired", "superseded"},
         t.state # "superseded" =>
           /\ t.asked = srv[a].asked
           /\ \/ t.node = srv[a].node /\ (srv[a].step \in {"next", "shell"} => t.step = srv[a].step)
              \/ t.node = srv[a].node + 1
  PROVE  LoginInv'
<1>1. /\ TypeOK /\ Page /\ Starts /\ srv \in [Attempt -> Threads]
  BY DEF LoginInv, TypeOK
<1>2. /\ srv' \in [Attempt -> Threads] /\ srv'[a] = t /\ srv[a].state # "none"
      /\ \A c \in Attempt \ {a} : srv'[c] = srv[c]
  BY <1>1 DEF Running
<1>3. TypeOK' /\ Page'
  BY <1>1, <1>2 DEF TypeOK, Page, Open
<1>4. Starts'
  BY <1>1, <1>2, Elements DEF Starts, TypeOK, Answers, Orders
<1>5. ThreadsStay
  BY <1>2 DEF ThreadsStay, Running
<1>6. ASSUME NEW c \in Attempt PROVE Forward(c) /\ PageStays(c) /\ Asked(c)'
  <2>1. /\ srv[c].node \in Nat /\ t.node \in Nat /\ \A n \in Node : n \in Nat
    BY <1>1, ThreadNode, NodeIsNat DEF Threads
  <2>2. CASE c = a
    <3>1. Going(a) /\ (Going(a)' => t.state # "superseded")
      BY <1>2 DEF Going, Running
    <3>2. ASSUME t.state # "superseded" PROVE Forward(a)
      <4>1. srv'[a] = t /\ (t.node = srv[a].node \/ t.node = srv[a].node + 1)
        BY <1>2, <3>2
      <4>2. srv[a].node <= t.node /\ \A n \in Node : Past(a, n) => Past(a, n)'
        BY <2>1, <2>2, <3>2, <4>1 DEF Past
      <4> QED BY <3>1, <4>1, <4>2 DEF Forward
    <3>3. Forward(a)
      BY <3>1, <3>2 DEF Forward
    <3> QED BY <1>2, <2>2, <3>3 DEF PageStays, Asked
  <2>3. CASE c # a
    <3>1. Forward(c)
      BY <1>2, <2>1, <2>3 DEF Forward, Going, Running, Past
    <3>2. Asked(c)'
      BY <1>1, <1>2, <2>3, ThreadNode, AskedStays DEF LoginInv, PromptAt
    <3> QED BY <3>1, <3>2 DEF PageStays
  <2> QED BY <2>2, <2>3
<1>7. FewerPrompts
  BY DEF FewerPrompts, Seen, PromptAt
<1> QED BY <1>1, <1>3, <1>4, <1>5, <1>6, <1>7, SameDown, SameUp, QuietStep

\* A thread that is at work says what it does, or asks, and goes on with t.
LEMMA SayStep ==
  ASSUME LoginInv, NEW a \in Attempt, NEW t \in Threads, NEW type, NEW phase,
         Say(a, type, phase, t), srv[a].state \in {"run", "expired"},
         /\ type \in {"prompt", "progress", "connected", "error"}
         /\ type = "prompt" => phase \in Kinds
         /\ type = "progress" => phase \in Reported
         /\ type \in {"connected", "error"} => phase = None,
         t.state \in {"run", "ask", "done", "failed"},
         t.state = "ask" => /\ type = "prompt" /\ t.kind = phase
                            /\ t.step \in {"auth", "authenticate"},
         type = "prompt" => t.asked = srv[a].asked + 1,
         t.state \in {"run", "ask"} =>
           /\ t.node = srv[a].node /\ srv[a].asked <= t.asked
           /\ srv[a].step \in {"next", "shell"} => t.step \in {"next", "shell"},
         phase = "authenticated" => t.step \in {"next", "shell"}
  PROVE  LoginInv'
<1> DEFINE m == [type |-> type, attempt |-> a, node |-> srv[a].node, phase |-> phase,
                 request |-> <<a, t.asked>>]
<1>1. /\ TypeOK /\ Page /\ Starts /\ Once /\ Numbers /\ srv \in [Attempt -> Threads]
      /\ srv' = [srv EXCEPT ![a] = t] /\ down' = Append(down, m)
      /\ UNCHANGED <<draft, flow, up>> /\ down \in Seq(Messages)
  BY DEF LoginInv, TypeOK, Say
<1>2. /\ srv' \in [Attempt -> Threads] /\ srv'[a] = t
      /\ \A c \in Attempt \ {a} : srv'[c] = srv[c]
  BY <1>1
<1>3. /\ srv[a].node \in Node /\ srv[a].node \in Nat /\ srv[a].asked \in Nat
      /\ t.asked \in Nat /\ t.node \in Nat
  BY <1>1, ThreadNode, NodeIsNat DEF Threads
<1>4. /\ m \in Messages /\ m.type = type /\ m.attempt = a /\ m.node = srv[a].node
      /\ m.phase = phase /\ m.request = <<a, t.asked>>
      /\ m.request[1] = a /\ m.request[2] = t.asked
  BY <1>3 DEF Messages, Requests, Reported, Kinds, Phases
<1> HIDE DEF m
<1>5. /\ down' \in Seq(Messages) /\ Len(down) \in Nat /\ DOMAIN down = 1..Len(down)
      /\ DOMAIN down' = 1..(Len(down) + 1)
      /\ \A i \in 1..Len(down) : down'[i] = down[i]
      /\ down'[Len(down) + 1] = m
  <2> HIDE DEF Messages
  <2> QED BY <1>1, <1>4, Queued
<1>6. \A i \in DOMAIN down' :
        \/ i \in DOMAIN down /\ down'[i] = down[i]
        \/ down'[i] = m /\ i = Len(down) + 1
  BY <1>5
<1>7. TypeOK' /\ Page'
  BY <1>1, <1>2, <1>5 DEF TypeOK, Page, Open
<1>8. Starts'
  BY <1>1, <1>2, Elements DEF Starts, TypeOK, Answers, Orders
<1>9. Seen' = Seen /\ \A n : PromptAt(n)' = PromptAt(n)
  BY <1>1 DEF Seen, PromptAt
\* What there is was asked before, and is not asked now.
<1>10. \A c \in Attempt, k \in Nat : Known(c, k) =>
         /\ Known(c, k)'
         /\ type = "prompt" /\ c = a => k # t.asked
  <2> SUFFICES ASSUME NEW c \in Attempt, NEW k \in Nat, Known(c, k)
               PROVE  /\ Known(c, k)'
                      /\ type = "prompt" /\ c = a => k # t.asked
    OBVIOUS
  <2>1. CASE c = a
    <3>1. k <= srv[a].asked
      BY <2>1 DEF Known, Running
    <3>2. ASSUME type = "prompt", k = t.asked PROVE FALSE
      BY <1>3, <3>1, <3>2
    <3>3. Known(a, k)'
      <4>1. CASE t.state \in {"run", "ask"}
        <5>1. k <= t.asked
          <6>1. srv[a].asked <= t.asked
            BY <4>1
          <6> QED BY <1>3, <3>1, <6>1
        <5> QED BY <1>2, <4>1, <5>1 DEF Known
      <4>2. CASE t.state \in {"done", "failed"}
        BY <1>2, <4>2 DEF Known, Running
      <4> QED BY <4>1, <4>2
    <3> QED BY <2>1, <3>2, <3>3
  <2>2. CASE c # a
    BY <1>2, <2>2 DEF Known, Running
  <2> QED BY <2>1, <2>2
<1>11. /\ \A i \in DOMAIN down : /\ down[i].attempt \in Attempt
                                 /\ Known(down[i].attempt, down[i].request[2])
                                 /\ down[i].request[1] = down[i].attempt
                                 /\ down[i].request[2] \in Nat
       /\ \A i \in DOMAIN up : up[i].type = "answer" =>
            /\ up[i].attempt \in Attempt /\ Known(up[i].attempt, up[i].request[2])
            /\ up[i].request[1] = up[i].attempt /\ up[i].request[2] \in Nat
       /\ \A r \in Seen : r[1] \in Attempt /\ r[2] \in Nat /\ Known(r[1], r[2])
  <2>1. \A i \in DOMAIN up : up[i] \in Answers \cup Orders
    BY <1>1, Elements DEF TypeOK
  <2> QED BY <1>1, <2>1, DownMessage
          DEF Numbers, TypeOK, Answers, Orders, Seen, Flows, Requests
\* A new request is nowhere yet.
<1>12. type = "prompt" =>
         /\ \A i \in DOMAIN down : down[i].request # m.request
         /\ \A i \in DOMAIN up : up[i].type = "answer" => up[i].request # m.request
         /\ m.request \notin Seen
         /\ \A n \in Node : PromptAt(n) # m.request
  <2>1. \A n \in Node : PromptAt(n) = None \/ PromptAt(n) \in Seen
    BY <1>1 DEF Page, PromptAt, Seen
  <2>2. m.request # None
    BY <1>3, <1>4, NoneAssumption DEF Requests
  <2> QED BY <1>4, <1>10, <1>11, <2>1, <2>2
<1>13. Once'
  <2>1. \A i, j \in DOMAIN down' :
          /\ down'[i].type = "prompt" /\ down'[j].type = "prompt"
          /\ down'[i].request = down'[j].request
          => i = j
    BY <1>1, <1>4, <1>6, <1>12 DEF Once
  <2>2. ASSUME NEW i \in DOMAIN down', down'[i].type = "prompt"
        PROVE  /\ down'[i].request \notin Seen
               /\ \A j \in DOMAIN up : up[j].type = "answer" => up[j].request # down'[i].request
    BY <1>1, <1>4, <1>6, <1>12, <2>2 DEF Once
  <2> QED BY <1>1, <1>9, <2>1, <2>2 DEF Once
<1>14. Numbers'
  <2>1. Known(a, t.asked)'
    BY <1>2, <1>3 DEF Known, Running
  <2>2. \A i \in DOMAIN down' : Known(down[i].attempt, down[i].request[2])'
    <3>1. ASSUME NEW i \in DOMAIN down, down'[i] = down[i]
          PROVE  Known(down[i].attempt, down[i].request[2])'
      <4>1. /\ down[i].attempt \in Attempt /\ down[i].request[2] \in Nat
            /\ Known(down[i].attempt, down[i].request[2])
        BY <1>11
      <4> QED BY <1>10, <3>1, <4>1
    <3>2. ASSUME NEW i \in DOMAIN down', down'[i] = m
          PROVE  Known(down[i].attempt, down[i].request[2])'
      BY <1>4, <2>1, <3>2
    <3> QED BY <1>6, <3>1, <3>2
  <2>3. \A i \in DOMAIN up' : up'[i].type = "answer" => Known(up[i].attempt, up[i].request[2])'
    BY <1>1, <1>10, <1>11
  <2>4. \A r \in Seen' : Known(r[1], r[2])'
    BY <1>9, <1>10, <1>11
  <2> QED BY <2>2, <2>3, <2>4 DEF Numbers
<1>15. ASSUME NEW c \in Attempt PROVE Match(c)'
  <2> SUFFICES ASSUME srv'[c].state = "ask" PROVE Match(c)'
    BY DEF Match
  <2>1. CASE c = a
    <3>1. /\ type = "prompt" /\ Request(a)' = m.request /\ t.kind = m.phase
          /\ t.node = m.node /\ t.step \in {"auth", "authenticate"} /\ t.kind \in Kinds
      BY <1>2, <1>4, <2>1 DEF Request
    <3>2. \A i \in DOMAIN down' : down'[i].type = "prompt" /\ down'[i].request = m.request
            => down'[i].node = t.node /\ down'[i].phase = t.kind
      BY <1>4, <1>6, <1>12, <3>1
    <3>3. /\ \A i \in DOMAIN up' : up'[i].type = "answer" => up'[i].request # m.request
          /\ \A n \in Node : PromptAt(n)' # m.request
      BY <1>1, <1>9, <1>12, <3>1
    <3> QED BY <1>2, <2>1, <3>1, <3>2, <3>3 DEF Match
  <2>2. CASE c # a
    <3>1. /\ srv'[c] = srv[c] /\ Match(c) /\ Request(c)' = Request(c) /\ Request(c)[1] = c
      BY <1>2, <2>2 DEF LoginInv, Request
    <3> HIDE DEF Request
    <3>2. m.request # Request(c)
      BY <1>4, <2>2, <3>1
    <3>3. \A i \in DOMAIN down' : down'[i].type = "prompt" /\ down'[i].request = Request(c)
            => down'[i].node = srv[c].node /\ down'[i].phase = srv[c].kind
      BY <1>6, <3>1, <3>2 DEF Match
    <3> QED BY <1>1, <1>9, <3>1, <3>3 DEF Match
  <2> QED BY <2>1, <2>2
<1>16. ASSUME NEW c \in Attempt PROVE Where(c)'
  <2> SUFFICES ASSUME Going(c)' PROVE Where(c)'
    BY DEF Where
  <2>0. c = a => t.state \in {"run", "ask"}
    BY <1>2 DEF Going, Running
  <2>1. Where(c) /\ Going(c)
    BY <1>2 DEF LoginInv, Going, Running
  <2>2. /\ srv'[c].node = srv[c].node
        /\ \A n : Past(c, n) => Past(c, n)'
    BY <1>2, <2>0 DEF Past
  <2>3. \A i \in DOMAIN down' : down'[i].attempt = c =>
          /\ down'[i].node <= srv'[c].node
          /\ down'[i].phase = "authenticated" => Past(c, down[i].node)'
    <3>1. ASSUME NEW i \in DOMAIN down, down'[i] = down[i], down[i].attempt = c
          PROVE  /\ down'[i].node <= srv'[c].node
                 /\ down'[i].phase = "authenticated" => Past(c, down[i].node)'
      <4>1. down[i].phase = "authenticated" => Past(c, down[i].node)
        BY <2>1, <3>1 DEF Where
      <4> QED BY <2>1, <2>2, <3>1, <4>1 DEF Where
    <3>2. ASSUME NEW i \in DOMAIN down', down'[i] = m, c = a
          PROVE  /\ down'[i].node <= srv'[c].node
                 /\ down'[i].phase = "authenticated" => Past(c, down[i].node)'
      BY <1>2, <1>3, <1>4, <2>0, <3>2 DEF Past
    <3> QED BY <1>4, <1>6, <3>1, <3>2
  <2> QED BY <1>1, <2>1, <2>2, <2>3 DEF Where
<1>17. ASSUME NEW c \in Attempt PROVE Asked(c)'
  <2> SUFFICES ASSUME srv'[c].state = "ask", draft = c PROVE Asked(c)'
    BY <1>1 DEF Asked
  <2>0. \A i \in DOMAIN down : i < Len(down) + 1
    BY <1>5
  <2>1. CASE c = a
    <3>1. type = "prompt" /\ Request(a)' = m.request
      BY <1>2, <1>4, <2>1 DEF Request
    <3>2. ASSUME NEW i \in DOMAIN down', LastOf(a, i)' PROVE down'[i] = m
      <4>1. CASE i \in DOMAIN down
        <5>1. /\ Len(down) + 1 > i /\ Len(down) + 1 \in DOMAIN down'
              /\ down'[Len(down) + 1].attempt = a
          BY <1>4, <1>5, <4>1
        <5> QED BY <3>2, <5>1 DEF LastOf
      <4> QED BY <1>6, <4>1
    <3>3. Len(down) + 1 \in DOMAIN down' /\ down'[Len(down) + 1].attempt = a
      BY <1>4, <1>5
    <3> QED BY <1>4, <2>1, <3>1, <3>2, <3>3 DEF Asked
  <2>2. CASE c # a
    <3>1. /\ srv'[c] = srv[c] /\ Asked(c) /\ Request(c)' = Request(c)
      BY <1>2, <2>2 DEF LoginInv, Request
    <3>2. \A i \in DOMAIN down' : LastOf(c, i)' => i \in DOMAIN down /\ down'[i] = down[i]
                                                  /\ LastOf(c, i)
      <4> SUFFICES ASSUME NEW i \in DOMAIN down', LastOf(c, i)'
                   PROVE  i \in DOMAIN down /\ down'[i] = down[i] /\ LastOf(c, i)
        OBVIOUS
      <4>1. i \in DOMAIN down /\ down'[i] = down[i]
        BY <1>4, <1>6, <2>2 DEF LastOf
      <4>2. \A j \in DOMAIN down : j \in DOMAIN down' /\ down'[j] = down[j]
        BY <1>5
      <4> QED BY <4>1, <4>2 DEF LastOf
    <3>3. (\E i \in DOMAIN down : down[i].attempt = c) => \E i \in DOMAIN down' : down'[i].attempt = c
      BY <1>5
    <3> QED BY <1>1, <1>9, <3>1, <3>2, <3>3 DEF Asked
  <2> QED BY <2>1, <2>2
<1> QED BY <1>7, <1>8, <1>13, <1>14, <1>15, <1>16, <1>17 DEF LoginInv

\* A thread after a step of its own.
LEMMA Gone ==
  ASSUME TypeOK, NEW a \in Attempt,
         NEW s \in {"connect", "verify", "hostkey", "auth", "authenticate", "answered",
                    "accepted", "next", "shell"}
  PROVE  /\ Goto(a, s) \in Threads /\ Goto(a, s).step = s /\ Goto(a, s).state = srv[a].state
         /\ Goto(a, s).node = srv[a].node /\ Goto(a, s).asked = srv[a].asked
         /\ Goto(a, s).kind = srv[a].kind /\ Goto(a, s).tries = srv[a].tries
<1>1. srv[a] \in Threads
  BY ThreadNode
<1> QED BY <1>1 DEF Goto, Threads

\* One that reports its progress.
LEMMA ProgressStep ==
  ASSUME LoginInv, NEW a \in Attempt, NEW phase \in Reported, NEW t \in Threads,
         srv[a].state = "run", Say(a, "progress", phase, t),
         t.state = "run", t.node = srv[a].node, t.asked = srv[a].asked,
         srv[a].step \in {"next", "shell"} => t.step \in {"next", "shell"},
         phase = "authenticated" => t.step = "next"
  PROVE  LoginInv'
<1>1. srv[a].asked \in Nat
  BY ThreadNode DEF LoginInv, Threads
<1> QED BY <1>1, SayStep

\* One that asks.
LEMMA AskStep ==
  ASSUME LoginInv, NEW a \in Attempt, NEW kind \in Kinds, NEW s \in {"auth", "authenticate"},
         srv[a].state = "run", srv[a].step \in {"hostkey", "auth"}, Ask(a, kind, s)
  PROVE  LoginInv'
<1> DEFINE g == Goto(a, s)
           w == [g EXCEPT !.state = "ask"]
           u == [w EXCEPT !.kind = kind]
           t == [u EXCEPT !.asked = @ + 1]
<1>1. /\ g \in Threads /\ g.step = s /\ g.node = srv[a].node /\ g.asked = srv[a].asked
      /\ srv[a].asked \in Nat
  BY Gone, ThreadNode DEF LoginInv, Threads
<1>2. Say(a, "prompt", kind, t)
  BY DEF Ask
<1> HIDE DEF g
<1>3. /\ w \in Threads /\ w.step = s /\ w.node = srv[a].node /\ w.asked = srv[a].asked
      /\ w.state = "ask"
  BY <1>1 DEF Threads
<1> HIDE DEF w
<1>4. /\ u \in Threads /\ u.step = s /\ u.node = srv[a].node /\ u.asked = srv[a].asked
      /\ u.state = "ask" /\ u.kind = kind
  BY <1>3 DEF Threads
<1> HIDE DEF u
<1>5. /\ t \in Threads /\ t.step = s /\ t.node = srv[a].node /\ t.asked = srv[a].asked + 1
      /\ t.state = "ask" /\ t.kind = kind
  BY <1>1, <1>4 DEF Threads
<1> HIDE DEF t
<1>6. srv[a].asked <= t.asked /\ kind # "authenticated"
  BY <1>1, <1>5 DEF Kinds
<1> QED BY <1>1, <1>2, <1>5, <1>6, SayStep

\* One that has come to an end.
LEMMA EndStep ==
  ASSUME LoginInv, NEW a \in Attempt, srv[a].state \in {"run", "expired"},
         \/ Say(a, "connected", None, Over("done"))
         \/ Say(a, "error", None, Over("failed"))
  PROVE  LoginInv'
<1>1. /\ Over("done") \in Threads /\ Over("done").state = "done"
      /\ Over("failed") \in Threads /\ Over("failed").state = "failed"
  BY LoginAssumption DEF Over, Idle, Threads, Node
<1>2. None # "authenticated"
  BY NoneAssumption DEF Phases
<1> QED BY <1>1, <1>2, SayStep

LEMMA ThreadStep ==
  ASSUME LoginInv, NEW a \in Attempt, Thread(a)
  PROVE  LoginInv'
<1>1. TypeOK /\ srv[a] \in Threads /\ srv[a].node \in Nat
  BY ThreadNode DEF LoginInv
<1>2. CASE Connect(a)
  BY <1>1, <1>2, Gone, ProgressStep DEF Connect, At, Reported
<1>3. CASE Verify(a)
  BY <1>1, <1>3, Gone, ProgressStep DEF Verify, At, Reported
<1>4. CASE AskHostKey(a)
  BY <1>4, AskStep DEF AskHostKey, At, Kinds
<1>5. CASE KnownHost(a)
  <2> DEFINE t == Goto(a, "auth")
  <2>1. /\ srv' = [srv EXCEPT ![a] = t] /\ UNCHANGED <<draft, flow, down, up>>
        /\ srv[a].state = "run" /\ srv[a].step = "hostkey"
    BY <1>5 DEF KnownHost, Goto, At
  <2>2. /\ t \in Threads /\ t.state = "run" /\ t.node = srv[a].node
        /\ t.asked = srv[a].asked
    BY <1>1, <2>1, Gone
  <2> HIDE DEF t
  <2> QED BY <2>1, <2>2, SilentStep DEF Running
<1>6. CASE AskPassword(a)
  BY <1>6, AskStep DEF AskPassword, At, Kinds
<1>7. CASE KeyLogin(a)
  BY <1>1, <1>7, Gone, ProgressStep DEF KeyLogin, At, Reported
<1>8. CASE Authenticate(a)
  <2> DEFINE g == Goto(a, "answered")
             t == [g EXCEPT !.tries = @ + 1]
  <2>1. Say(a, "progress", "authenticate", t) /\ srv[a].state = "run" /\ srv[a].step = "authenticate"
    BY <1>8 DEF Authenticate, At
  <2>2. /\ g \in Threads /\ g.step = "answered" /\ g.state = "run"
        /\ g.node = srv[a].node /\ g.asked = srv[a].asked
    BY <1>1, <2>1, Gone
  <2> HIDE DEF g
  <2>3. /\ t \in Threads /\ t.step = "answered" /\ t.state = "run"
        /\ t.node = srv[a].node /\ t.asked = srv[a].asked
    BY <2>2 DEF Threads
  <2> HIDE DEF t
  <2> QED BY <2>1, <2>3, ProgressStep DEF Reported
<1>9. CASE WrongPassword(a)
  <2> DEFINE t == Goto(a, "auth")
  <2>1. /\ srv' = [srv EXCEPT ![a] = t] /\ UNCHANGED <<draft, flow, down, up>>
        /\ srv[a].state = "run" /\ srv[a].step = "answered"
    BY <1>9 DEF WrongPassword, Goto, At
  <2>2. /\ t \in Threads /\ t.state = "run" /\ t.node = srv[a].node
        /\ t.asked = srv[a].asked
    BY <1>1, <2>1, Gone
  <2> HIDE DEF t
  <2> QED BY <2>1, <2>2, SilentStep DEF Running
<1>10. CASE Authenticated(a)
  BY <1>1, <1>10, Gone, ProgressStep DEF Authenticated, At, Reported
<1>11. CASE NextHop(a)
  <2> DEFINE w == [srv[a] EXCEPT !.node = @ + 1]
             u == [w EXCEPT !.step = "connect"]
             t == [u EXCEPT !.tries = 0]
  <2>1. /\ srv' = [srv EXCEPT ![a] = t] /\ UNCHANGED <<draft, flow, down, up>>
        /\ srv[a].state = "run" /\ srv[a].node < Hops
    BY <1>1, <1>11 DEF NextHop, At, LoginInv, TypeOK
  <2>2. srv[a].node + 1 \in Node
    BY <1>1, <2>1, LoginAssumption DEF Node
  <2>3. w \in Threads /\ w.node = srv[a].node + 1 /\ w.state = "run" /\ w.asked = srv[a].asked
    BY <1>1, <2>1, <2>2 DEF Threads
  <2> HIDE DEF w
  <2>4. u \in Threads /\ u.node = srv[a].node + 1 /\ u.state = "run" /\ u.asked = srv[a].asked
    BY <2>3 DEF Threads
  <2> HIDE DEF u
  <2>5. t \in Threads /\ t.node = srv[a].node + 1 /\ t.state = "run" /\ t.asked = srv[a].asked
    BY <2>4 DEF Threads
  <2> HIDE DEF t
  <2> QED BY <2>1, <2>5, SilentStep DEF Running
<1>12. CASE OpenShell(a)
  BY <1>1, <1>12, Gone, ProgressStep DEF OpenShell, At, Reported
<1>13. CASE Connected(a)
  BY <1>13, EndStep DEF Connected, At
<1>14. CASE Expire(a)
  <2> DEFINE t == [srv[a] EXCEPT !.state = "expired"]
  <2>1. /\ srv' = [srv EXCEPT ![a] = t] /\ UNCHANGED <<draft, flow, down, up>>
        /\ Waits(srv[a])
    BY <1>14 DEF Expire
  <2>2. /\ t \in Threads /\ t.state = "expired" /\ t.node = srv[a].node
        /\ t.asked = srv[a].asked /\ t.step = srv[a].step
    BY <1>1 DEF Threads
  <2> HIDE DEF t
  <2> QED BY <2>1, <2>2, SilentStep DEF Running, Waits
<1>15. CASE Fail(a)
  BY <1>15, EndStep DEF Fail
<1> QED BY <1>2, <1>3, <1>4, <1>5, <1>6, <1>7, <1>8, <1>9, <1>10, <1>11, <1>12, <1>13,
           <1>14, <1>15 DEF Thread

LEMMA SupersedeStep ==
  ASSUME LoginInv, NEW a \in Attempt, Supersede(a)
  PROVE  LoginInv'
<1> DEFINE t == Over("superseded")
<1>1. /\ srv' = [srv EXCEPT ![a] = t] /\ UNCHANGED <<draft, flow, down, up>> /\ Running(a)
  BY DEF Supersede
<1>2. t \in Threads /\ t.state = "superseded"
  BY LoginAssumption DEF Over, Idle, Threads, Node
<1> HIDE DEF t
<1> QED BY <1>1, <1>2, SilentStep

-----------------------------------------------------------------------------
(* The theorems.                                                           *)

LEMMA LoginStep == LoginInv /\ [Next]_vars => LoginInv'
<1> SUFFICES ASSUME LoginInv, [Next]_vars PROVE LoginInv'
  OBVIOUS
<1>1. ASSUME NEW a \in Attempt, Start(a) \/ Thread(a) \/ Supersede(a) PROVE LoginInv'
  BY <1>1, StartStep, ThreadStep, SupersedeStep
<1>2. ASSUME NEW n \in Node, Type(n) \/ Reply(n) PROVE LoginInv'
  BY <1>2, TypeStep, ReplyStep
<1>3. CASE CancelConnection \/ Back
  BY <1>3, CancelStep
<1>4. CASE SwitchTab
  BY <1>4, StillStep DEF SwitchTab
<1>5. CASE Receive
  BY <1>5, ReceiveStep
<1>6. CASE Disconnect
  BY <1>6, DisconnectStep
<1>7. CASE Serve
  BY <1>7, ServeStep
<1>8. CASE UNCHANGED vars
  BY <1>8, StillStep DEF vars
<1> QED BY <1>1, <1>2, <1>3, <1>4, <1>5, <1>6, <1>7, <1>8 DEF Next

\* The types of the page, of the threads and of what is under way between them,
\* and what ties a request to the one place it is in.
THEOREM LoginInvariant == Spec => []LoginInv
<1> QED BY InitLogin, LoginStep, PTL DEF Spec

LEMMA LoginBelongs == LoginInv => AnswersBelong
<1> SUFFICES ASSUME LoginInv PROVE AnswersBelong
  OBVIOUS
<1>1. TypeOK /\ Page /\ Once
  BY DEF LoginInv
<1>2. ASSUME flow # None, NEW n \in Node, flow.input[n] # None
      PROVE  ~flow.finished /\ n = flow.index /\ flow.input[n] = flow.ask[n].request
  BY <1>1, <1>2 DEF Page
<1>3. ASSUME NEW i \in DOMAIN up, up[i].type = "answer"
      PROVE  /\ up[i].request[1] = up[i].attempt
             /\ up[i].kind = "password" => up[i].typed = up[i].request
  <2>1. up[i] \in Answers
    BY <1>1, <1>3, Elements DEF TypeOK, Orders
  <2> QED BY <2>1 DEF Answers
<1>4. \A i, j \in DOMAIN up :
        up[i].type = "answer" /\ up[j].type = "answer" /\ up[j].request = up[i].request
        => j = i
  BY <1>1 DEF Once
<1> QED BY <1>2, <1>3, <1>4 DEF AnswersBelong

\* A password is where it was typed, under the prompt that asked for it, or on
\* its way as the only answer to that request; in no other attempt's, and on no
\* other node.
THEOREM AnswersBelongToRequests == Spec => []AnswersBelong
<1> QED BY LoginInvariant, LoginBelongs, PTL

LEMMA LoginShows == LoginInv => PromptShown
<1> SUFFICES ASSUME LoginInv, NEW a \in Attempt, srv[a].state = "ask", draft = a,
                    \A i \in DOMAIN down : down[i].attempt # a,
                    ~ \E i \in DOMAIN up : up[i].type = "answer" /\ up[i].request = Request(a)
             PROVE  flow.ask[srv[a].node] = [request |-> Request(a), kind |-> srv[a].kind]
  BY DEF PromptShown
<1>1. /\ TypeOK /\ Page /\ Match(a) /\ Asked(a) /\ srv[a].node \in Node
      /\ flow \in Flows /\ flow # None
  BY ThreadNode, PageFlow DEF LoginInv
<1>2. PromptAt(srv[a].node) = Request(a)
  BY <1>1 DEF Asked
<1>3. flow.ask[srv[a].node].request = Request(a) /\ flow.ask[srv[a].node].kind = srv[a].kind
  BY <1>1, <1>2 DEF Match, PromptAt
<1>4. flow.ask[srv[a].node] \in [request : Requests \cup {None}, kind : Kinds \cup {None}]
  BY <1>1 DEF Flows
<1> HIDE DEF Request
<1> QED BY <1>3, <1>4

\* A prompt is not lost before it is answered: while its thread waits and has
\* refused no answer, and its messages have arrived, it is on show at its node, or
\* the answer is under way.
THEOREM PromptIsShown == Spec => []PromptShown
<1> QED BY LoginInvariant, LoginShows, PTL

=============================================================================
