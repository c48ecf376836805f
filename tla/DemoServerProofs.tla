-------------------------- MODULE DemoServerProofs --------------------------
(***************************************************************************)
(* DemoServer, for any ids, clients, streams and wallets and any number of *)
(* requests and losses: its types and every invariant its run checks.      *)
(*                                                                         *)
(* The argument: an id is given once.  So what a flow was answered in one  *)
(* step stays true of that id until its next step, whatever the requests   *)
(* of other clients do in between: its challenge stays, and its session    *)
(* either keeps its messages or is gone for good (Grows).  Fits says what  *)
(* a flow relies on at each step, and no handler needs to know of the      *)
(* flows it does not answer (StepKeeps).  The streams follow from their    *)
(* subscriptions: every prompt adds one answer to the history and one      *)
(* event to each stream that listens, and nothing else adds either.        *)
(* Last, the safety half of TerminalsAreClosed: each terminal has a flow   *)
(* that will close it (Holds).                                             *)
(***************************************************************************)
EXTENDS DemoServer, SequenceTheorems, TLAPS

(* The steps of the flows. *)

LEMMA Kinds == Kind = {"terminal", "chat", "wallet", "provision", "post", "remove", "abort"}
  BY DEF Kind, Steps

LEMMA StepCount ==
  ASSUME NEW k \in Kind
  PROVE  /\ k = "chat" => Len(Steps[k]) = 3
         /\ k = "wallet" => Len(Steps[k]) = 2
         /\ k = "terminal" => Len(Steps[k]) = 3
         /\ k \notin {"chat", "wallet", "terminal"} => Len(Steps[k]) = 1
         /\ 1 \in 1..Len(Steps[k])
<1>1. CASE k = "terminal" BY <1>1 DEF Steps
<1>2. CASE k = "chat" BY <1>2 DEF Steps
<1>3. CASE k = "wallet" BY <1>3 DEF Steps
<1>4. CASE k \in {"provision", "post", "remove", "abort"} BY <1>4 DEF Steps
<1> QED BY <1>1, <1>2, <1>3, <1>4, Kinds

LEMMA StepTable ==
  ASSUME NEW k \in Kind, NEW i \in 1..Len(Steps[k])
  PROVE  /\ i \in 1..3
         /\ Steps[k][i] = "create" <=> k = "terminal" /\ i = 1
         /\ Steps[k][i] = "execute" <=> k = "terminal" /\ i = 2
         /\ Steps[k][i] = "delete" <=> k = "terminal" /\ i = 3
         /\ Steps[k][i] = "chatNew" <=> k = "chat" /\ i = 1
         /\ Steps[k][i] = "chatSend" <=> (k = "chat" /\ i = 2) \/ k = "post"
         /\ Steps[k][i] = "messages" <=> k = "chat" /\ i = 3
         /\ Steps[k][i] = "challenge" <=> k = "wallet" /\ i = 1
         /\ Steps[k][i] = "session" <=> k = "wallet" /\ i = 2
         /\ Steps[k][i] = "chatDelete" <=> k = "remove"
         /\ Steps[k][i] = "abort" <=> k = "abort"
<1>1. CASE k = "terminal" BY <1>1 DEF Steps
<1>2. CASE k = "chat" BY <1>2 DEF Steps
<1>3. CASE k = "wallet" BY <1>3 DEF Steps
<1>4. CASE k \in {"provision", "post", "remove", "abort"} BY <1>4 DEF Steps
<1> QED BY <1>1, <1>2, <1>3, <1>4, Kinds

(* The events of a stream and the answers in a history. *)

LEMMA MirrorsNothing ==
  ASSUME NEW m \in Seq(Message)
  PROVE  Mirrors(<<>>, m, Len(m))
<1>1. Answers(m, Len(m)) = {} /\ Parts(<<>>) = {}
  BY DEF Answers, Parts
<1>2. [k \in {} |-> 0] \in [{} -> {}]
  OBVIOUS
<1> QED BY <1>1, <1>2 DEF Mirrors

\* An event of another kind tells of no answer.
LEMMA MirrorsOther ==
  ASSUME NEW g \in Seq(Event), NEW m \in Seq(Message), NEW from \in Nat,
         NEW e \in Event, e.type # "part",
         Mirrors(g, m, from)
  PROVE  Mirrors(g \o <<e>>, m, from)
<1>1. /\ Len(g \o <<e>>) = Len(g) + 1 /\ (g \o <<e>>)[Len(g) + 1] = e
      /\ \A k \in 1..Len(g) : (g \o <<e>>)[k] = g[k]
  <2>1. <<e>> \in Seq(Event) /\ Len(<<e>>) = 1 /\ <<e>>[1] = e
    OBVIOUS
  <2> QED BY <2>1
<1>2. Parts(g \o <<e>>) = Parts(g)
  BY <1>1 DEF Parts
<1>3. \A k \in Parts(g) : (g \o <<e>>)[k] = g[k]
  BY <1>1 DEF Parts
<1>4. PICK event \in [Answers(m, from) -> Parts(g)] :
        /\ \A p \in Parts(g) : \E k \in Answers(m, from) : event[k] = p
        /\ \A j, k \in Answers(m, from) : j < k => event[j] < event[k]
        /\ \A k \in Answers(m, from) : g[event[k]].of = m[k].of
  BY DEF Mirrors
<1>5. \A k \in Answers(m, from) : (g \o <<e>>)[event[k]].of = m[k].of
  BY <1>3, <1>4
<1> QED BY <1>2, <1>4, <1>5 DEF Mirrors

\* The messages n and the events h after a prompt of client c.
Sent(n, m, c) == n = m \o <<[role |-> "user", of |-> c], [role |-> "assistant", of |-> c]>>
Told(h, g, c) == h = g \o <<[type |-> "updated", of |-> c], [type |-> "part", of |-> c],
                            [type |-> "idle", of |-> c]>>

LEMMA SentMessages ==
  ASSUME NEW m \in Seq(Message), NEW c \in Client, NEW n,
         Sent(n, m, c)
  PROVE  /\ n \in Seq(Message) /\ Len(n) = Len(m) + 2
         /\ \A k \in 1..Len(m) : n[k] = m[k]
         /\ n[Len(m) + 1] = [role |-> "user", of |-> c]
         /\ n[Len(m) + 2] = [role |-> "assistant", of |-> c]
<1> DEFINE u == [role |-> "user", of |-> c]
           a == [role |-> "assistant", of |-> c]
<1>1. u \in Message /\ a \in Message
  BY DEF Message
<1>2. n = m \o <<u, a>>
  BY DEF Sent
<1> HIDE DEF u, a
<1>3. <<u, a>> \in Seq(Message) /\ Len(<<u, a>>) = 2 /\ <<u, a>>[1] = u /\ <<u, a>>[2] = a
  BY <1>1
<1>4. /\ n \in Seq(Message) /\ Len(n) = Len(m) + 2
      /\ \A k \in 1..Len(m) : n[k] = m[k]
      /\ n[Len(m) + 1] = u /\ n[Len(m) + 2] = a
  BY <1>2, <1>3
<1> QED BY <1>4 DEF u, a

LEMMA SentEvents ==
  ASSUME NEW g \in Seq(Event), NEW c \in Client, NEW h,
         Told(h, g, c)
  PROVE  /\ h \in Seq(Event) /\ Len(h) = Len(g) + 3
         /\ \A k \in 1..Len(g) : h[k] = g[k]
         /\ h[Len(g) + 1].type = "updated"
         /\ h[Len(g) + 2].type = "part" /\ h[Len(g) + 2].of = c
         /\ h[Len(g) + 3].type = "idle"
<1> DEFINE x == [type |-> "updated", of |-> c]
           y == [type |-> "part", of |-> c]
           z == [type |-> "idle", of |-> c]
<1>1. /\ x \in Event /\ y \in Event /\ z \in Event
      /\ x.type = "updated" /\ y.type = "part" /\ y.of = c /\ z.type = "idle"
  BY DEF Event
<1>2. h = g \o <<x, y, z>>
  BY DEF Told
<1> HIDE DEF x, y, z
<1>3. /\ <<x, y, z>> \in Seq(Event) /\ Len(<<x, y, z>>) = 3
      /\ <<x, y, z>>[1] = x /\ <<x, y, z>>[2] = y /\ <<x, y, z>>[3] = z
  BY <1>1
<1>4. /\ h \in Seq(Event) /\ Len(h) = Len(g) + 3
      /\ \A k \in 1..Len(g) : h[k] = g[k]
      /\ h[Len(g) + 1] = x /\ h[Len(g) + 2] = y /\ h[Len(g) + 3] = z
  BY <1>2, <1>3
<1> QED BY <1>1, <1>4

LEMMA Grown ==
  ASSUME NEW a \in Nat, NEW b \in Nat, a <= b
  PROVE  /\ a + 1..b + 2 = (a + 1..b) \cup {b + 1, b + 2}
         /\ 1..b + 3 = (1..b) \cup {b + 1, b + 2, b + 3}
  OBVIOUS

\* A prompt adds one answer and one event that brings it.
LEMMA MirrorsSend ==
  ASSUME NEW g \in Seq(Event), NEW m \in Seq(Message), NEW from \in 0..Len(m), NEW c \in Client,
         NEW h, NEW n,
         Sent(n, m, c),
         Told(h, g, c),
         Mirrors(g, m, from)
  PROVE  Mirrors(h, n, from)
<1> DEFINE a == Len(m) + 2
           p == Len(g) + 2
<1>1. /\ Len(n) = Len(m) + 2 /\ \A k \in 1..Len(m) : n[k] = m[k]
      /\ n[Len(m) + 1].role = "user"
      /\ n[a].role = "assistant" /\ n[a].of = c
  <2>1. /\ Len(n) = Len(m) + 2 /\ \A k \in 1..Len(m) : n[k] = m[k]
        /\ n[Len(m) + 1] = [role |-> "user", of |-> c]
        /\ n[Len(m) + 2] = [role |-> "assistant", of |-> c]
    BY SentMessages
  <2> QED BY <2>1
<1>2. /\ Len(h) = Len(g) + 3 /\ \A k \in 1..Len(g) : h[k] = g[k]
      /\ h[Len(g) + 1].type = "updated" /\ h[Len(g) + 3].type = "idle"
      /\ h[p].type = "part" /\ h[p].of = c
  BY SentEvents
<1>3. Answers(n, from) = Answers(m, from) \cup {a}
  <2>1. from + 1..Len(n) = (from + 1..Len(m)) \cup {Len(m) + 1, a}
    BY <1>1, Grown
  <2> QED BY <1>1, <2>1 DEF Answers
<1>4. Parts(h) = Parts(g) \cup {p}
  <2>1. 1..Len(h) = (1..Len(g)) \cup {Len(g) + 1, p, Len(g) + 3}
    BY <1>2, Grown
  <2> QED BY <1>2, <2>1 DEF Parts
<1>5. /\ \A k \in Answers(m, from) : k \in 1..Len(m) /\ k < a /\ k # a
      /\ \A k \in Parts(g) : k \in 1..Len(g) /\ k < p
  BY DEF Answers, Parts
<1>6. PICK event \in [Answers(m, from) -> Parts(g)] :
        /\ \A q \in Parts(g) : \E k \in Answers(m, from) : event[k] = q
        /\ \A j, k \in Answers(m, from) : j < k => event[j] < event[k]
        /\ \A k \in Answers(m, from) : g[event[k]].of = m[k].of
  BY DEF Mirrors
<1> DEFINE after == [k \in Answers(n, from) |-> IF k = a THEN p ELSE event[k]]
<1>7. /\ after \in [Answers(n, from) -> Parts(h)]
      /\ after[a] = p /\ \A k \in Answers(m, from) : after[k] = event[k]
  <2> HIDE DEF a, p
  <2>1. \A k \in Answers(n, from) : k # a => k \in Answers(m, from) /\ event[k] \in Parts(g)
    BY <1>3, <1>6
  <2>2. a \in Answers(n, from) /\ \A k \in Answers(m, from) : k \in Answers(n, from) /\ k # a
    BY <1>3, <1>5
  <2> QED BY <1>4, <2>1, <2>2
<1> HIDE DEF after, a, p
<1>8. \A q \in Parts(h) : \E k \in Answers(n, from) : after[k] = q
  BY <1>3, <1>4, <1>6, <1>7
<1>9. \A j, k \in Answers(n, from) : j < k => after[j] < after[k]
  <2> SUFFICES ASSUME NEW j \in Answers(n, from), NEW k \in Answers(n, from), j < k
               PROVE  after[j] < after[k]
    OBVIOUS
  <2>1. CASE j \in Answers(m, from) /\ k \in Answers(m, from)
    BY <2>1, <1>6, <1>7
  <2>2. CASE j \in Answers(m, from) /\ k = a
    BY <2>2, <1>5, <1>6, <1>7
  <2>3. CASE j = a
    <3>1. k \in 1..Len(m) \/ k = a
      BY <1>3, <1>5
    <3> QED BY <2>3, <3>1 DEF a
  <2> QED BY <1>3, <2>1, <2>2, <2>3
<1>10. \A k \in Answers(n, from) : h[after[k]].of = n[k].of
  <2> SUFFICES ASSUME NEW k \in Answers(n, from) PROVE h[after[k]].of = n[k].of
    OBVIOUS
  <2>1. CASE k = a
    BY <2>1, <1>1, <1>2, <1>7 DEF a, p
  <2>2. CASE k \in Answers(m, from)
    <3>1. event[k] \in 1..Len(g) /\ k \in 1..Len(m) /\ after[k] = event[k]
      BY <2>2, <1>5, <1>6, <1>7
    <3>2. h[event[k]] = g[event[k]] /\ n[k] = m[k]
      BY <3>1, <1>1, <1>2
    <3> QED BY <2>2, <3>1, <3>2, <1>6
  <2> QED BY <1>3, <2>1, <2>2
<1> QED BY <1>7, <1>8, <1>9, <1>10 DEF Mirrors

-----------------------------------------------------------------------------
(* The inductive invariant. *)

Server ==
    /\ TypeOK
    /\ \A s \in Name : chatOf[s] # None => s \in used
    /\ \A s \in Name : history[s] # <<>> => history[s][Len(history[s])].role = "assistant"
    /\ joined \in [Viewer -> [on : used \cup {None}, from : Nat]]
    /\ \A v \in Viewer : joined[v].on \in Sessions => joined[v].from <= Len(history[joined[v].on])

Prompt(c) == [role |-> "user", of |-> c]

FlowState == [kind : Kind \cup {None}, step : 1..3, net : {"none", "sent", "ok", "error"},
              bearer : BOOLEAN, inst : Name \cup {None}, id : Name \cup {None},
              wallet : Wallet \cup {None}, ans : Name \cup {None} \cup Challenge \cup Seq(Message)]

\* What a flow r at step "session" asks with, and what it is answered.
Owns(r) ==
    LET mine == [inst |-> r.inst, wallet |-> r.wallet]
    IN  r.kind = "wallet" =>
          /\ r.step = 1 /\ r.net = "ok" => challenges[r.ans] = mine
          /\ r.step = 2 => challenges[r.id] = mine
          /\ r.step = 2 /\ r.net = "ok" => r.ans = mine

\* The session s of client c, which may have been deleted, has its prompt
\* among the first n messages.
Prompted(c, s, n) ==
    s \in Sessions => \E k \in 1..n : k <= Len(history[s]) /\ history[s][k] = Prompt(c)

Asked(c, r) ==
    r.kind = "chat" =>
        /\ r.step = 3 \/ (r.step = 2 /\ r.net = "ok") => \E n \in Nat : Prompted(c, r.id, n)
        /\ r.step = 3 /\ r.net = "ok" =>
             /\ r.ans \in Seq(Message) /\ r.ans # <<>> /\ r.ans[Len(r.ans)].role = "assistant"
             /\ Prompted(c, r.id, Len(r.ans) - 1)

\* What a flow r of client c can be.
Fits(c, r) ==
    r.net # "none" =>
        /\ r.kind \in Kind /\ r.step \in 1..Len(Steps[r.kind])
        /\ r.inst \in instances
        /\ IF r.kind = "wallet" THEN r.wallet \in Wallet ELSE r.wallet = None
        /\ r.kind \in {"post", "remove", "abort"} \/ r.step > 1 => r.id \in used
        /\ r.net = "ok" /\ Steps[r.kind][r.step] \in {"create", "chatNew", "challenge"}
             => r.ans \in used
        /\ Owns(r) /\ Asked(c, r)

\* What client c can show.
FitsShown(c, x) ==
    x # None =>
        /\ x.of \in used
        /\ x.wallet = None => Prompted(c, x.of, x.ans - 1)
        /\ x.wallet # None => x.ans = [inst |-> x.inst, wallet |-> x.wallet]

IInv ==
    /\ Server
    /\ flow \in [Client -> FlowState] /\ \A c \in Client : Fits(c, flow[c])
    /\ shown = [c \in Client |-> shown[c]] /\ \A c \in Client : FitsShown(c, shown[c])
    /\ EventsMirrorHistory

\* Ids are given once; a session that is gone stays gone, and one that stays
\* keeps its messages.
Grows ==
    /\ used \subseteq used' /\ instances \subseteq instances'
    /\ \A n \in used : challenges'[n] = challenges[n]
    /\ \A s \in used : s \in Sessions' =>
         /\ s \in Sessions
         /\ Len(history[s]) <= Len(history'[s])
         /\ \A k \in 1..Len(history[s]) : history'[s][k] = history[s][k]

LEMMA PromptedKept ==
  ASSUME Server, Server', Grows, NEW c \in Client, NEW s \in used, NEW n, Prompted(c, s, n)
  PROVE  Prompted(c, s, n)'
<1>0. s \in Name /\ history'[s] \in Seq(Message)
  BY DEF Server, TypeOK
<1>1. SUFFICES ASSUME s \in Sessions'
               PROVE  \E k \in 1..n : k <= Len(history'[s]) /\ history'[s][k] = Prompt(c)
  BY DEF Prompted
<1>2. /\ s \in Sessions
      /\ \A k \in 1..Len(history[s]) : history'[s][k] = history[s][k]
      /\ Len(history[s]) \in Nat /\ Len(history'[s]) \in Nat
      /\ Len(history[s]) <= Len(history'[s])
  BY <1>0, <1>1, LenProperties DEF Grows, Server, TypeOK
<1>3. PICK k \in 1..n : k <= Len(history[s]) /\ history[s][k] = Prompt(c)
  BY <1>2 DEF Prompted
<1>4. k \in 1..Len(history[s]) /\ k <= Len(history'[s])
  BY <1>2, <1>3
<1> QED BY <1>2, <1>3, <1>4 DEF Prompt

LEMMA FitsKept ==
  ASSUME Server, Server', Grows, NEW c \in Client, NEW r \in FlowState, Fits(c, r)
  PROVE  Fits(c, r)'
<1>1. SUFFICES ASSUME r.net # "none" PROVE Fits(c, r)'
  BY DEF Fits
<1>2. r.kind \in Kind /\ r.step \in 1..Len(Steps[r.kind])
  BY <1>1 DEF Fits
<1>3. r.step > 1 => r.id \in used
  BY <1>1 DEF Fits
<1>4. Owns(r)'
  <2>1. r.kind = "wallet" /\ r.step = 1 /\ r.net = "ok" => r.ans \in used
    BY <1>1, <1>2, StepTable DEF Fits
  <2> QED BY <1>1, <1>3, <2>1 DEF Fits, Owns, Grows
<1>5. Asked(c, r)'
  <2>1. SUFFICES ASSUME r.kind = "chat" PROVE Asked(c, r)'
    BY DEF Asked
  <2>2. Asked(c, r)
    BY <1>1 DEF Fits
  <2>3. r.step = 3 \/ (r.step = 2 /\ r.net = "ok") => (\E n \in Nat : Prompted(c, r.id, n)')
    BY <1>3, <2>1, <2>2, PromptedKept DEF Asked
  <2>4. r.step = 3 /\ r.net = "ok" => Prompted(c, r.id, Len(r.ans) - 1)'
    BY <1>3, <2>1, <2>2, PromptedKept DEF Asked
  <2> QED BY <2>1, <2>2, <2>3, <2>4 DEF Asked
<1> QED BY <1>1, <1>4, <1>5 DEF Fits, Grows

LEMMA ShownKept ==
  ASSUME Server, Server', Grows, NEW c \in Client, NEW x, FitsShown(c, x)
  PROVE  FitsShown(c, x)'
<1> QED BY PromptedKept DEF FitsShown, Grows

\* A step of the flow of one client keeps the invariant.
LEMMA StepKeeps ==
  ASSUME IInv, NEW c \in Client, Server', Grows, EventsMirrorHistory',
         flow' \in [Client -> FlowState],
         \A d \in Client \ {c} : flow'[d] = flow[d],
         Fits(c, flow[c])',
         shown' = [shown EXCEPT ![c] = shown'[c]],
         FitsShown(c, shown[c])' \/ shown'[c] = shown[c]
  PROVE  IInv'
<1>1. ASSUME NEW d \in Client PROVE Fits(d, flow[d])'
  <2>1. CASE d = c
    BY <2>1
  <2>2. CASE d # c
    <3>1. Fits(d, flow[d]) /\ flow[d] \in FlowState /\ flow'[d] = flow[d]
      BY <2>2 DEF IInv
    <3> QED BY <3>1, FitsKept DEF IInv
  <2> QED BY <2>1, <2>2
<1>2. ASSUME NEW d \in Client PROVE FitsShown(d, shown[d])'
  <2>1. FitsShown(d, shown[d])
    BY DEF IInv
  <2>2. shown'[d] = shown[d] \/ FitsShown(d, shown[d])'
    BY DEF IInv
  <2> QED BY <2>1, <2>2, ShownKept DEF IInv
<1>3. shown' = [d \in Client |-> shown'[d]]
  BY DEF IInv
<1> QED BY <1>1, <1>2, <1>3 DEF IInv

-----------------------------------------------------------------------------
(* The handlers, and what they leave of the server's state. *)

AnswerState == Name \cup {None} \cup Challenge \cup Seq(Message)

\* What a served request may be answered.
Suits(c, a) ==
    /\ a \in AnswerState
    /\ Op(c) \in {"create", "chatNew", "challenge"} => a \in used'
    /\ Op(c) = "challenge" => challenges'[a] = [inst |-> flow[c].inst, wallet |-> flow[c].wallet]
    /\ Op(c) = "session" => a = [inst |-> flow[c].inst, wallet |-> flow[c].wallet]
    /\ flow[c].kind = "chat" /\ Op(c) = "chatSend" => \E n \in Nat : Prompted(c, flow[c].id, n)'
    /\ Op(c) = "messages" =>
         /\ a \in Seq(Message) /\ a # <<>> /\ a[Len(a)].role = "assistant"
         /\ Prompted(c, flow[c].id, Len(a) - 1)'

LEMMA OkStep ==
  ASSUME IInv, NEW c \in Client, NEW a \in AnswerState, Ok(c, a)
  PROVE  /\ flow' \in [Client -> FlowState]
         /\ \A d \in Client \ {c} : flow'[d] = flow[d]
         /\ flow'[c].kind = flow[c].kind /\ flow'[c].step = flow[c].step
         /\ flow'[c].inst = flow[c].inst /\ flow'[c].id = flow[c].id
         /\ flow'[c].wallet = flow[c].wallet
         /\ flow'[c].net = "ok" /\ flow'[c].ans = a
<1>1. flow \in [Client -> FlowState]
  BY DEF IInv
<1>2. flow' = [flow EXCEPT ![c] = [flow[c] EXCEPT !.net = "ok", !.ans = a]]
  BY <1>1 DEF Ok
<1>3. [flow[c] EXCEPT !.net = "ok", !.ans = a] \in FlowState
  BY <1>1 DEF FlowState, AnswerState
<1>4. /\ flow'[c] = [flow[c] EXCEPT !.net = "ok", !.ans = a]
      /\ flow' \in [Client -> FlowState]
      /\ \A d \in Client \ {c} : flow'[d] = flow[d]
  BY <1>1, <1>2, <1>3
<1> QED BY <1>1, <1>4 DEF FlowState

LEMMA ErrorStep ==
  ASSUME IInv, NEW c \in Client, flow' = [flow EXCEPT ![c].net = "error"]
  PROVE  /\ flow' \in [Client -> FlowState]
         /\ \A d \in Client \ {c} : flow'[d] = flow[d]
         /\ flow'[c].kind = flow[c].kind /\ flow'[c].step = flow[c].step
         /\ flow'[c].inst = flow[c].inst /\ flow'[c].id = flow[c].id
         /\ flow'[c].wallet = flow[c].wallet
         /\ flow'[c].net = "error"
<1>1. flow \in [Client -> FlowState]
  BY DEF IInv
<1>2. flow' = [flow EXCEPT ![c] = [flow[c] EXCEPT !.net = "error"]]
  BY <1>1
<1>3. [flow[c] EXCEPT !.net = "error"] \in FlowState
  BY <1>1 DEF FlowState
<1>4. /\ flow'[c] = [flow[c] EXCEPT !.net = "error"]
      /\ flow' \in [Client -> FlowState]
      /\ \A d \in Client \ {c} : flow'[d] = flow[d]
  BY <1>1, <1>2, <1>3
<1> QED BY <1>1, <1>4 DEF FlowState

LEMMA FitsNow ==
  ASSUME IInv, NEW c \in Client, flow[c].net # "none"
  PROVE  /\ Fits(c, flow[c]) /\ flow[c] \in FlowState
         /\ flow[c].kind \in Kind /\ flow[c].step \in 1..Len(Steps[flow[c].kind])
         /\ Op(c) = Steps[flow[c].kind][flow[c].step]
         /\ flow[c].inst \in instances
         /\ flow[c].step > 1 => flow[c].id \in used
         /\ flow[c].kind \in {"post", "remove", "abort"} => flow[c].id \in used
         /\ flow[c].kind = "wallet" => flow[c].wallet \in Wallet
  BY DEF IInv, Fits, Op

LEMMA OpNow ==
  ASSUME IInv, NEW c \in Client, flow[c].net # "none"
  PROVE  /\ Op(c) = "create" <=> flow[c].kind = "terminal" /\ flow[c].step = 1
         /\ Op(c) = "execute" <=> flow[c].kind = "terminal" /\ flow[c].step = 2
         /\ Op(c) = "delete" <=> flow[c].kind = "terminal" /\ flow[c].step = 3
         /\ Op(c) = "chatNew" <=> flow[c].kind = "chat" /\ flow[c].step = 1
         /\ Op(c) = "chatSend" <=> (flow[c].kind = "chat" /\ flow[c].step = 2) \/ flow[c].kind = "post"
         /\ Op(c) = "messages" <=> flow[c].kind = "chat" /\ flow[c].step = 3
         /\ Op(c) = "challenge" <=> flow[c].kind = "wallet" /\ flow[c].step = 1
         /\ Op(c) = "session" <=> flow[c].kind = "wallet" /\ flow[c].step = 2
         /\ Op(c) = "chatDelete" <=> flow[c].kind = "remove"
         /\ Op(c) = "abort" <=> flow[c].kind = "abort"
<1>1. PICK k \in Kind : k = flow[c].kind
  BY FitsNow
<1>2. PICK i \in 1..Len(Steps[k]) : i = flow[c].step
  BY <1>1, FitsNow
<1>3. Op(c) = Steps[k][i]
  BY <1>1, <1>2 DEF Op
<1> QED BY <1>1, <1>2, <1>3, StepTable

\* A request that fails leaves its flow as it is.
LEMMA FailedFits ==
  ASSUME IInv, NEW c \in Client, flow[c].net # "none", Server', Grows,
         flow' = [flow EXCEPT ![c].net = "error"]
  PROVE  Fits(c, flow[c])'
<1>1. /\ flow'[c].kind = flow[c].kind /\ flow'[c].step = flow[c].step
      /\ flow'[c].inst = flow[c].inst /\ flow'[c].id = flow[c].id
      /\ flow'[c].wallet = flow[c].wallet
      /\ flow'[c].net = "error"
  BY ErrorStep
<1>2. Fits(c, flow[c]) /\ flow[c] \in FlowState
  BY FitsNow
<1>3. PICK q \in FlowState : q = flow[c]
  BY <1>2
<1>4. Fits(c, q)'
  BY <1>2, <1>3, FitsKept DEF IInv
<1> QED BY <1>1, <1>3, <1>4 DEF Fits, Owns, Asked

LEMMA AnsweredFits ==
  ASSUME IInv, NEW c \in Client, flow[c].net = "sent", Server', Grows, NEW a, Ok(c, a), Suits(c, a)
  PROVE  Fits(c, flow[c])'
<1>1. /\ flow'[c].kind = flow[c].kind /\ flow'[c].step = flow[c].step
      /\ flow'[c].inst = flow[c].inst /\ flow'[c].id = flow[c].id
      /\ flow'[c].wallet = flow[c].wallet
      /\ flow'[c].net = "ok" /\ flow'[c].ans = a
  BY OkStep DEF Suits
<1>2. Fits(c, flow[c]) /\ flow[c] \in FlowState
  BY FitsNow
<1>3. PICK q \in FlowState : q = flow[c]
  BY <1>2
<1>4. Fits(c, q)'
  BY <1>2, <1>3, FitsKept DEF IInv
<1>5. /\ q.net = "sent" /\ q.kind \in Kind /\ q.step \in 1..Len(Steps[q.kind])
      /\ Op(c) = Steps[q.kind][q.step]
  BY <1>3, FitsNow
<1>6. Owns(flow[c])'
  BY <1>1, <1>3, <1>4, <1>5, StepTable DEF Fits, Owns, Suits
<1>7. Asked(c, flow[c])'
  BY <1>1, <1>3, <1>4, <1>5, StepTable DEF Fits, Asked, Suits
<1> QED BY <1>1, <1>3, <1>4, <1>5, <1>6, <1>7 DEF Fits, Suits

LEMMA ServedKeeps ==
  ASSUME IInv, NEW c \in Client, flow[c].net = "sent", Server', Grows, EventsMirrorHistory',
         Error(c) \/ \E a : Ok(c, a) /\ Suits(c, a),
         shown' = shown
  PROVE  IInv'
<1>1. /\ flow' \in [Client -> FlowState]
      /\ \A d \in Client \ {c} : flow'[d] = flow[d]
  BY OkStep, ErrorStep DEF Error, Suits
<1>2. Fits(c, flow[c])'
  BY FailedFits, AnsweredFits DEF Error
<1>3. shown' = [shown EXCEPT ![c] = shown'[c]] /\ shown'[c] = shown[c]
  BY DEF IInv
<1> QED BY <1>1, <1>2, <1>3, StepKeeps

-----------------------------------------------------------------------------
(* One lemma per handler. *)

\* The state that messages and events depend on stays, but ids may be given.
LEMMA MirrorsKept ==
  ASSUME IInv, Grows, UNCHANGED <<history, got, joined>>
  PROVE  EventsMirrorHistory'
<1> SUFFICES ASSUME NEW v \in Viewer, joined[v].on \in Sessions'
             PROVE  Mirrors(got[v], history[joined[v].on], joined[v].from)
  BY DEF EventsMirrorHistory
<1>1. joined[v].on \in used
  BY DemoAssumption DEF Sessions, IInv, Server
<1> QED BY <1>1 DEF IInv, Grows, EventsMirrorHistory

LEMMA Untouched ==
  ASSUME IInv, UNCHANGED <<server, joined>>, orphans' \subseteq used
  PROVE  Server' /\ Grows /\ EventsMirrorHistory'
<1>1. UNCHANGED <<instances, chatOf, history, subs, terms, challenges, used, got, joined>>
  BY DEF server
<1>2. Server'
  BY <1>1 DEF IInv, Server, TypeOK, Sessions
<1>3. Grows
  BY <1>1, LenProperties DEF IInv, Server, TypeOK, Grows, Sessions
<1> QED BY <1>1, <1>2, <1>3, MirrorsKept

\* New ids, and what is kept under them.
LEMMA IdsGiven ==
  ASSUME IInv, UNCHANGED <<history, subs, got, joined, orphans>>,
         NEW new \in SUBSET (Name \ used), used' = used \cup new,
         instances \subseteq instances', instances' \subseteq instances \cup new,
         terms' \subseteq terms \cup new,
         challenges' \in [Name -> Challenge \cup {None}],
         \A n \in Name \ new : challenges'[n] = challenges[n],
         chatOf' \in [Name -> instances' \cup {None}],
         \A s \in Name \ new : chatOf'[s] = chatOf[s]
  PROVE  Server' /\ Grows /\ EventsMirrorHistory'
<1>1. Grows
  BY LenProperties DEF IInv, Server, TypeOK, Grows, Sessions
<1>2. TypeOK'
  <2>1. \A s \in Name : history[s] # <<>> => s \in used /\ chatOf'[s] # None
    BY DEF IInv, Server, TypeOK
  <2> QED BY <2>1 DEF IInv, Server, TypeOK
<1>3. \A s \in Name : chatOf'[s] # None => s \in used'
  BY DEF IInv, Server
<1>4. joined \in [Viewer -> [on : used' \cup {None}, from : Nat]]
  BY DEF IInv, Server
<1>5. ASSUME NEW v \in Viewer, joined[v].on \in Sessions'
      PROVE  joined[v].from <= Len(history[joined[v].on])
  <2>1. joined[v].on \in used
    BY <1>5, DemoAssumption DEF Sessions, IInv, Server
  <2> QED BY <1>1, <1>5, <2>1 DEF IInv, Server, Grows
<1>6. Server'
  BY <1>2, <1>3, <1>4, <1>5 DEF IInv, Server
<1> QED BY <1>1, <1>6, MirrorsKept

LEMMA NewChallengeKeeps ==
  ASSUME IInv, NEW c \in Client, flow[c].net = "sent", NewChallenge(c),
         UNCHANGED <<shown, joined, orphans>>
  PROVE  IInv'
<1>1. PICK n \in Name :
        /\ Fresh(n)
        /\ challenges' = [challenges EXCEPT ![n] = [inst |-> flow[c].inst, wallet |-> flow[c].wallet]]
        /\ Ok(c, n)
  BY DEF NewChallenge
<1>2. Op(c) = "challenge" /\ flow[c].inst \in Name /\ flow[c].wallet \in Wallet
  BY FitsNow, OpNow DEF NewChallenge, IInv, Server, TypeOK
<1>3. [inst |-> flow[c].inst, wallet |-> flow[c].wallet] \in Challenge
  BY <1>2 DEF Challenge
<1>4. Server' /\ Grows /\ EventsMirrorHistory'
  <2> DEFINE new == {n}
  <2>1. new \in SUBSET (Name \ used) /\ used' = used \cup new
    BY <1>1 DEF Fresh
  <2>2. /\ challenges' \in [Name -> Challenge \cup {None}]
        /\ \A m \in Name \ new : challenges'[m] = challenges[m]
    BY <1>1, <1>3 DEF IInv, Server, TypeOK
  <2>3. /\ UNCHANGED <<instances, chatOf, history, subs, terms, got>>
        /\ chatOf \in [Name -> instances \cup {None}]
    BY DEF NewChallenge, IInv, Server, TypeOK
  <2> HIDE DEF new
  <2> QED BY <2>1, <2>2, <2>3, IdsGiven
<1>5. Suits(c, n)
  BY <1>1, <1>2 DEF Suits, AnswerState, Fresh, IInv, Server, TypeOK
<1> QED BY <1>1, <1>4, <1>5, ServedKeeps

LEMMA WalletSessionKeeps ==
  ASSUME IInv, NEW c \in Client, flow[c].net = "sent", WalletSession(c),
         UNCHANGED <<shown, joined, orphans>>
  PROVE  IInv'
<1>1. Server' /\ Grows /\ EventsMirrorHistory'
  BY Untouched DEF WalletSession, IInv, Server, TypeOK
<1>2. Op(c) = "session" /\ flow[c].kind = "wallet" /\ flow[c].step = 2 /\ flow[c].id \in Name
  <2>1. Op(c) = "session" /\ flow[c].kind = "wallet" /\ flow[c].step = 2
    BY OpNow DEF WalletSession
  <2> QED BY <2>1, FitsNow DEF IInv, Server, TypeOK
<1>3. challenges[flow[c].id] = [inst |-> flow[c].inst, wallet |-> flow[c].wallet]
  BY <1>2, FitsNow DEF Fits, Owns
<1>4. challenges[flow[c].id] # None => Suits(c, challenges[flow[c].id])
  BY <1>2, <1>3 DEF Suits, AnswerState, IInv, Server, TypeOK
<1>5. Error(c) \/ \E a : Ok(c, a) /\ Suits(c, a)
  BY <1>4 DEF WalletSession
<1> QED BY <1>1, <1>5, ServedKeeps

LEMMA ProvisionKeeps ==
  ASSUME IInv, NEW c \in Client, flow[c].net = "sent", Provision(c),
         UNCHANGED <<shown, joined, orphans>>
  PROVE  IInv'
<1>1. CASE Error(c) /\ UNCHANGED <<instances, chatOf, used>>
  <2>1. Server' /\ Grows /\ EventsMirrorHistory'
    BY <1>1, Untouched DEF Provision, server, IInv, Server, TypeOK
  <2> QED BY <1>1, <2>1, ServedKeeps
<1>2. CASE \E n, s \in Name \ used :
             /\ n # s
             /\ used' = used \cup {n, s}
             /\ instances' = instances \cup {n}
             /\ chatOf' = [chatOf EXCEPT ![s] = n]
             /\ Ok(c, n)
  <2>1. PICK n \in Name \ used, s \in Name \ used :
             /\ used' = used \cup {n, s}
             /\ instances' = instances \cup {n}
             /\ chatOf' = [chatOf EXCEPT ![s] = n]
             /\ Ok(c, n)
    BY <1>2
  <2>2. Server' /\ Grows /\ EventsMirrorHistory'
    <3> DEFINE new == {n, s}
    <3>1. /\ new \in SUBSET (Name \ used) /\ used' = used \cup new
          /\ instances \subseteq instances' /\ instances' \subseteq instances \cup new
      BY <2>1
    <3>2. /\ chatOf' \in [Name -> instances' \cup {None}]
          /\ \A m \in Name \ new : chatOf'[m] = chatOf[m]
      BY <2>1 DEF IInv, Server, TypeOK
    <3>3. /\ UNCHANGED <<history, subs, terms, challenges, got>>
          /\ challenges \in [Name -> Challenge \cup {None}]
      BY DEF Provision, IInv, Server, TypeOK
    <3> HIDE DEF new
    <3> QED BY <3>1, <3>2, <3>3, IdsGiven
  <2>3. Suits(c, n)
    BY <2>1, OpNow DEF Suits, AnswerState, Provision
  <2> QED BY <2>1, <2>2, <2>3, ServedKeeps
<1> QED BY <1>1, <1>2 DEF Provision

LEMMA ChatNewKeeps ==
  ASSUME IInv, NEW c \in Client, flow[c].net = "sent", ChatNew(c),
         UNCHANGED <<shown, joined, orphans>>
  PROVE  IInv'
<1>1. PICK n \in Name :
        Fresh(n) /\ chatOf' = [chatOf EXCEPT ![n] = flow[c].inst] /\ Ok(c, n)
  BY DEF ChatNew
<1>2. Op(c) = "chatNew" /\ flow[c].inst \in instances
  BY FitsNow DEF ChatNew
<1>3. Server' /\ Grows /\ EventsMirrorHistory'
  <2> DEFINE new == {n}
  <2>1. new \in SUBSET (Name \ used) /\ used' = used \cup new
    BY <1>1 DEF Fresh
  <2>2. UNCHANGED <<instances, history, subs, terms, challenges, got>>
    BY DEF ChatNew
  <2>3. /\ chatOf' \in [Name -> instances' \cup {None}]
        /\ \A m \in Name \ new : chatOf'[m] = chatOf[m]
        /\ challenges \in [Name -> Challenge \cup {None}]
    BY <1>1, <1>2, <2>2 DEF IInv, Server, TypeOK
  <2> HIDE DEF new
  <2> QED BY <2>1, <2>2, <2>3, IdsGiven
<1>4. Suits(c, n)
  BY <1>1, <1>2 DEF Suits, AnswerState, Fresh
<1> QED BY <1>1, <1>3, <1>4, ServedKeeps

LEMMA SuitsNothing ==
  ASSUME IInv, NEW c \in Client, Op(c) \in {"execute", "delete", "chatDelete", "abort"}
  PROVE  Suits(c, None)
  BY DEF Suits, AnswerState

\* Streams get more events, and nothing else happens to the server.
LEMMA EventsOnly ==
  ASSUME IInv, got' \in [Viewer -> Seq(Event)],
         UNCHANGED <<instances, chatOf, history, subs, terms, challenges, used, joined, orphans>>
  PROVE  Server' /\ Grows
<1>1. TypeOK'
  BY DEF IInv, Server, TypeOK
<1>2. Server'
  BY <1>1 DEF IInv, Server, Sessions
<1>3. Grows
  BY LenProperties DEF IInv, Server, TypeOK, Grows, Sessions
<1> QED BY <1>2, <1>3

LEMMA EmitOther ==
  ASSUME IInv, NEW s, NEW e \in Event, e.type # "part", Emit(s, <<e>>),
         UNCHANGED <<chatOf, history, joined>>
  PROVE  got' \in [Viewer -> Seq(Event)] /\ EventsMirrorHistory'
<1>1. got \in [Viewer -> Seq(Event)]
  BY DEF IInv, Server, TypeOK
<1>2. ASSUME NEW v \in Viewer PROVE got[v] \o <<e>> \in Seq(Event)
  <2>1. got[v] \in Seq(Event) /\ <<e>> \in Seq(Event)
    BY <1>1
  <2> QED BY <2>1
<1>3. got' \in [Viewer -> Seq(Event)]
  BY <1>1, <1>2 DEF Emit
<1>4. ASSUME NEW v \in Viewer, joined[v].on \in Sessions
      PROVE  Mirrors(got'[v], history[joined[v].on], joined[v].from)
  <2>1. Mirrors(got[v], history[joined[v].on], joined[v].from)
    BY <1>4 DEF IInv, EventsMirrorHistory
  <2>2. got'[v] = got[v] \/ got'[v] = got[v] \o <<e>>
    BY DEF Emit
  <2>3. /\ got[v] \in Seq(Event) /\ joined[v].from \in Nat
        /\ history[joined[v].on] \in Seq(Message)
    BY <1>1, <1>4 DEF IInv, Server, TypeOK, Sessions
  <2> QED BY <2>1, <2>2, <2>3, MirrorsOther
<1>5. Sessions' = Sessions
  BY DEF Sessions
<1> QED BY <1>3, <1>4, <1>5 DEF EventsMirrorHistory

LEMMA AbortKeeps ==
  ASSUME IInv, NEW c \in Client, flow[c].net = "sent", Abort(c),
         UNCHANGED <<shown, joined, orphans>>
  PROVE  IInv'
<1> DEFINE e == [type |-> "idle", of |-> c]
<1>1. e \in Event /\ e.type # "part"
  BY DEF Event
<1>2. Emit(flow[c].id, <<e>>) /\ UNCHANGED <<instances, chatOf, history, subs, terms, challenges, used>>
  BY DEF Abort
<1> HIDE DEF e
<1>3. Server' /\ Grows /\ EventsMirrorHistory'
  BY <1>1, <1>2, EmitOther, EventsOnly
<1>4. Ok(c, None) /\ Suits(c, None)
  BY SuitsNothing DEF Abort
<1> QED BY <1>3, <1>4, ServedKeeps

LEMMA TerminalKeeps ==
  ASSUME IInv, NEW c \in Client, flow[c].net = "sent", Terminal(c),
         UNCHANGED <<shown, joined, orphans>>
  PROVE  IInv'
<1>0. /\ UNCHANGED <<instances, chatOf, history, subs, challenges>>
      /\ chatOf \in [Name -> instances \cup {None}]
      /\ challenges \in [Name -> Challenge \cup {None}]
  BY DEF Terminal, IInv, Server, TypeOK
<1>1. ASSUME Op(c) = "create", UNCHANGED got,
             NEW n \in Name, Fresh(n), terms' = terms \cup {n}, Ok(c, n)
      PROVE  IInv'
  <2> DEFINE new == {n}
  <2>1. /\ new \in SUBSET (Name \ used) /\ used' = used \cup new
        /\ terms' \subseteq terms \cup new
    BY <1>1 DEF Fresh
  <2> HIDE DEF new
  <2>2. Server' /\ Grows /\ EventsMirrorHistory'
    BY <1>0, <1>1, <2>1, IdsGiven
  <2>3. Suits(c, n)
    BY <1>1 DEF Suits, AnswerState, Fresh
  <2> QED BY <1>1, <2>2, <2>3, ServedKeeps
<1>2. ASSUME Op(c) = "execute", Emit(flow[c].id, <<[type |-> "output", of |-> c]>>),
             Ok(c, None), UNCHANGED <<terms, used>>
      PROVE  IInv'
  <2> DEFINE e == [type |-> "output", of |-> c]
  <2>1. e \in Event /\ e.type # "part" /\ Emit(flow[c].id, <<e>>)
    BY <1>2 DEF Event
  <2> HIDE DEF e
  <2>2. Server' /\ Grows /\ EventsMirrorHistory'
    BY <1>0, <1>2, <2>1, EmitOther, EventsOnly
  <2> QED BY <1>2, <2>2, SuitsNothing, ServedKeeps
<1>3. ASSUME Op(c) = "delete", terms' = terms \ {flow[c].id}, Ok(c, None), UNCHANGED <<used, got>>
      PROVE  IInv'
  <2>1. Server' /\ Grows /\ EventsMirrorHistory'
    <3>1. {} \in SUBSET (Name \ used) /\ used' = used \cup {} /\ terms' \subseteq terms \cup {}
      BY <1>3
    <3> QED BY <1>0, <1>3, <3>1, IdsGiven
  <2> QED BY <1>3, <2>1, SuitsNothing, ServedKeeps
<1> QED BY <1>1, <1>2, <1>3 DEF Terminal

LEMMA ChatDeleteKeeps ==
  ASSUME IInv, NEW c \in Client, flow[c].net = "sent", ChatDelete(c),
         UNCHANGED <<shown, joined, orphans>>
  PROVE  IInv'
<1>0. UNCHANGED <<instances, subs, terms, challenges, used, got>>
  BY DEF ChatDelete
<1>1. CASE Error(c) /\ UNCHANGED <<chatOf, history>>
  <2>1. Server' /\ Grows /\ EventsMirrorHistory'
    BY <1>0, <1>1, Untouched DEF server, IInv, Server, TypeOK
  <2> QED BY <1>1, <2>1, ServedKeeps
<1>2. ASSUME flow[c].id \in Sessions, Ok(c, None),
             chatOf' = [chatOf EXCEPT ![flow[c].id] = None],
             history' = [history EXCEPT ![flow[c].id] = <<>>]
      PROVE  IInv'
  <2>1. PICK s \in Name : s = flow[c].id
    BY <1>2 DEF Sessions
  <2>2. /\ chatOf \in [Name -> instances \cup {None}] /\ history \in [Name -> Seq(Message)]
        /\ chatOf' = [chatOf EXCEPT ![s] = None] /\ history' = [history EXCEPT ![s] = <<>>]
    BY <1>2, <2>1 DEF IInv, Server, TypeOK
  <2>3. Sessions' = Sessions \ {s} /\ \A t \in Sessions' : history'[t] = history[t]
    BY <2>2 DEF Sessions
  <2>4. Grows
    BY <1>0, <2>3, LenProperties DEF IInv, Server, TypeOK, Grows
  <2>5. TypeOK'
    BY <1>0, <2>2 DEF IInv, Server, TypeOK
  <2>6. /\ \A t \in Name : chatOf'[t] # None => t \in used'
        /\ \A t \in Name : history'[t] # <<>> => history'[t][Len(history'[t])].role = "assistant"
    BY <1>0, <2>2 DEF IInv, Server
  <2>7. Server'
    BY <1>0, <2>3, <2>5, <2>6 DEF IInv, Server
  <2>8. EventsMirrorHistory'
    BY <1>0, <2>3 DEF IInv, EventsMirrorHistory
  <2>9. Suits(c, None)
    BY SuitsNothing DEF ChatDelete
  <2> QED BY <1>2, <2>4, <2>7, <2>8, <2>9, ServedKeeps
<1> QED BY <1>1, <1>2 DEF ChatDelete, Found

\* A session that takes a prompt, and what its streams are told.
LEMMA SendKeeps ==
  ASSUME IInv, NEW c \in Client, NEW s \in Sessions,
         NEW n, Sent(n, history[s], c), history' = [history EXCEPT ![s] = n],
         got' = [v \in Viewer |-> IF v \in subs[s] THEN got'[v] ELSE got[v]],
         \A v \in Viewer : v \in subs[s] => Told(got'[v], got[v], c),
         UNCHANGED <<instances, chatOf, subs, terms, challenges, used, joined, orphans>>
  PROVE  /\ Server' /\ Grows /\ EventsMirrorHistory'
         /\ \E i \in Nat : Prompted(c, s, i)'
<1>1. s \in Name /\ chatOf[s] # None
  BY DEF Sessions
<1>2. history \in [Name -> Seq(Message)] /\ got \in [Viewer -> Seq(Event)]
  BY DEF IInv, Server, TypeOK
<1>3. PICK m \in Seq(Message) : m = history[s]
  BY <1>1, <1>2
<1>4. /\ n \in Seq(Message) /\ Len(n) = Len(m) + 2
      /\ \A k \in 1..Len(m) : n[k] = m[k]
      /\ n[Len(m) + 1] = Prompt(c)
      /\ n[Len(m) + 2] = [role |-> "assistant", of |-> c]
  BY <1>3, SentMessages DEF Prompt
<1>5. \A v \in Viewer : got'[v] \in Seq(Event)
  BY <1>2, SentEvents
<1>6. Len(m) \in Nat
  BY LenProperties
<1>7. /\ history' \in [Name -> Seq(Message)] /\ got' \in [Viewer -> Seq(Event)]
      /\ history'[s] = n /\ \A t \in Name \ {s} : history'[t] = history[t]
  BY <1>1, <1>2, <1>4, <1>5
<1>8. Sessions' = Sessions /\ \A t \in Name : history[t] \in Seq(Message) /\ Len(history[t]) \in Nat
  BY <1>2, LenProperties DEF Sessions
<1>9. Grows
  <2>1. ASSUME NEW t \in used, t \in Sessions
        PROVE  /\ Len(history[t]) <= Len(history'[t])
               /\ \A k \in 1..Len(history[t]) : history'[t][k] = history[t][k]
    <3>1. CASE t = s
      BY <3>1, <1>3, <1>4, <1>6, <1>7
    <3>2. CASE t # s
      <4>1. t \in Name
        BY <2>1 DEF Sessions
      <4> QED BY <3>2, <4>1, <1>7, <1>8
    <3> QED BY <3>1, <3>2
  <2> QED BY <2>1, <1>8 DEF Grows
<1>10. TypeOK'
  BY <1>1, <1>7 DEF IInv, Server, TypeOK
<1>11. \A t \in Name : history'[t] # <<>> => history'[t][Len(history'[t])].role = "assistant"
  BY <1>4, <1>7 DEF IInv, Server
<1>12. ASSUME NEW v \in Viewer, joined[v].on \in Sessions
       PROVE  joined[v].from <= Len(history'[joined[v].on])
  <2>1. joined[v].from <= Len(history[joined[v].on]) /\ joined[v].from \in Nat
    BY <1>12 DEF IInv, Server
  <2>2. joined[v].on \in used /\ Len(history[joined[v].on]) \in Nat
    BY <1>8, <1>12 DEF IInv, Server, Sessions
  <2>3. Len(history[joined[v].on]) <= Len(history'[joined[v].on])
    BY <1>9, <1>8, <1>12, <2>2 DEF Grows
  <2>4. Len(history'[joined[v].on]) \in Nat
    BY <1>7, <1>12, LenProperties DEF Sessions
  <2> QED BY <2>1, <2>2, <2>3, <2>4
<1>13. Server'
  BY <1>8, <1>10, <1>11, <1>12 DEF IInv, Server
<1>14. ASSUME NEW v \in Viewer, joined[v].on \in Sessions
       PROVE  Mirrors(got'[v], history'[joined[v].on], joined[v].from)
  <2>1. Mirrors(got[v], history[joined[v].on], joined[v].from)
    BY <1>14 DEF IInv, EventsMirrorHistory
  <2>2. CASE joined[v].on = s
    <3>1. v \in subs[s]
      BY <1>1, <2>2 DEF IInv, Server, TypeOK
    <3>2. Told(got'[v], got[v], c) /\ got[v] \in Seq(Event)
      BY <1>2, <3>1
    <3>3. joined[v].from \in 0..Len(m)
      BY <1>3, <1>6, <1>14, <2>2 DEF IInv, Server
    <3>4. Mirrors(got[v], m, joined[v].from) /\ Sent(n, m, c)
      BY <1>3, <2>1, <2>2
    <3>5. Mirrors(got'[v], n, joined[v].from)
      BY <3>2, <3>3, <3>4, MirrorsSend
    <3> QED BY <1>7, <2>2, <3>5
  <2>3. CASE joined[v].on # s
    <3>1. v \notin subs[s]
      BY <1>1, <2>3 DEF IInv, Server, TypeOK
    <3>2. got'[v] = got[v] /\ history'[joined[v].on] = history[joined[v].on]
      BY <1>7, <1>14, <2>3, <3>1 DEF Sessions
    <3> QED BY <2>1, <3>2
  <2> QED BY <2>2, <2>3
<1>15. EventsMirrorHistory'
  BY <1>8, <1>14 DEF EventsMirrorHistory
<1>16. \E i \in Nat : Prompted(c, s, i)'
  <2>1. PICK i \in Nat : i = Len(m) + 1
    BY <1>6
  <2>2. i \in 1..i /\ i <= Len(history'[s]) /\ history'[s][i] = Prompt(c)
    BY <1>4, <1>6, <1>7, <2>1
  <2>3. Prompted(c, s, i)'
    BY <2>2 DEF Prompted, Prompt
  <2> QED BY <2>3
<1> QED BY <1>9, <1>13, <1>15, <1>16

LEMMA ChatSendKeeps ==
  ASSUME IInv, NEW c \in Client, flow[c].net = "sent", ChatSend(c),
         UNCHANGED <<shown, joined, orphans>>
  PROVE  IInv'
<1>0. UNCHANGED <<instances, chatOf, subs, terms, challenges, used>> /\ Op(c) = "chatSend"
  BY DEF ChatSend
<1>1. CASE Error(c) /\ UNCHANGED <<history, got>>
  <2>1. Server' /\ Grows /\ EventsMirrorHistory'
    BY <1>0, <1>1, Untouched DEF server, IInv, Server, TypeOK
  <2> QED BY <1>1, <2>1, ServedKeeps
<1>2. CASE Found(c) /\ Ok(c, None)
  <2>1. PICK s \in Sessions : s = flow[c].id
    BY <1>2 DEF Found
  <2>2. /\ Server' /\ Grows /\ EventsMirrorHistory'
        /\ \E n \in Nat : Prompted(c, s, n)'
    <3> DEFINE m == history[s]
    <3>1. PICK n : Sent(n, m, c)
      BY DEF Sent
    <3>2. history' = [history EXCEPT ![s] = n]
      BY <1>2, <2>1, <3>1 DEF ChatSend, Sent
    <3>3. got' = [v \in Viewer |-> IF v \in subs[s] THEN got'[v] ELSE got[v]]
      BY <1>2, <2>1 DEF ChatSend, Emit
    <3>4. \A v \in Viewer : v \in subs[s] => Told(got'[v], got[v], c)
      BY <1>2, <2>1 DEF ChatSend, Emit, Told
    <3> QED BY <1>0, <3>1, <3>2, <3>3, <3>4, SendKeeps
  <2>3. flow'[c].id = s
    BY <1>2, <2>1, OkStep DEF AnswerState
  <2>4. Suits(c, None)
    BY <1>0, <2>2, <2>3 DEF Suits, AnswerState
  <2> QED BY <1>2, <2>2, <2>4, ServedKeeps
<1> QED BY <1>1, <1>2 DEF ChatSend

LEMMA MessagesKeeps ==
  ASSUME IInv, NEW c \in Client, flow[c].net = "sent", Messages(c),
         UNCHANGED <<shown, joined, orphans>>
  PROVE  IInv'
<1>1. Server' /\ Grows /\ EventsMirrorHistory'
  BY Untouched DEF Messages, IInv, Server, TypeOK
<1>2. CASE Error(c)
  BY <1>1, <1>2, ServedKeeps
<1>3. CASE flow[c].id \in Sessions /\ Ok(c, history[flow[c].id])
  <2>1. PICK s \in Sessions : s = flow[c].id
    BY <1>3
  <2>2. PICK m \in Seq(Message) : m = history[s] /\ Len(m) \in Nat
    BY <2>1, LenProperties DEF IInv, Server, TypeOK, Sessions
  <2>3. Op(c) = "messages" /\ flow[c].kind = "chat" /\ flow[c].step = 3
    BY OpNow DEF Messages
  <2>4. Fits(c, flow[c])
    BY FitsNow
  <2>5. PICK k \in Nat : k \in 1..Len(m) /\ m[k] = Prompt(c)
    BY <2>1, <2>2, <2>3, <2>4 DEF Fits, Asked, Prompted
  <2>6. m # <<>> /\ m[Len(m)].role = "assistant"
    BY <2>1, <2>2, <2>5 DEF IInv, Server, Sessions
  <2>7. k \in 1..Len(m) - 1 /\ k <= Len(m)
    BY <2>2, <2>5, <2>6 DEF Prompt
  <2>8. UNCHANGED <<chatOf, history>>
    BY DEF Messages, server
  <2>9. Prompted(c, s, Len(m) - 1)'
    BY <2>2, <2>5, <2>7, <2>8 DEF Prompted, Prompt
  <2>10. Ok(c, m) /\ m \in AnswerState
    BY <1>3, <2>1, <2>2 DEF AnswerState
  <2>11. flow'[c].id = s
    BY <2>1, <2>10, OkStep
  <2>12. Suits(c, m)
    BY <2>3, <2>6, <2>9, <2>10, <2>11 DEF Suits
  <2> QED BY <1>1, <2>10, <2>12, ServedKeeps
<1> QED BY <1>2, <1>3 DEF Messages, Found

LEMMA UnauthorizedKeeps ==
  ASSUME IInv, NEW c \in Client, flow[c].net = "sent", Unauthorized(c),
         UNCHANGED <<shown, joined, orphans>>
  PROVE  IInv'
<1>1. Server' /\ Grows /\ EventsMirrorHistory' /\ Error(c)
  BY Untouched DEF Unauthorized, IInv, Server, TypeOK
<1> QED BY <1>1, ServedKeeps

LEMMA ServeKeeps ==
  ASSUME IInv, NEW c \in Client, Serve(c)
  PROVE  IInv'
<1>1. flow[c].net = "sent" /\ UNCHANGED <<shown, joined, orphans>>
  BY DEF Serve
<1> QED
  BY <1>1, UnauthorizedKeeps, NewChallengeKeeps, WalletSessionKeeps, ProvisionKeeps, TerminalKeeps,
     ChatNewKeeps, ChatDeleteKeeps, ChatSendKeeps, MessagesKeeps, AbortKeeps
  DEF Serve

-----------------------------------------------------------------------------
(* Streams. *)

LEMMA StreamStepKeeps ==
  ASSUME IInv, Server', Grows, EventsMirrorHistory', UNCHANGED <<flow, shown>>
  PROVE  IInv'
<1>1. ASSUME NEW c \in Client PROVE Fits(c, flow[c])'
  <2>1. Fits(c, flow[c]) /\ flow[c] \in FlowState
    BY DEF IInv
  <2> QED BY <2>1, FitsKept DEF IInv
<1>2. ASSUME NEW c \in Client PROVE FitsShown(c, shown[c])'
  <2>1. FitsShown(c, shown[c])
    BY DEF IInv
  <2> QED BY <2>1, ShownKept DEF IInv
<1> QED BY <1>1, <1>2 DEF IInv

LEMMA WatchKeeps ==
  ASSUME IInv, NEW v \in Viewer, NEW s \in Name, Watch(v, s)
  PROVE  IInv'
<1>0. /\ UNCHANGED <<instances, chatOf, history, terms, challenges, used, flow, shown, orphans>>
      /\ s \in used /\ joined[v].on = None
  BY DEF Watch
<1>1. PICK m \in Seq(Message) : m = history[s]
  BY DEF IInv, Server, TypeOK
<1>2. /\ joined' = [joined EXCEPT ![v] = [on |-> s, from |-> Len(m)]]
      /\ subs' = [subs EXCEPT ![s] = @ \cup {v}]
      /\ got' = [got EXCEPT ![v] = <<>>]
      /\ Len(m) \in Nat
  BY <1>1, LenProperties DEF Watch
<1>3. /\ joined'[v].on = s /\ joined'[v].from = Len(m) /\ got'[v] = <<>>
      /\ \A w \in Viewer \ {v} : joined'[w] = joined[w] /\ got'[w] = got[w]
      /\ joined' \in [Viewer -> [on : used \cup {None}, from : Nat]]
      /\ got' \in [Viewer -> Seq(Event)]
      /\ subs' \in [Name -> SUBSET Viewer]
      /\ \A t \in Name : subs'[t] = IF t = s THEN subs[t] \cup {v} ELSE subs[t]
  <2>1. /\ joined \in [Viewer -> [on : used \cup {None}, from : Nat]]
        /\ got \in [Viewer -> Seq(Event)] /\ subs \in [Name -> SUBSET Viewer]
    BY DEF IInv, Server, TypeOK
  <2>2. [on |-> s, from |-> Len(m)] \in [on : used \cup {None}, from : Nat]
    BY <1>0, <1>2
  <2>3. /\ joined'[v] = [on |-> s, from |-> Len(m)]
        /\ \A w \in Viewer \ {v} : joined'[w] = joined[w] /\ got'[w] = got[w]
        /\ got'[v] = <<>> /\ <<>> \in Seq(Event)
        /\ joined' \in [Viewer -> [on : used \cup {None}, from : Nat]]
    BY <1>2, <2>1, <2>2
  <2>4. got' \in [Viewer -> Seq(Event)]
    BY <1>2, <2>1, <2>3
  <2>5. /\ subs' \in [Name -> SUBSET Viewer]
        /\ \A t \in Name : subs'[t] = IF t = s THEN subs[t] \cup {v} ELSE subs[t]
    BY <1>2, <2>1
  <2> QED BY <2>3, <2>4, <2>5
<1>4. ASSUME NEW w \in Viewer, NEW t \in Name
      PROVE  w \in subs'[t] <=> joined'[w].on = t
  <2>1. (w \in subs[t] <=> joined[w].on = t) /\ None # t
    BY DemoAssumption DEF IInv, Server, TypeOK
  <2> QED BY <1>0, <1>3, <2>1
<1>5. TypeOK'
  BY <1>0, <1>3, <1>4 DEF IInv, Server, TypeOK
<1>6. Sessions' = Sessions
  BY <1>0 DEF Sessions
<1>7. Server'
  BY <1>0, <1>1, <1>2, <1>3, <1>5, <1>6 DEF IInv, Server
<1>8. Grows
  BY <1>0, <1>6, LenProperties DEF IInv, Server, TypeOK, Grows
<1>9. ASSUME NEW w \in Viewer, joined'[w].on \in Sessions
      PROVE  Mirrors(got'[w], history[joined'[w].on], joined'[w].from)
  <2>1. CASE w = v
    BY <1>1, <1>3, <2>1, MirrorsNothing
  <2>2. CASE w # v
    BY <1>3, <1>9, <2>2 DEF IInv, EventsMirrorHistory
  <2> QED BY <2>1, <2>2
<1>10. EventsMirrorHistory'
  BY <1>0, <1>6, <1>9 DEF EventsMirrorHistory
<1> QED BY <1>0, <1>7, <1>8, <1>10, StreamStepKeeps

LEMMA CloseKeeps ==
  ASSUME IInv, NEW v \in Viewer, Close(v)
  PROVE  IInv'
<1>0. UNCHANGED <<instances, chatOf, history, terms, challenges, used, got, flow, shown, orphans>>
  BY DEF Close
<1>1. PICK s \in Name : s = joined[v].on
  BY DEF Close, IInv, Server, TypeOK
<1>2. /\ joined' = [joined EXCEPT ![v] = [on |-> None, from |-> 0]]
      /\ subs' = [subs EXCEPT ![s] = @ \ {v}]
  BY <1>1 DEF Close
<1>3. /\ joined'[v].on = None
      /\ \A w \in Viewer \ {v} : joined'[w] = joined[w]
      /\ joined' \in [Viewer -> [on : used \cup {None}, from : Nat]]
      /\ subs' \in [Name -> SUBSET Viewer]
      /\ \A t \in Name : subs'[t] = IF t = s THEN subs[t] \ {v} ELSE subs[t]
  BY <1>0, <1>2 DEF IInv, Server, TypeOK
<1>4. ASSUME NEW w \in Viewer, NEW t \in Name
      PROVE  w \in subs'[t] <=> joined'[w].on = t
  <2>1. (w \in subs[t] <=> joined[w].on = t) /\ None # t
    BY DemoAssumption DEF IInv, Server, TypeOK
  <2> QED BY <1>1, <1>3, <2>1
<1>5. TypeOK'
  BY <1>0, <1>3, <1>4 DEF IInv, Server, TypeOK
<1>6. Sessions' = Sessions /\ None \notin Sessions
  BY <1>0, DemoAssumption DEF Sessions
<1>7. Server'
  BY <1>0, <1>3, <1>5, <1>6 DEF IInv, Server
<1>8. Grows
  BY <1>0, <1>6, LenProperties DEF IInv, Server, TypeOK, Grows
<1>9. EventsMirrorHistory'
  BY <1>0, <1>3, <1>6 DEF IInv, EventsMirrorHistory
<1> QED BY <1>0, <1>7, <1>8, <1>9, StreamStepKeeps

-----------------------------------------------------------------------------
(* Clients. *)

LEMMA IdleFits == Idle \in FlowState /\ \A c \in Client : Fits(c, Idle)'
  BY DEF Idle, FlowState, Fits

\* The flow r that starts, and the one that the flow f becomes.
Begun(r, k, i, a, n) ==
    \E b \in BOOLEAN :
        r = [Idle EXCEPT !.kind = k, !.net = "sent", !.bearer = b, !.inst = i, !.wallet = a, !.id = n]
Onward(r, f, n) ==
    r = [f EXCEPT !.step = @ + 1, !.net = "sent", !.ans = None, !.id = n]

LEMMA Started ==
  ASSUME NEW k \in Kind, NEW i \in Name, NEW a \in Wallet \cup {None},
         NEW n \in Name \cup {None},
         NEW r, Begun(r, k, i, a, n)
  PROVE  /\ r \in FlowState /\ r.kind = k /\ r.net = "sent" /\ r.step = 1 /\ r.inst = i
         /\ r.wallet = a /\ r.id = n
<1>1. PICK b \in BOOLEAN :
        r = [kind |-> k, step |-> 1, net |-> "sent", bearer |-> b, inst |-> i,
             id |-> n, wallet |-> a, ans |-> None]
  BY DEF Idle, Begun
<1>2. /\ r.kind = k /\ r.net = "sent" /\ r.step = 1 /\ r.inst = i
      /\ r.wallet = a /\ r.id = n
  BY <1>1
<1>3. r \in FlowState
  BY <1>1 DEF FlowState
<1> QED BY <1>2, <1>3

LEMMA Advanced ==
  ASSUME NEW f \in FlowState, f.step + 1 \in 1..3, NEW id \in Name,
         NEW r, Onward(r, f, id)
  PROVE  /\ r \in FlowState /\ r.kind = f.kind /\ r.step = f.step + 1 /\ r.net = "sent"
         /\ r.inst = f.inst /\ r.wallet = f.wallet /\ r.id = id
  BY DEF FlowState, Onward

LEMMA StartKeeps ==
  ASSUME IInv, NEW c \in Client, NEW k \in Kind, NEW b \in BOOLEAN, Start(c, k, b)
  PROVE  IInv'
<1>1. Server' /\ Grows /\ EventsMirrorHistory'
  BY Untouched DEF Start, IInv, Server, TypeOK
<1>2. PICK i \in instances, s \in used, w \in Wallet :
        flow' = [flow EXCEPT ![c] =
            [Idle EXCEPT !.kind = k, !.net = "sent", !.bearer = b,
                         !.inst = i, !.wallet = IF k = "wallet" THEN w ELSE None,
                         !.id = IF k \in {"post", "remove", "abort"} THEN s ELSE None]]
  BY DEF Start
<1>3. i \in Name /\ s \in Name
  BY DEF IInv, Server, TypeOK
<1>4. PICK a \in Wallet \cup {None}, n \in Name \cup {None} :
        /\ a = IF k = "wallet" THEN w ELSE None
        /\ n = IF k \in {"post", "remove", "abort"} THEN s ELSE None
  BY <1>3
<1>5. PICK r : Begun(r, k, i, a, n) /\ flow' = [flow EXCEPT ![c] = r]
  BY <1>2, <1>4 DEF Begun
<1>6. /\ r \in FlowState /\ r.kind = k /\ r.net = "sent" /\ r.step = 1 /\ r.inst = i
      /\ r.wallet = a /\ r.id = n
  <2>1. Begun(r, k, i, a, n)
    BY <1>5
  <2> QED BY ONLY <1>3, <2>1, Started
<1>7. 1 \in 1..Len(Steps[k]) /\ i \in instances' /\ s \in used'
  <2>1. 1 \in 1..Len(Steps[k])
    BY StepCount
  <2> QED BY <1>1, <2>1 DEF Grows
<1>8. /\ flow' \in [Client -> FlowState] /\ flow'[c] = r
      /\ \A d \in Client \ {c} : flow'[d] = flow[d]
  BY <1>5, <1>6 DEF IInv
<1>9. Fits(c, flow[c])'
  BY <1>4, <1>6, <1>7, <1>8 DEF Fits, Owns, Asked
<1>10. shown' = [shown EXCEPT ![c] = shown'[c]] /\ FitsShown(c, shown[c])'
  BY DEF Start, IInv, FitsShown
<1> QED BY <1>1, <1>8, <1>9, <1>10, StepKeeps

LEMMA LoseKeeps ==
  ASSUME IInv, NEW c \in Client, Lose(c)
  PROVE  IInv'
<1>1. /\ flow' = [flow EXCEPT ![c].net = "error"] /\ UNCHANGED <<server, shown, joined>>
      /\ flow[c].net \in {"sent", "ok"}
  BY DEF Lose
<1>2. orphans' \subseteq used
  <2>1. orphans \subseteq used
    BY DEF IInv, Server, TypeOK
  <2>2. flow[c].net = "ok" /\ Op(c) = "create" => flow[c].ans \in used
    BY <1>1, FitsNow DEF Fits
  <2>3. Op(c) = "delete" => flow[c].id \in used
    BY <1>1, FitsNow, OpNow
  <2> QED BY <2>1, <2>2, <2>3 DEF Lose
<1>3. Server' /\ Grows /\ EventsMirrorHistory'
  BY <1>1, <1>2, Untouched
<1>4. Fits(c, flow[c])'
  BY <1>1, <1>3, FailedFits
<1>5. shown' = [shown EXCEPT ![c] = shown'[c]] /\ shown'[c] = shown[c]
  BY <1>1 DEF IInv
<1> QED BY <1>1, <1>3, <1>4, <1>5, ErrorStep, StepKeeps

\* The last message of the assistant ends a history that ends with one.
LEMMA ReplyIsLast ==
  ASSUME NEW m \in Seq(Message), m # <<>>, m[Len(m)].role = "assistant"
  PROVE  Reply(m) = Len(m)
<1> DEFINE of == {k \in 1..Len(m) : m[k].role = "assistant"}
<1>1. Len(m) \in of /\ \A k \in of : k <= Len(m)
  <2>1. Len(m) \in Nat /\ Len(m) # 0
    BY LenProperties, EmptySeq
  <2> QED BY <2>1
<1>2. \A k \in of : (\A j \in of : j <= k) => k = Len(m)
  BY <1>1
<1>3. Reply(m) = CHOOSE k \in of : \A j \in of : j <= k
  BY <1>1 DEF Reply
<1> HIDE DEF of
<1> QED BY <1>1, <1>2, <1>3

\* What a client shows of an answer it has.
LEMMA ShownFits ==
  ASSUME IInv, NEW c \in Client, flow[c].net = "ok", Op(c) \in {"messages", "session"},
         NEW x, x = [of |-> flow[c].id, inst |-> flow[c].inst, wallet |-> flow[c].wallet,
                     ans |-> IF Op(c) = "messages" THEN Reply(flow[c].ans) ELSE flow[c].ans]
  PROVE  FitsShown(c, x)
<1>1. /\ x.of = flow[c].id /\ x.inst = flow[c].inst /\ x.wallet = flow[c].wallet
      /\ x.ans = IF Op(c) = "messages" THEN Reply(flow[c].ans) ELSE flow[c].ans
  OBVIOUS
<1>2. Fits(c, flow[c]) /\ flow[c].id \in used
  BY FitsNow, OpNow
<1>3. CASE Op(c) = "messages"
  <2>1. flow[c].kind = "chat" /\ flow[c].step = 3
    BY <1>3, OpNow
  <2>2. /\ flow[c].wallet = None /\ Reply(flow[c].ans) = Len(flow[c].ans)
        /\ Prompted(c, flow[c].id, Len(flow[c].ans) - 1)
    BY <1>2, <2>1, ReplyIsLast DEF Fits, Asked
  <2> QED BY <1>1, <1>2, <1>3, <2>2 DEF FitsShown
<1>4. CASE Op(c) = "session"
  <2>1. flow[c].kind = "wallet" /\ flow[c].step = 2 /\ Op(c) # "messages"
    BY <1>4, OpNow
  <2>2. /\ flow[c].wallet \in Wallet
        /\ flow[c].ans = [inst |-> flow[c].inst, wallet |-> flow[c].wallet]
    BY <1>2, <2>1 DEF Fits, Owns
  <2> QED BY <1>1, <1>2, <2>1, <2>2, DemoAssumption DEF FitsShown
<1> QED BY <1>3, <1>4

\* The id that a flow goes on with.
IsIdOf(id, c) ==
    id = IF flow[c].net = "ok" /\ Op(c) \in {"create", "chatNew", "challenge"}
         THEN flow[c].ans ELSE flow[c].id

\* The next step of a flow.
LEMMA GoesOnFits ==
  ASSUME IInv, NEW c \in Client, flow[c].net \in {"ok", "error"}, GoesOn(c),
         NEW id, IsIdOf(id, c), NEW r, Onward(r, flow[c], id)
  PROVE  r \in FlowState /\ Fits(c, r)
<1>1. PICK f \in FlowState : f = flow[c] /\ Fits(c, f)
  BY FitsNow
<1>2. /\ f.kind \in Kind /\ f.step \in 1..Len(Steps[f.kind]) /\ f.inst \in instances
      /\ f.step # Len(Steps[f.kind])
      /\ f.net \in {"ok", "error"} /\ (f.net = "ok" \/ Op(c) = "execute")
  BY <1>1, FitsNow DEF GoesOn, Last
<1>3. /\ f.step + 1 \in 1..Len(Steps[f.kind]) /\ f.step + 1 \in 1..3
      /\ f.step \in {1, 2} /\ f.kind \in {"terminal", "chat", "wallet"}
      /\ f.step = 2 => f.kind # "wallet"
  <2>1. PICK k \in Kind : k = f.kind
    BY <1>2
  <2>2. PICK i \in 1..Len(Steps[k]) : i = f.step
    BY <1>2, <2>1
  <2>3. i # Len(Steps[k])
    BY <1>2, <2>1, <2>2
  <2>4. /\ i + 1 \in 1..Len(Steps[k]) /\ i + 1 \in 1..3 /\ i \in {1, 2}
        /\ k \in {"terminal", "chat", "wallet"} /\ (i = 2 => k # "wallet")
    <3>1. CASE k \in {"chat", "terminal"}
      <4>1. Len(Steps[k]) = 3
        BY <3>1, StepCount
      <4> QED BY <2>3, <3>1, <4>1
    <3>2. CASE k = "wallet"
      <4>1. Len(Steps[k]) = 2
        BY <3>2, StepCount
      <4> QED BY <2>3, <3>2, <4>1
    <3>3. CASE k \notin {"chat", "wallet", "terminal"}
      <4>1. Len(Steps[k]) = 1
        BY <3>3, StepCount
      <4> QED BY <2>3, <4>1
    <3> QED BY <3>1, <3>2, <3>3
  <2> QED BY <2>1, <2>2, <2>4
<1>4. /\ f.step = 1 => f.net = "ok" /\ Op(c) \in {"create", "chatNew", "challenge"}
      /\ f.step = 2 => Op(c) \notin {"create", "chatNew", "challenge"}
      /\ f.step = 2 /\ f.kind = "chat" => f.net = "ok"
  BY <1>1, <1>2, <1>3, OpNow
<1>5. id \in used /\ id \in Name
  <2>1. f.step = 1 => id = f.ans /\ f.ans \in used
    BY <1>1, <1>4, FitsNow DEF Fits, IsIdOf
  <2>2. f.step = 2 => id = f.id /\ f.id \in used
    BY <1>1, <1>2, <1>4 DEF Fits, IsIdOf
  <2> QED BY <1>3, <2>1, <2>2 DEF IInv, Server, TypeOK
<1>6. /\ r \in FlowState /\ r.kind = f.kind /\ r.step = f.step + 1 /\ r.net = "sent"
      /\ r.inst = f.inst /\ r.wallet = f.wallet /\ r.id = id
  <2>1. Onward(r, f, id)
    BY <1>1
  <2>2. f.step + 1 \in 1..3 /\ id \in Name
    BY <1>3, <1>5
  <2> QED BY <2>1, <2>2, Advanced
<1>7. Owns(r)
  BY <1>1, <1>2, <1>3, <1>4, <1>6 DEF Fits, Owns, IsIdOf
<1>8. Asked(c, r)
  BY <1>1, <1>2, <1>3, <1>4, <1>6 DEF Fits, Asked, IsIdOf
<1> QED BY <1>1, <1>2, <1>3, <1>5, <1>6, <1>7, <1>8 DEF Fits

LEMMA ReceiveKeeps ==
  ASSUME IInv, NEW c \in Client, Receive(c)
  PROVE  IInv'
<1>1. Server' /\ Grows /\ EventsMirrorHistory'
  BY Untouched DEF Receive, IInv, Server, TypeOK
<1>2. flow[c].net \in {"ok", "error"}
  BY DEF Receive
<1>3. PICK id : IsIdOf(id, c)
  BY DEF IsIdOf
<1>4. PICK r : IF GoesOn(c) THEN Onward(r, flow[c], id) ELSE r = Idle
  BY DEF Onward
<1>5. flow' = [flow EXCEPT ![c] = r]
  BY <1>3, <1>4 DEF Receive, Onward, IsIdOf
<1>6. r \in FlowState /\ Fits(c, r)'
  <2>1. CASE GoesOn(c)
    <3>1. r \in FlowState /\ Fits(c, r)
      BY <1>2, <1>3, <1>4, <2>1, GoesOnFits
    <3> QED BY <1>1, <3>1, FitsKept DEF IInv
  <2>2. CASE ~GoesOn(c)
    BY <1>4, <2>2, IdleFits
  <2> QED BY <2>1, <2>2
<1>7. /\ flow' \in [Client -> FlowState] /\ flow'[c] = r
      /\ \A d \in Client \ {c} : flow'[d] = flow[d]
  BY <1>5, <1>6 DEF IInv
<1>8. Fits(c, flow[c])'
  BY <1>6, <1>7
<1>9. shown' = [shown EXCEPT ![c] = shown'[c]]
      /\ (FitsShown(c, shown[c])' \/ shown'[c] = shown[c])
  <2>1. CASE flow[c].net = "ok" /\ Op(c) \in {"messages", "session"}
    <3>1. PICK x : x = [of |-> flow[c].id, inst |-> flow[c].inst, wallet |-> flow[c].wallet,
                        ans |-> IF Op(c) = "messages" THEN Reply(flow[c].ans) ELSE flow[c].ans]
      OBVIOUS
    <3>2. shown' = [shown EXCEPT ![c] = x] /\ shown'[c] = x
      BY <2>1, <3>1 DEF Receive, IInv
    <3>3. FitsShown(c, x)
      BY <2>1, <3>1, ShownFits
    <3>4. FitsShown(c, x)'
      BY <1>1, <3>3, ShownKept DEF IInv
    <3> QED BY <3>2, <3>4
  <2>2. CASE ~(flow[c].net = "ok" /\ Op(c) \in {"messages", "session"})
    BY <2>2 DEF Receive, IInv
  <2> QED BY <2>1, <2>2
<1> QED BY <1>1, <1>7, <1>8, <1>9, StepKeeps

-----------------------------------------------------------------------------

LEMMA InitIInv == Init => IInv
<1> SUFFICES ASSUME Init PROVE IInv
  OBVIOUS
<1>1. TypeOK
  BY DemoAssumption DEF Init, TypeOK
<1>2. Server
  BY <1>1, DemoAssumption DEF Init, Server, Sessions
<1>3. flow \in [Client -> FlowState] /\ \A c \in Client : Fits(c, flow[c])
  BY DEF Init, Idle, FlowState, Fits
<1>4. shown = [c \in Client |-> shown[c]] /\ \A c \in Client : FitsShown(c, shown[c])
  BY DEF Init, FitsShown
<1>5. EventsMirrorHistory
  BY DemoAssumption DEF Init, EventsMirrorHistory, Sessions
<1> QED BY <1>2, <1>3, <1>4, <1>5 DEF IInv

LEMMA NextIInv == IInv /\ [Next]_vars => IInv'
<1> SUFFICES ASSUME IInv, [Next]_vars PROVE IInv'
  OBVIOUS
<1>1. CASE UNCHANGED vars
  <2>1. UNCHANGED <<server, flow, shown, joined, orphans>>
    BY <1>1 DEF vars
  <2>2. Server' /\ Grows /\ EventsMirrorHistory'
    BY <2>1, Untouched DEF IInv, Server, TypeOK
  <2> QED BY <2>1, <2>2, StreamStepKeeps
<1> QED
  BY <1>1, StartKeeps, ServeKeeps, ReceiveKeeps, LoseKeeps, CloseKeeps, WatchKeeps DEF Next

LEMMA IInvAlways == Spec => []IInv
  BY InitIInv, NextIInv, PTL DEF Spec

-----------------------------------------------------------------------------
(* Terminals.  What TerminalsAreClosed needs of every step: a terminal is  *)
(* never without a client that will close it.  A step of one client leaves *)
(* what the others hold.                                                   *)

\* The client c will still ask for the terminal n to be deleted.
Holds(c, n) ==
    /\ flow[c].kind = "terminal" /\ flow[c].bearer
    /\ \/ flow[c].step = 1 /\ flow[c].net = "ok" /\ flow[c].ans = n
       \/ flow[c].step = 2 /\ flow[c].net # "none" /\ flow[c].id = n
       \/ flow[c].step = 3 /\ flow[c].net = "sent" /\ flow[c].id = n

\* A terminal is there only as long as a flow is under way that will close it,
\* whatever failed, unless the request to close it, or the answer that named it,
\* got lost (the finally of runTerminalCommand).
TerminalsAreHeld == \A n \in terms \ orphans : \E c \in Client : Holds(c, n)

LEMMA HeldKept ==
  ASSUME TerminalsAreHeld, NEW c \in Client,
         \A d \in Client \ {c} : flow'[d] = flow[d],
         \A n \in terms' \ orphans' :
            Holds(c, n)' \/ (n \in terms \ orphans /\ ~Holds(c, n))
  PROVE  TerminalsAreHeld'
<1> SUFFICES ASSUME NEW n \in terms' \ orphans', ~Holds(c, n)'
             PROVE  \E d \in Client : Holds(d, n)'
  BY DEF TerminalsAreHeld
<1>1. PICK d \in Client : Holds(d, n) /\ d # c
  BY DEF TerminalsAreHeld
<1> QED BY <1>1 DEF Holds

LEMMA HeldWhileServed ==
  ASSUME IInv, TerminalsAreHeld, NEW c \in Client, Serve(c)
  PROVE  TerminalsAreHeld'
<1>0. flow[c].net = "sent" /\ UNCHANGED orphans
  BY DEF Serve
<1>1. CASE Unauthorized(c)
  <2>1. UNCHANGED terms /\ ~flow[c].bearer
    BY <1>1 DEF Unauthorized, server
  <2>2. \A d \in Client \ {c} : flow'[d] = flow[d]
    BY <1>1, ErrorStep DEF Unauthorized, Error
  <2> QED BY <1>0, <2>1, <2>2, HeldKept DEF Holds
<1>2. ASSUME flow[c].kind # "terminal", UNCHANGED terms,
             \A d \in Client \ {c} : flow'[d] = flow[d]
      PROVE  TerminalsAreHeld'
  BY <1>0, <1>2, HeldKept DEF Holds
<1>3. CASE NewChallenge(c)
  <2>1. Op(c) = "challenge" /\ UNCHANGED terms /\ \E n \in Name : Ok(c, n)
    BY <1>3 DEF NewChallenge
  <2> QED BY <1>0, <1>2, <2>1, OpNow, OkStep DEF AnswerState
<1>4. CASE WalletSession(c)
  <2>1. Op(c) = "session" /\ UNCHANGED terms /\ flow[c].id \in Name
    <3>1. Op(c) = "session" /\ UNCHANGED terms
      BY <1>4 DEF WalletSession, server
    <3>2. flow[c].step = 2
      BY <1>0, <3>1, OpNow
    <3> QED BY <1>0, <3>1, <3>2, FitsNow DEF IInv, Server, TypeOK
  <2>2. Error(c) \/ \E a \in AnswerState : Ok(c, a)
    BY <1>4, <2>1 DEF WalletSession, AnswerState, IInv, Server, TypeOK
  <2> QED BY <1>0, <1>2, <2>1, <2>2, OpNow, OkStep, ErrorStep DEF Error
<1>5. CASE Provision(c)
  <2>1. Op(c) = "provision" /\ UNCHANGED terms /\ (Error(c) \/ \E n \in Name : Ok(c, n))
    BY <1>5 DEF Provision
  <2> QED BY <1>0, <1>2, <2>1, OpNow, OkStep, ErrorStep, FitsNow, StepTable DEF AnswerState, Error
<1>6. CASE ChatNew(c)
  <2>1. Op(c) = "chatNew" /\ UNCHANGED terms /\ \E n \in Name : Ok(c, n)
    BY <1>6 DEF ChatNew
  <2> QED BY <1>0, <1>2, <2>1, OpNow, OkStep DEF AnswerState
<1>7. CASE ChatDelete(c) \/ ChatSend(c) \/ Abort(c)
  <2>1. /\ Op(c) \in {"chatDelete", "chatSend", "abort"} /\ UNCHANGED terms
        /\ Error(c) \/ Ok(c, None)
    BY <1>7 DEF ChatDelete, ChatSend, Abort
  <2> QED BY <1>0, <1>2, <2>1, OpNow, OkStep, ErrorStep DEF AnswerState, Error
<1>8. CASE Messages(c)
  <2>1. Op(c) = "messages" /\ UNCHANGED terms
    BY <1>8 DEF Messages, server
  <2>2. Error(c) \/ \E a \in AnswerState : Ok(c, a)
    BY <1>8 DEF Messages, Found, AnswerState, IInv, Server, TypeOK, Sessions
  <2> QED BY <1>0, <1>2, <2>1, <2>2, OpNow, OkStep, ErrorStep DEF Error
<1>9. CASE Terminal(c) /\ flow[c].bearer
  <2>1. ASSUME Op(c) = "create", NEW n \in Name, terms' = terms \cup {n}, Ok(c, n)
        PROVE  TerminalsAreHeld'
    <3>1. /\ flow[c].kind = "terminal" /\ flow[c].step = 1
          /\ flow'[c].kind = "terminal" /\ flow'[c].step = 1
          /\ flow'[c].net = "ok" /\ flow'[c].ans = n
          /\ \A d \in Client \ {c} : flow'[d] = flow[d]
      BY <1>0, <2>1, OpNow, OkStep DEF AnswerState
    <3>2. flow'[c].bearer
      BY <1>9, <2>1 DEF Ok, IInv, FlowState
    <3>3. Holds(c, n)' /\ \A m \in Name : ~Holds(c, m)
      BY <1>0, <3>1, <3>2 DEF Holds
    <3>4. \A m \in terms' \ orphans' : m = n \/ (m \in terms \ orphans /\ m \in Name)
      BY <1>0, <2>1 DEF IInv, Server, TypeOK
    <3> QED BY <3>1, <3>3, <3>4, HeldKept
  <2>2. ASSUME Op(c) = "execute", UNCHANGED terms, Ok(c, None)
        PROVE  TerminalsAreHeld'
    <3>1. /\ flow[c].kind = "terminal" /\ flow[c].step = 2
          /\ flow'[c].kind = "terminal" /\ flow'[c].step = 2
          /\ flow'[c].net = "ok" /\ flow'[c].id = flow[c].id
          /\ \A d \in Client \ {c} : flow'[d] = flow[d]
      BY <1>0, <2>2, OpNow, OkStep DEF AnswerState
    <3>2. flow'[c].bearer
      BY <1>9, <2>2 DEF Ok, IInv, FlowState
    <3>3. \A n : Holds(c, n) => Holds(c, n)'
      BY <3>1, <3>2 DEF Holds
    <3> QED BY <1>0, <2>2, <3>1, <3>3, HeldKept
  <2>3. ASSUME Op(c) = "delete", terms' = terms \ {flow[c].id}, Ok(c, None)
        PROVE  TerminalsAreHeld'
    <3>1. /\ flow[c].step = 3
          /\ \A d \in Client \ {c} : flow'[d] = flow[d]
      BY <1>0, <2>3, OpNow, OkStep DEF AnswerState
    <3>2. \A n : Holds(c, n) => n = flow[c].id
      BY <3>1 DEF Holds
    <3> QED BY <1>0, <2>3, <3>1, <3>2, HeldKept
  <2> QED BY <1>9, <2>1, <2>2, <2>3 DEF Terminal
<1>10. CASE Terminal(c) /\ ~flow[c].bearer
  <2>1. Op(c) \notin {"challenge", "session"}
    BY <1>10 DEF Terminal
  <2> QED BY <1>1, <1>10, <2>1 DEF Serve
<1> QED
  BY <1>1, <1>3, <1>4, <1>5, <1>6, <1>7, <1>8, <1>9, <1>10 DEF Serve

LEMMA HeldWhenReceived ==
  ASSUME IInv, TerminalsAreHeld, NEW c \in Client, Receive(c)
  PROVE  TerminalsAreHeld'
<1>1. flow[c].net \in {"ok", "error"} /\ UNCHANGED <<terms, orphans>>
  BY DEF Receive, server
<1>2. PICK id : IsIdOf(id, c)
  BY DEF IsIdOf
<1>3. PICK r : IF GoesOn(c) THEN Onward(r, flow[c], id) ELSE r = Idle
  BY DEF Onward
<1>4. flow' = [flow EXCEPT ![c] = r]
  BY <1>2, <1>3 DEF Receive, Onward, IsIdOf
<1>5. flow'[c] = r /\ \A d \in Client \ {c} : flow'[d] = flow[d]
  BY <1>4 DEF IInv
<1>6. ASSUME NEW n, Holds(c, n) PROVE Holds(c, n)'
  <2>1. PICK f \in FlowState : f = flow[c]
    BY <1>1, FitsNow
  <2>2. /\ f.kind = "terminal" /\ f.bearer
        /\ (f.step = 1 /\ f.net = "ok" /\ f.ans = n) \/ (f.step = 2 /\ f.id = n)
    BY <1>1, <1>6, <2>1 DEF Holds
  <2>3. GoesOn(c)
    <3>1. ~Last(c)
      BY <2>1, <2>2 DEF Last, Steps
    <3>2. f.step = 2 => Op(c) = "execute"
      BY <1>1, <2>1, <2>2, OpNow
    <3> QED BY <2>1, <2>2, <3>1, <3>2 DEF GoesOn
  <2>4. id = n
    BY <1>1, <1>2, <2>1, <2>2, OpNow DEF IsIdOf
  <2>5. Onward(r, f, n)
    BY <1>3, <2>1, <2>3, <2>4
  <2>6. /\ r.kind = "terminal" /\ r.bearer /\ r.step = f.step + 1
        /\ r.net = "sent" /\ r.id = n
    BY <2>2, <2>5 DEF Onward, FlowState
  <2> QED BY <1>5, <2>2, <2>6 DEF Holds
<1> QED BY <1>1, <1>5, <1>6, HeldKept

LEMMA HeldWhenLost ==
  ASSUME IInv, TerminalsAreHeld, NEW c \in Client, Lose(c)
  PROVE  TerminalsAreHeld'
<1>1. /\ flow' = [flow EXCEPT ![c].net = "error"] /\ UNCHANGED terms
      /\ flow[c].net \in {"sent", "ok"} /\ orphans \subseteq orphans'
      /\ flow[c].net = "ok" /\ Op(c) = "create" => flow[c].ans \in orphans'
      /\ flow[c].net = "sent" /\ Op(c) = "delete" => flow[c].id \in orphans'
  BY DEF Lose, server
<1>2. /\ flow'[c].kind = flow[c].kind /\ flow'[c].step = flow[c].step
      /\ flow'[c].id = flow[c].id /\ flow'[c].net = "error"
      /\ \A d \in Client \ {c} : flow'[d] = flow[d]
  BY <1>1, ErrorStep
<1>3. flow'[c].bearer = flow[c].bearer
  BY <1>1 DEF IInv, FlowState
<1>4. ASSUME NEW n \in terms' \ orphans', Holds(c, n) PROVE Holds(c, n)'
  <2>1. flow[c].step = 1 => Op(c) = "create"
    BY <1>1, <1>4, OpNow DEF Holds
  <2>2. flow[c].step = 3 => Op(c) = "delete"
    BY <1>1, <1>4, OpNow DEF Holds
  <2>3. flow[c].step = 2 /\ flow[c].id = n
    BY <1>1, <1>4, <2>1, <2>2 DEF Holds
  <2> QED BY <1>2, <1>3, <1>4, <2>3 DEF Holds
<1> QED BY <1>1, <1>2, <1>4, HeldKept

LEMMA HeldAlways == Spec => []TerminalsAreHeld
<1>1. Init => TerminalsAreHeld
  BY DEF Init, TerminalsAreHeld
<1>2. IInv /\ TerminalsAreHeld /\ [Next]_vars => TerminalsAreHeld'
  <2> SUFFICES ASSUME IInv, TerminalsAreHeld, [Next]_vars PROVE TerminalsAreHeld'
    OBVIOUS
  <2>1. ASSUME UNCHANGED <<flow, terms, orphans>> PROVE TerminalsAreHeld'
    BY <2>1 DEF TerminalsAreHeld, Holds
  <2>2. ASSUME NEW c \in Client, NEW k \in Kind, NEW b \in BOOLEAN, Start(c, k, b)
        PROVE  TerminalsAreHeld'
    <3>1. /\ UNCHANGED <<terms, orphans>> /\ flow[c].kind = None
          /\ \A d \in Client \ {c} : flow'[d] = flow[d]
      BY <2>2 DEF Start, server, IInv
    <3>2. \A n : ~Holds(c, n)
      <4>1. flow[c].net = "none"
        BY <3>1, DemoAssumption DEF IInv, Fits, FlowState
      <4> QED BY <3>1, <4>1, DemoAssumption, Kinds DEF Holds
    <3> QED BY <3>1, <3>2, HeldKept
  <2>3. CASE UNCHANGED vars
    BY <2>1, <2>3 DEF vars, server
  <2>4. ASSUME NEW v \in Viewer, Close(v) \/ \E s \in Name : Watch(v, s)
        PROVE  TerminalsAreHeld'
    BY <2>1, <2>4 DEF Close, Watch
  <2> QED
    BY <2>2, <2>3, <2>4, HeldWhileServed, HeldWhenReceived, HeldWhenLost DEF Next
<1> QED BY <1>1, <1>2, IInvAlways, PTL DEF Spec

-----------------------------------------------------------------------------
\* The state keeps its type: instances, sessions, terminals and challenges have
\* ids that were given, a session that is gone has no messages, and a stream is
\* among the subscribers of what it listens to and of nothing else.
THEOREM DemoTypeOK == Spec => []TypeOK
<1>1. IInv => TypeOK
  BY DEF IInv, Server
<1> QED BY IInvAlways, <1>1, PTL

\* Whoever else writes to the session, the reply that the quick chat shows comes
\* after its own prompt (onQuickChat, POST .../messages).
THEOREM RepliesFollowPrompts == Spec => []ReplyAfterPrompt
<1>1. IInv => ReplyAfterPrompt
  BY DEF IInv, FitsShown, Prompted, Prompt, ReplyAfterPrompt
<1> QED BY IInvAlways, <1>1, PTL

\* For any number of streams and writers: a stream has delivered the answers of its
\* session since it was opened, each once and in their order (emitSessionEvent).
THEOREM StreamsMirrorHistory == Spec => []EventsMirrorHistory
<1>1. IInv => EventsMirrorHistory
  BY DEF IInv
<1> QED BY IInvAlways, <1>1, PTL

\* A wallet's session is for the instance and the wallet of its own challenge,
\* however many ask at the same time (state.challenges).
THEOREM SessionsMatchChallenges == Spec => []SessionAsChallenged
<1>1. IInv => SessionAsChallenged
  BY DEF IInv, FitsShown, SessionAsChallenged
<1> QED BY IInvAlways, <1>1, PTL

\* Whatever fails and whoever else uses the server: a terminal is there only as
\* long as the flow that will close it, unless the request to close it, or the
\* answer that named it, got lost (the finally of runTerminalCommand).
THEOREM TerminalsHeld == Spec => []TerminalsAreHeld
  BY HeldAlways

=============================================================================
