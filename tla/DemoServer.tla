----------------------------- MODULE DemoServer -----------------------------
(***************************************************************************)
(* The server behind the UI in demo mode (scripts/dev/ui-demo-server.js)   *)
(* and the flows of the UI's API client that take several requests         *)
(* (ui/src/lib/api.ts, and the handlers of App.tsx that call it).          *)
(*                                                                         *)
(* The server is one thread.  Its handlers await the body of the request   *)
(* before they read or write the state, so each is one step, at any moment *)
(* between request and answer.  A request or its answer may be lost.       *)
(* Titles, texts and the fields of an instance are left out, and so are    *)
(* the requests that only read, except for the messages of a session.      *)
(***************************************************************************)
EXTENDS Naturals, Sequences, FiniteSets

CONSTANTS
    Name,       \* ids: of instances, chat sessions, terminals and challenges
    Instance0,  \* the instance the server starts with
    Session0,   \* its chat session
    Client,     \* flows under way at the same time
    Viewer,     \* event streams
    Wallet,
    None,
    MaxStarts,  \* bound on flows and streams started
    MaxLost     \* bound on requests and answers lost

\* Steps of each kind of flow: runTerminalCommand, onQuickChat,
\* ensureScopedSession, and single requests.
Steps == [terminal |-> <<"create", "execute", "delete">>,
          chat |-> <<"chatNew", "chatSend", "messages">>,
          wallet |-> <<"challenge", "session">>,
          provision |-> <<"provision">>, post |-> <<"chatSend">>,
          remove |-> <<"chatDelete">>, abort |-> <<"abort">>]

Kind == DOMAIN Steps

ASSUME DemoAssumption ==
    /\ Instance0 \in Name /\ Session0 \in Name /\ Instance0 # Session0
    /\ None \notin Name \cup Wallet \cup Client \cup Kind
    /\ MaxStarts \in Nat /\ MaxLost \in Nat

VARIABLES
    instances,  \* state.instances
    chatOf,     \* state.chatByInstance: the instance of each session there is
    history,    \* messages of each session
    subs,       \* state.sseBySession
    terms,      \* state.terminals
    challenges, \* state.challenges
    used,       \* ids given out
    flow,       \* the flow of each client, with its request
    shown,      \* what each client showed last
    got,        \* events each stream delivered
    joined,     \* what each stream listens to, and since which message
    orphans,    \* terminals whose creation or removal got lost
    starts, lost

server == <<instances, chatOf, history, subs, terms, challenges, used, got>>
vars == <<server, flow, shown, joined, orphans, starts, lost>>

\* net: the request is under way, was answered, or failed.
Idle == [kind |-> None, step |-> 1, net |-> "none", bearer |-> TRUE, inst |-> None,
         id |-> None, wallet |-> None, ans |-> None]

Message == [role : {"user", "assistant"}, of : Client]
Event == [type : {"updated", "part", "idle", "output"}, of : Client]
Challenge == [inst : Name, wallet : Wallet]

TypeOK ==
    /\ instances \subseteq used /\ terms \subseteq used /\ orphans \subseteq used
    /\ used \subseteq Name
    /\ chatOf \in [Name -> instances \cup {None}]
    /\ history \in [Name -> Seq(Message)]
    /\ subs \in [Name -> SUBSET Viewer]
    /\ challenges \in [Name -> Challenge \cup {None}]
    /\ got \in [Viewer -> Seq(Event)]
    /\ \A s \in Name : history[s] # <<>> => chatOf[s] # None
    /\ \A v \in Viewer : \A s \in Name : v \in subs[s] <=> joined[v].on = s

Init ==
    /\ instances = {Instance0}
    /\ chatOf = [s \in Name |-> IF s = Session0 THEN Instance0 ELSE None]
    /\ history = [s \in Name |-> <<>>]
    /\ subs = [s \in Name |-> {}]
    /\ terms = {}
    /\ challenges = [n \in Name |-> None]
    /\ used = {Instance0, Session0}
    /\ flow = [c \in Client |-> Idle]
    /\ shown = [c \in Client |-> None]
    /\ got = [v \in Viewer |-> <<>>]
    /\ joined = [v \in Viewer |-> [on |-> None, from |-> 0]]
    /\ orphans = {}
    /\ starts = 0 /\ lost = 0

Op(c) == Steps[flow[c].kind][flow[c].step]
Sessions == {s \in Name : chatOf[s] # None}

-----------------------------------------------------------------------------
(* Handlers; each is given the client whose request it answers *)

Ok(c, a) == flow' = [flow EXCEPT ![c].net = "ok", ![c].ans = a]
Error(c) == flow' = [flow EXCEPT ![c].net = "error"]

\* randomUUID
Fresh(n) == n \in Name \ used /\ used' = used \cup {n}

\* Mutant: every stream gets the events of every session.
EmitToAll(s, events) == got' = [v \in Viewer |-> got[v] \o events]

\* emitSessionEvent
Emit(s, events) ==
    got' = [v \in Viewer |-> IF v \in subs[s] THEN got[v] \o events ELSE got[v]]

\* requireAuth; any token will do.
Unauthorized(c) ==
    /\ ~flow[c].bearer /\ Op(c) \notin {"challenge", "session"}
    /\ Error(c)
    /\ UNCHANGED server

\* Mutant: an instance has one challenge.
NewChallengePerInstance(c) ==
    /\ Op(c) = "challenge"
    /\ \E n \in Name :
          /\ Fresh(n)
          /\ challenges' = [m \in Name |->
                 IF m = n \/ (challenges[m] # None /\ challenges[m].inst = flow[c].inst)
                 THEN [inst |-> flow[c].inst, wallet |-> flow[c].wallet] ELSE challenges[m]]
          /\ Ok(c, n)
    /\ UNCHANGED <<instances, chatOf, history, subs, terms, got>>

\* POST /auth/challenge
NewChallenge(c) ==
    /\ Op(c) = "challenge"
    /\ \E n \in Name :
          /\ Fresh(n)
          /\ challenges' = [challenges EXCEPT ![n] = [inst |-> flow[c].inst, wallet |-> flow[c].wallet]]
          /\ Ok(c, n)
    /\ UNCHANGED <<instances, chatOf, history, subs, terms, got>>

\* POST /auth/session/wallet; a challenge is never used up.
WalletSession(c) ==
    /\ Op(c) = "session"
    /\ IF challenges[flow[c].id] = None THEN Error(c) ELSE Ok(c, challenges[flow[c].id])
    /\ UNCHANGED server

\* POST /instances/dev/provision
Provision(c) ==
    /\ Op(c) = "provision"
    /\ \/ \E n, s \in Name \ used :
            /\ n # s
            /\ used' = used \cup {n, s}
            /\ instances' = instances \cup {n}
            /\ chatOf' = [chatOf EXCEPT ![s] = n]
            /\ Ok(c, n)
       \* A field is missing.
       \/ Error(c) /\ UNCHANGED <<instances, chatOf, used>>
    /\ UNCHANGED <<history, subs, terms, challenges, got>>

\* POST and DELETE .../terminals, POST .../execute; nobody looks the terminal up.
Terminal(c) ==
    /\ \/ /\ Op(c) = "create"
          /\ \E n \in Name : Fresh(n) /\ terms' = terms \cup {n} /\ Ok(c, n)
          /\ UNCHANGED got
       \/ /\ Op(c) = "execute"
          /\ Emit(flow[c].id, <<[type |-> "output", of |-> c]>>)
          /\ Ok(c, None)
          /\ UNCHANGED <<terms, used>>
       \/ /\ Op(c) = "delete"
          /\ terms' = terms \ {flow[c].id}
          /\ Ok(c, None)
          /\ UNCHANGED <<used, got>>
    /\ UNCHANGED <<instances, chatOf, history, subs, challenges>>

\* The session that the request names, among those of the instance that its
\* path names (getChats).
Found(c) == flow[c].id \in Sessions /\ chatOf[flow[c].id] = flow[c].inst

\* POST .../session/sessions
ChatNew(c) ==
    /\ Op(c) = "chatNew"
    /\ \E n \in Name : Fresh(n) /\ chatOf' = [chatOf EXCEPT ![n] = flow[c].inst] /\ Ok(c, n)
    /\ UNCHANGED <<instances, history, subs, terms, challenges, got>>

\* DELETE .../session/sessions/:id; its streams stay.
ChatDelete(c) ==
    /\ Op(c) = "chatDelete"
    /\ IF Found(c)
       THEN /\ chatOf' = [chatOf EXCEPT ![flow[c].id] = None]
            /\ history' = [history EXCEPT ![flow[c].id] = <<>>]
            /\ Ok(c, None)
       ELSE Error(c) /\ UNCHANGED <<chatOf, history>>
    /\ UNCHANGED <<instances, subs, terms, challenges, used, got>>

\* POST .../messages: the answer of the assistant is there before the response.
ChatSend(c) ==
    /\ Op(c) = "chatSend"
    /\ IF Found(c)
       THEN /\ history' = [history EXCEPT ![flow[c].id] =
                    @ \o <<[role |-> "user", of |-> c], [role |-> "assistant", of |-> c]>>]
            /\ Emit(flow[c].id, <<[type |-> "updated", of |-> c], [type |-> "part", of |-> c],
                                  [type |-> "idle", of |-> c]>>)
            /\ Ok(c, None)
       ELSE Error(c) /\ UNCHANGED <<history, got>>
    /\ UNCHANGED <<instances, chatOf, subs, terms, challenges, used>>

\* GET .../messages
Messages(c) ==
    /\ Op(c) = "messages"
    /\ IF Found(c) THEN Ok(c, history[flow[c].id]) ELSE Error(c)
    /\ UNCHANGED server

\* POST .../abort, of a session that may be gone.
Abort(c) ==
    /\ Op(c) = "abort"
    /\ Emit(flow[c].id, <<[type |-> "idle", of |-> c]>>)
    /\ Ok(c, None)
    /\ UNCHANGED <<instances, chatOf, history, subs, terms, challenges, used>>

Serve(c) ==
    /\ flow[c].net = "sent"
    /\ \/ Unauthorized(c)
       \/ /\ flow[c].bearer \/ Op(c) \in {"challenge", "session"}
          /\ \/ NewChallenge(c) \/ WalletSession(c) \/ Provision(c) \/ Terminal(c)
             \/ ChatNew(c) \/ ChatDelete(c) \/ ChatSend(c) \/ Messages(c) \/ Abort(c)
    /\ UNCHANGED <<shown, joined, orphans, starts, lost>>

\* GET .../events and .../stream, and the end of the connection.
Watch(v, s) ==
    /\ joined[v].on = None /\ starts < MaxStarts
    /\ s \in used
    /\ subs' = [subs EXCEPT ![s] = @ \cup {v}]
    /\ joined' = [joined EXCEPT ![v] = [on |-> s, from |-> Len(history[s])]]
    /\ got' = [got EXCEPT ![v] = <<>>]
    /\ starts' = starts + 1
    /\ UNCHANGED <<instances, chatOf, history, terms, challenges, used, flow, shown, orphans, lost>>

\* Mutant: the stream stays among the subscribers.
CloseHalf(v) ==
    /\ joined[v].on # None
    /\ joined' = [joined EXCEPT ![v] = [on |-> None, from |-> 0]]
    /\ UNCHANGED <<server, flow, shown, orphans, starts, lost>>

Close(v) ==
    /\ joined[v].on # None
    /\ subs' = [subs EXCEPT ![joined[v].on] = @ \ {v}]
    /\ joined' = [joined EXCEPT ![v] = [on |-> None, from |-> 0]]
    /\ UNCHANGED <<instances, chatOf, history, terms, challenges, used, got, flow, shown,
                   orphans, starts, lost>>

-----------------------------------------------------------------------------
(* Clients *)

Start(c, k, b) ==
    /\ flow[c].kind = None /\ starts < MaxStarts
    /\ starts' = starts + 1
    /\ \E i \in instances, s \in used, w \in Wallet :
          flow' = [flow EXCEPT ![c] =
              [Idle EXCEPT !.kind = k, !.net = "sent", !.bearer = b,
                           !.inst = i, !.wallet = IF k = "wallet" THEN w ELSE None,
                           !.id = IF k \in {"post", "remove", "abort"} THEN s ELSE None]]
    /\ shown' = [shown EXCEPT ![c] = None]
    /\ UNCHANGED <<server, joined, orphans, lost>>

\* Mutant: what the name says.
ReplyFirst(messages) ==
    LET of == {k \in 1..Len(messages) : messages[k].role = "assistant"}
    IN  IF of = {} THEN 0 ELSE CHOOSE k \in of : \A j \in of : j >= k

\* firstAssistantReply: the last message of the assistant.
Reply(messages) ==
    LET of == {k \in 1..Len(messages) : messages[k].role = "assistant"}
    IN  IF of = {} THEN 0 ELSE CHOOSE k \in of : \A j \in of : j <= k

Last(c) == flow[c].step = Len(Steps[flow[c].kind])

\* Mutant: without the finally of runTerminalCommand.
GoesOnIfOk(c) == ~Last(c) /\ flow[c].net = "ok"

\* An error ends the flow, but a terminal that was created is deleted all the
\* same.
GoesOn(c) == ~Last(c) /\ (flow[c].net = "ok" \/ Op(c) = "execute")

Receive(c) ==
    /\ flow[c].net \in {"ok", "error"}
    /\ LET f == flow[c]
           new == f.net = "ok" /\ Op(c) \in {"create", "chatNew", "challenge"}
       IN  /\ flow' = [flow EXCEPT ![c] =
                  IF GoesOn(c) THEN [f EXCEPT !.step = @ + 1, !.net = "sent", !.ans = None,
                                       !.id = IF new THEN f.ans ELSE f.id]
                  ELSE Idle]
           /\ shown' = IF f.net = "ok" /\ Op(c) \in {"messages", "session"}
                       THEN [shown EXCEPT ![c] =
                           [of |-> f.id, inst |-> f.inst, wallet |-> f.wallet,
                            ans |-> IF Op(c) = "messages" THEN Reply(f.ans) ELSE f.ans]]
                       ELSE shown
    /\ UNCHANGED <<server, joined, orphans, starts, lost>>

\* A request that does not reach the server, or an answer that does not
\* reach the client.
Lose(c) ==
    /\ flow[c].net \in {"sent", "ok"} /\ lost < MaxLost
    /\ lost' = lost + 1
    /\ flow' = [flow EXCEPT ![c].net = "error"]
    /\ orphans' = CASE flow[c].net = "ok" /\ Op(c) = "create" -> orphans \cup {flow[c].ans}
                    [] flow[c].net = "sent" /\ Op(c) = "delete" -> orphans \cup {flow[c].id}
                    [] OTHER -> orphans
    /\ UNCHANGED <<server, shown, joined, starts>>

Next ==
    \/ \E c \in Client :
          \/ \E k \in Kind, b \in BOOLEAN : Start(c, k, b)
          \/ Serve(c) \/ Receive(c) \/ Lose(c)
    \/ \E v \in Viewer : Close(v) \/ \E s \in Name : Watch(v, s)

Spec == Init /\ [][Next]_vars

\* The server answers, and clients read what they are sent.
FairSpec == Spec /\ \A c \in Client : WF_vars(Serve(c)) /\ WF_vars(Receive(c))

-----------------------------------------------------------------------------

\* The reply that the quick chat shows comes after its own prompt, whoever
\* else writes to the session (onQuickChat, POST .../messages).
ReplyAfterPrompt ==
    \A c \in Client :
        shown[c] # None /\ shown[c].wallet = None /\ shown[c].of \in Sessions =>
            \E k \in 1..shown[c].ans - 1 : history[shown[c].of][k] = [role |-> "user", of |-> c]

\* The answers that messages has after the first from, and the events that
\* brought one, by their positions.
Answers(messages, from) == {k \in from + 1..Len(messages) : messages[k].role = "assistant"}
Parts(events) == {k \in 1..Len(events) : events[k].type = "part"}

\* The events bring these answers, each once and in their order, and no others.
Mirrors(events, messages, from) ==
    \E event \in [Answers(messages, from) -> Parts(events)] :
        /\ \A p \in Parts(events) : \E k \in Answers(messages, from) : event[k] = p
        /\ \A j, k \in Answers(messages, from) : j < k => event[j] < event[k]
        /\ \A k \in Answers(messages, from) : events[event[k]].of = messages[k].of

\* A stream has delivered the answers of its session since it was opened, each
\* once and in the order of the history (emitSessionEvent).
EventsMirrorHistory ==
    \A v \in Viewer : joined[v].on \in Sessions =>
        Mirrors(got[v], history[joined[v].on], joined[v].from)

\* The session that a wallet gets is for the instance and the wallet that its
\* own challenge named, however many ask at the same time (state.challenges).
SessionAsChallenged ==
    \A c \in Client : shown[c] # None /\ shown[c].wallet # None =>
        shown[c].ans = [inst |-> shown[c].inst, wallet |-> shown[c].wallet]

\* Every terminal of the command box is closed again, also when the command
\* fails, unless the request to close it, or the answer that named it, got lost
\* (runTerminalCommand).
TerminalsAreClosed ==
    \A n \in Name : n \in terms ~> n \notin terms \/ n \in orphans

=============================================================================
