---------------------------- MODULE ChatPromises ----------------------------
(***************************************************************************)
(* What the chat routes promise to the owner of an instance.               *)
(***************************************************************************)
EXTENDS ChatSessions

CONSTANTS NotYet, Gone   \* a session's log before and after its life

ASSUME PromisesAssumption ==
    /\ NotYet \notin Seq(Request) /\ Gone \notin Seq(Request)
    /\ NotYet # Gone

Live(s) == chat[s] # NoChat

\* The requests that a history of exchanges answers, in its order.
Answers(m) == [n \in 1 .. Len(m) \div 2 |-> m[2 * n].of]

Answered(s) == Answers(chat[s].messages)

Paired(m) ==
    /\ Len(m) % 2 = 0
    /\ \A n \in 1 .. Len(m) \div 2 : \E r \in Request :
        m[2 * n - 1] = Exchange(r)[1] /\ m[2 * n] = Exchange(r)[2]

\* The history is a list of exchanges: every user message is directly
\* followed by its own answer, and no request is answered twice, whatever
\* sends overlap, fail, or outlive the session (update_chat appends both
\* messages at once, after the command).
HistoryIsPaired ==
    /\ \A s \in Session : Live(s) => Paired(chat[s].messages)
    /\ \A s, t \in Session : Live(s) /\ Live(t) =>
        \A n \in DOMAIN Answered(s), l \in DOMAIN Answered(t) :
            Answered(s)[n] = Answered(t)[l] => s = t /\ n = l

Replies == {ReplyEvent(r) : r \in Request}

\* What a stream that was there all the time has been told of such a history.
Told(answers) == [n \in DOMAIN answers |-> ReplyEvent(answers[n])]

\* A connected stream shows the latest part of the history: the answers it
\* was sent end with the newest one, in the history's order, with none
\* missing and none twice; after a lag, so does its queue.  (The events are
\* sent inside update_chat, in the order in which the messages are appended.)
StreamsFollowHistory ==
    \A x \in Stream : Open(x) /\ Live(stream[x].on) =>
        StreamShowsLatest(stream[x], Replies, Told(Answered(stream[x].on)))

\* Whatever was written into a session came from a request that passed the
\* check for the session's own instance and owner, although the session is
\* looked up only after the command has run (send_session_message).
MessagesFromOwner ==
    \A s \in Session : Live(s) =>
        \A n \in DOMAIN chat[s].messages :
            LET r == chat[s].messages[n].of IN
            chat[s].scope = req[r].id /\ chat[s].owner = req[r].owner

\* Once the command of a request has ended, its answer reaches every stream
\* connected to the session, unless the stream goes or falls behind, or the
\* request fails because the session is gone or is not the caller's.
EveryAnswerIsShown ==
    \A r \in Request, x \in Stream, s \in Session :
        (req[r].pc = "update" /\ req[r].chat = s /\ stream[x].on = s)
            ~> \/ \E n \in DOMAIN stream[x].got : stream[x].got[n] = ReplyEvent(r)
               \/ req[r].pc = "failed"
               \/ stream[x].on # s
               \/ stream[x].lagged

\* A session is a log of answers that only grows: renaming, other sessions
\* and overlapping sends leave it alone; once deleted or lost in a restart it
\* stays so, and a send that is still under way cannot bring it back.
Log == INSTANCE ChatLog WITH
    log <- [s \in Session |->
        IF Live(s) THEN Answered(s) ELSE IF s \in born THEN Gone ELSE NotYet]

ImplementsChatLog == Log!Spec

=============================================================================
