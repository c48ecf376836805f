----------------------------- MODULE Broadcast -----------------------------
(***************************************************************************)
(* The event channel of a session and the server-sent event streams that   *)
(* read it, as operator_api.rs uses them: a broadcast channel delivers     *)
(* each event to the streams subscribed at that moment; a stream that      *)
(* falls more than Capacity events behind loses the oldest.  External.     *)
(***************************************************************************)
EXTENDS Naturals, Sequences

CONSTANTS
    Stream,      \* clients' event streams
    Session,     \* session ids (uuids)
    NoSession,   \* the stream is not connected
    Event,       \* what is sent
    Capacity     \* of the channel: 128 for chats, 256 for terminals

ASSUME BroadcastAssumption ==
    /\ NoSession \notin Session
    /\ Capacity \in Nat \ {0}

VARIABLE stream

Fresh(s) == [on |-> s, queue |-> <<>>, got |-> <<>>, lagged |-> FALSE]
Closed == Fresh(NoSession)

StreamState ==
    [on : Session \cup {NoSession},
     queue : Seq(Event),   \* sent, not yet read
     got : Seq(Event),     \* read since the stream was opened
     lagged : BOOLEAN]     \* some event was lost

StreamTypeOK ==
    /\ stream \in [Stream -> StreamState]
    /\ \A x \in Stream : Len(stream[x].queue) <= Capacity

StreamInit == stream = [x \in Stream |-> Closed]

Open(x) == stream[x].on # NoSession

\* All that stream x has been sent and has not lost.
Sent(x) == stream[x].got \o stream[x].queue

Push(x, events) ==
    LET all == stream[x].queue \o events
        over == IF Len(all) > Capacity THEN Len(all) - Capacity ELSE 0
    IN  [stream[x] EXCEPT !.queue = SubSeq(all, over + 1, Len(all)),
                          !.lagged = @ \/ over > 0]

Send(s, events) ==
    stream' = [x \in Stream |->
        IF stream[x].on = s THEN Push(x, events) ELSE stream[x]]

Subscribe(x, s) ==
    /\ ~Open(x)
    /\ stream' = [stream EXCEPT ![x] = Fresh(s)]

\* The next event goes out to the client.
Deliver(x) ==
    /\ stream[x].queue # <<>>
    /\ stream' = [stream EXCEPT ![x].queue = Tail(@),
                                ![x].got = Append(@, Head(stream[x].queue))]

\* The client has gone, or the channel has no sender left and all was read.
Disconnect(x) ==
    /\ Open(x)
    /\ stream' = [stream EXCEPT ![x] = Closed]

DisconnectAll == stream' = [x \in Stream |-> Closed]

-----------------------------------------------------------------------------
(* What a stream may be expected to show *)

\* Those of the events shown that belong to the set mine are the latest part of
\* the list all: each is on it, in the list's order, none twice, and once one
\* is shown, none that follows it on the list is missing.  (No event is twice
\* on the list.)
ShowsLatest(shown, mine, all) ==
    /\ \A n \in DOMAIN shown :
        shown[n] \in mine => \E l \in DOMAIN all : shown[n] = all[l]
    /\ \A n, q \in DOMAIN shown, l, k \in DOMAIN all :
        shown[n] = all[l] /\ shown[q] = all[k] => (n < q <=> l < k)
    /\ \A n \in DOMAIN shown, l, k \in DOMAIN all :
        shown[n] = all[l] /\ l < k => \E q \in DOMAIN shown : shown[q] = all[k]

\* The same of a stream's state.  One that has lost an event has a gap, but
\* what is still queued for it is again the latest part.
StreamShowsLatest(state, mine, all) ==
    /\ ShowsLatest(state.queue, mine, all)
    /\ ~state.lagged => ShowsLatest(state.got \o state.queue, mine, all)

=============================================================================
