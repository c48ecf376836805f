-------------------------- MODULE TerminalSessions --------------------------
(***************************************************************************)
(* The terminal routes of operator_api.rs.  Like chats, terminals live in  *)
(* the memory of one node, in LiveSessionStore (external).  A handler that *)
(* runs a command takes a clone of the terminal's sender before it starts  *)
(* the command, and sends the output through the clone, piece by piece.    *)
(*                                                                         *)
(* That the instance must be running when a terminal is created is a       *)
(* condition on a record that changes under its own rules; here it may     *)
(* hold or not at any time.                                                *)
(***************************************************************************)
EXTENDS SessionGate, Broadcast

CONSTANTS
    Request,        \* requests that run a command, each once
    Banner,         \* the line that greets in a new terminal
    NoTerminal      \* the map has no such terminal

Terminal == [scope : Id, owner : Owner]

Part == {"stdout", "stderr", "exit"}

ASSUME TerminalAssumption ==
    /\ NoTerminal \notin Terminal
    /\ Banner \notin [of : Request, part : Part]
    /\ Event = [of : Request, part : Part] \cup {Banner}

VARIABLES
    term,    \* the map of terminals
    born,    \* ids that were given out
    known,   \* ids that were returned to a client
    run      \* requests

vars == <<token, stream, term, born, known, run>>

\* stdout and stderr are sent only if they are not empty.
Outputs == {<<"exit">>, <<"stdout", "exit">>, <<"stderr", "exit">>,
            <<"stdout", "stderr", "exit">>}

RunState ==
    [pc : {"exec", "send", "done", "failed"},
     on : Session, output : Outputs \cup {<<>>}, todo : Seq(Part)]

NotBegun == [pc |-> "new"]
NewRun(r) == run[r] = NotBegun

TypeOK ==
    /\ GateTypeOK
    /\ StreamTypeOK
    /\ term \in [Session -> Terminal \cup {NoTerminal}]
    /\ known \in SUBSET born /\ born \in SUBSET Session
    /\ run \in [Request -> RunState \cup {NotBegun}]

Init ==
    /\ GateInit
    /\ StreamInit
    /\ term = [s \in Session |-> NoTerminal]
    /\ born = {} /\ known = {}
    /\ run = [r \in Request |-> NotBegun]

Begun(s) == [pc |-> "exec", on |-> s, output |-> <<>>, todo |-> <<>>]

-----------------------------------------------------------------------------
(* create, execute *)

\* Mutant: instance id and owner, both strings, change places.
NewTerminalSwapped(k, i, s) ==
    /\ LoadScoped(k, i) /\ s \notin born
    /\ born' = born \cup {s}
    /\ term' = [term EXCEPT ![s] = [scope |-> OwnerOf[i], owner |-> i]]
    /\ Send(s, <<Banner>>)
    /\ UNCHANGED token

\* The terminal is inserted, and the banner is sent, to nobody.
NewTerminal(k, i, s) ==
    /\ LoadScoped(k, i)
    /\ s \notin born
    /\ born' = born \cup {s}
    /\ term' = [term EXCEPT ![s] = [scope |-> i, owner |-> OwnerOf[i]]]
    /\ Send(s, <<Banner>>)
    /\ UNCHANGED token

CreateTerminal(k, i, s) ==
    NewTerminal(k, i, s) /\ known' = known \cup {s} /\ UNCHANGED run

\* With a first command: the client learns the id when the handler returns,
\* after the command.
CreateAndRun(r, k, i, s) ==
    /\ NewTerminal(k, i, s)
    /\ NewRun(r)
    /\ run' = [run EXCEPT ![r] = Begun(s)]
    /\ UNCHANGED known

ExecuteCommand(r, k, i, s) ==
    /\ LoadScoped(k, i)
    /\ NewRun(r)
    /\ s \in known
    /\ term[s] # NoTerminal /\ Matches(term[s], i, OwnerOf[i])
    /\ run' = [run EXCEPT ![r] = Begun(s)]
    /\ UNCHANGED <<token, stream, term, born, known>>

\* run_instance_command: a command that cannot be run at all is an error.  A
\* terminal whose first command failed stays in the map, known to nobody.
RunCommand(r) ==
    /\ run[r].pc = "exec"
    /\ \/ \E out \in Outputs :
            run' = [run EXCEPT ![r].pc = "send", ![r].output = out, ![r].todo = out]
       \/ run' = [run EXCEPT ![r].pc = "failed"]
    /\ UNCHANGED <<token, stream, term, born, known>>

\* The handler has sent its next piece; after the last one it returns, and
\* the id of its terminal is known to the client (if it was not already).
Sending(r) ==
    LET rest == Tail(run[r].todo) IN
    /\ run' = [run EXCEPT ![r].todo = rest,
                          ![r].pc = IF rest = <<>> THEN "done" ELSE "send"]
    /\ known' = IF rest = <<>> THEN known \cup {run[r].on} ELSE known

\* Mutant: the exit line, being the smallest, is sent first.
PublishExitFirst(r) ==
    LET todo == run[r].todo IN
    /\ run[r].pc = "send"
    /\ run' = [run EXCEPT ![r].todo = SubSeq(todo, 1, Len(todo) - 1),
                          ![r].pc = IF Len(todo) = 1 THEN "done" ELSE "send"]
    /\ known' = IF Len(todo) = 1 THEN known \cup {run[r].on} ELSE known
    /\ Send(run[r].on, <<[of |-> r, part |-> todo[Len(todo)]]>>)
    /\ UNCHANGED <<token, term, born>>

\* Mutant: the session is looked up again instead of keeping its sender.
PublishIfListed(r) ==
    /\ run[r].pc = "send"
    /\ Sending(r)
    /\ IF term[run[r].on] = NoTerminal THEN UNCHANGED stream
       ELSE Send(run[r].on, <<[of |-> r, part |-> Head(run[r].todo)]>>)
    /\ UNCHANGED <<token, term, born>>

\* publish_terminal_output, one send at a time: two commands in one terminal
\* may mix their output.
Publish(r) ==
    /\ run[r].pc = "send"
    /\ Sending(r)
    /\ Send(run[r].on, <<[of |-> r, part |-> Head(run[r].todo)]>>)
    /\ UNCHANGED <<token, term, born>>

-----------------------------------------------------------------------------
(* close, stream *)

\* As with chats, the terminal is removed before the caller is compared with
\* it; a mismatch is answered with an error.
CloseTerminal(k, i, s) ==
    /\ LoadScoped(k, i)
    /\ s \in known
    /\ term[s] # NoTerminal
    /\ term' = [term EXCEPT ![s] = NoTerminal]
    /\ UNCHANGED <<token, stream, born, known, run>>

OpenStream(x, k, i, s) ==
    /\ LoadScoped(k, i)
    /\ s \in known
    /\ term[s] # NoTerminal /\ Matches(term[s], i, OwnerOf[i])
    /\ Subscribe(x, s)
    /\ UNCHANGED <<token, term, born, known, run>>

ReadStream(x) == Deliver(x) /\ UNCHANGED <<token, term, born, known, run>>

InFlight(r) == run[r].pc \in {"exec", "send"}

\* Mutant: a clone of the sender outlives the handler that took it.
NoSenderEver(s) ==
    term[s] = NoTerminal /\ \A r \in Request : ~NewRun(r) => run[r].on # s

\* The terminal was closed, and no handler holds its sender.
NoSender(s) ==
    /\ term[s] = NoTerminal
    /\ \A r \in Request : InFlight(r) => run[r].on # s

EndStream(x) ==
    /\ Open(x) /\ NoSender(stream[x].on)
    /\ stream[x].queue = <<>>
    /\ Disconnect(x)
    /\ UNCHANGED <<token, term, born, known, run>>

-----------------------------------------------------------------------------
(* The environment *)

LeaveStream(x) == Disconnect(x) /\ UNCHANGED <<token, term, born, known, run>>

Auth ==
    /\ \E k \in Token : Expire(k) \/ \E i \in Id : Login(k, i)
    /\ UNCHANGED <<stream, term, born, known, run>>

\* All of it is in memory only.
Restart ==
    /\ token' = [k \in Token |-> NoClaims]
    /\ DisconnectAll
    /\ term' = [s \in Session |-> NoTerminal]
    /\ run' = [r \in Request |->
        IF InFlight(r) THEN [run[r] EXCEPT !.pc = "failed"] ELSE run[r]]
    /\ UNCHANGED <<born, known>>

Requests(k, i, s) ==
    \/ CreateTerminal(k, i, s) \/ CloseTerminal(k, i, s)
    \/ \E r \in Request : CreateAndRun(r, k, i, s) \/ ExecuteCommand(r, k, i, s)
    \/ \E x \in Stream : OpenStream(x, k, i, s)

Streams(x) == ReadStream(x) \/ EndStream(x)

Next ==
    \/ \E k \in Token, i \in Id, s \in Session : Requests(k, i, s)
    \/ \E r \in Request : RunCommand(r) \/ Publish(r)
    \/ \E x \in Stream : Streams(x) \/ LeaveStream(x)
    \/ Auth
    \/ Restart

Spec == Init /\ [][Next]_vars

\* A command may run for ever.  Once it has ended, the runtime carries the
\* handler on, and the server writes to every client that reads.
FairSpec ==
    /\ Spec
    /\ \A r \in Request : WF_vars(Publish(r))
    /\ \A x \in Stream : WF_vars(Streams(x))

-----------------------------------------------------------------------------
(* What the routes promise *)

Piece(r, part) == [of |-> r, part |-> part]
Pieces(r) == {Piece(r, part) : part \in Part}

\* What the handler of r has sent of the command's output.
SentBy(r) ==
    [n \in 1 .. Len(run[r].output) - Len(run[r].todo) |-> Piece(r, run[r].output[n])]

\* A stream shows of each command in its terminal what was sent since it was
\* opened: in order, nothing twice, nothing missing up to what is still to be
\* sent, and so the exit line last, however the pieces of several commands mix
\* and whether or not the terminal is closed meanwhile; after a lag, so does
\* its queue.  It shows nothing of other terminals, and no banner.
OutputInOrder ==
    \A x \in Stream : Open(x) =>
        /\ \A n \in DOMAIN Sent(x) :
            Sent(x)[n] # Banner /\ run[Sent(x)[n].of].on = stream[x].on
        /\ \A r \in Request : ~NewRun(r) =>
            StreamShowsLatest(stream[x], Pieces(r), SentBy(r))

\* The exit line of a command that has ended reaches every stream connected to
\* its terminal, even if the terminal is closed while the output is sent,
\* unless the stream goes or falls behind.
EveryExitIsShown ==
    \A r \in Request, x \in Stream, s \in Session :
        (run[r].pc = "send" /\ run[r].on = s /\ stream[x].on = s)
            ~> \/ \E n \in DOMAIN stream[x].got :
                    stream[x].got[n] = Piece(r, "exit")
               \/ stream[x].on # s
               \/ stream[x].lagged

\* The streams of a closed terminal end once its commands have.
StreamsOfClosedTerminalsEnd ==
    \A x \in Stream, s \in Session :
        (/\ stream[x].on = s /\ term[s] = NoTerminal
         /\ \A r \in Request : run[r].pc = "exec" => run[r].on # s)
            ~> stream[x].on # s

=============================================================================
