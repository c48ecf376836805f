----------------------- MODULE TerminalSessionsProofs -----------------------
(***************************************************************************)
(* Proofs about TerminalSessions: the state keeps its type, and every      *)
(* stream shows the output of its terminal's commands in order.            *)
(***************************************************************************)
EXTENDS TerminalSessions, BroadcastProofs

\* A stream is opened, and a command begun, on an id that was given out.
GivenOut ==
    /\ \A x \in Stream : Open(x) => stream[x].on \in born
    /\ \A r \in Request : ~NewRun(r) => run[r].on \in born

\* What a handler still has to send is the rest of the output; it begins to
\* send when there is an output, and stops when nothing is left.
RunSound(x) ==
    /\ x.pc = "exec" => x.output = <<>>
    /\ x.pc = "send" => x.todo # <<>>
    /\ Len(x.todo) <= Len(x.output)
    /\ \A n \in 1 .. Len(x.todo) :
        x.todo[n] = x.output[Len(x.output) - Len(x.todo) + n]

RunsSound == \A r \in Request : ~NewRun(r) => RunSound(run[r])

\* The pieces of the commands that were begun in terminal s.
EventsOf(s) == {e \in Event : \E r \in Request, part \in Part :
                    e = Piece(r, part) /\ ~NewRun(r) /\ run[r].on = s}

NoCrosstalk == \A x \in Stream : Open(x) => Holds(stream[x], EventsOf(stream[x].on))

Shown ==
    \A x \in Stream, r \in Request : Open(x) /\ ~NewRun(r) =>
        StreamShowsLatest(stream[x], Pieces(r), SentBy(r))

IInv ==
    /\ TypeOK
    /\ GivenOut
    /\ RunsSound
    /\ NoCrosstalk
    /\ Shown

LEMMA EventTypes ==
  /\ \A r \in Request, part \in Part : Piece(r, part) \in Event /\ Piece(r, part) # Banner
  /\ Banner \in Event
  /\ \A r, u \in Request, p, q \in Part : Piece(r, p) = Piece(u, q) => r = u /\ p = q
  BY TerminalAssumption DEF Piece

LEMMA PieceOf ==
  ASSUME NEW r \in Request, NEW part \in Part
  PROVE  Piece(r, part).of = r /\ Piece(r, part) \in Pieces(r)
  BY DEF Piece, Pieces

\* No output has a part twice.
LEMMA OutputTypes ==
  ASSUME NEW out \in Outputs \cup {<<>>}
  PROVE  /\ out \in Seq(Part)
         /\ \A n, l \in DOMAIN out : out[n] = out[l] => n = l
<1>1. CASE out = <<>>
  BY <1>1
<1>2. CASE out = <<"exit">>
  BY <1>2 DEF Part
<1>3. CASE out = <<"stdout", "exit">>
  BY <1>3 DEF Part
<1>4. CASE out = <<"stderr", "exit">>
  BY <1>4 DEF Part
<1>5. CASE out = <<"stdout", "stderr", "exit">>
  BY <1>5 DEF Part
<1> QED BY <1>1, <1>2, <1>3, <1>4, <1>5 DEF Outputs

\* What was sent of an output, as a list of events.
SentOf(r, out, k) == [n \in 1 .. k |-> Piece(r, out[n])]

LEMMA SentType ==
  ASSUME NEW r \in Request, NEW out \in Seq(Part), NEW k \in 0 .. Len(out)
  PROVE  /\ SentOf(r, out, k) \in Seq(Event)
         /\ Len(SentOf(r, out, k)) = k
         /\ DOMAIN SentOf(r, out, k) = 1 .. k
         /\ \A n \in 1 .. k : /\ SentOf(r, out, k)[n] = Piece(r, out[n])
                              /\ SentOf(r, out, k)[n] \in Pieces(r)
<1>1. \A n \in 1 .. k : out[n] \in Part
  BY LenProperties, ElementOfSeq
<1>2. /\ DOMAIN SentOf(r, out, k) = 1 .. k
      /\ \A n \in 1 .. k : /\ SentOf(r, out, k)[n] = Piece(r, out[n])
                           /\ SentOf(r, out, k)[n] \in Pieces(r)
                           /\ SentOf(r, out, k)[n] \in Event
  BY <1>1, EventTypes, PieceOf DEF SentOf
<1>3. SentOf(r, out, k) \in [1 .. k -> Event]
  BY <1>2 DEF SentOf
<1>4. SentOf(r, out, k) \in Seq(Event)
  BY <1>3, SeqDef
<1> QED BY <1>2, <1>4, LenProperties

LEMMA SentMore ==
  ASSUME NEW r \in Request, NEW out \in Seq(Part), NEW k \in 0 .. Len(out), k < Len(out)
  PROVE  SentOf(r, out, k + 1) = Append(SentOf(r, out, k), Piece(r, out[k + 1]))
<1> DEFINE more == SentOf(r, out, k + 1)
           last == Append(SentOf(r, out, k), Piece(r, out[k + 1]))
<1>1. k \in Nat /\ k + 1 \in 0 .. Len(out) /\ Len(out) \in Nat
  OBVIOUS
<1>2. /\ more \in Seq(Event) /\ Len(more) = k + 1
      /\ \A n \in 1 .. k + 1 : more[n] = Piece(r, out[n])
  BY <1>1, SentType
<1>3. /\ SentOf(r, out, k) \in Seq(Event) /\ Len(SentOf(r, out, k)) = k
      /\ \A n \in 1 .. k : SentOf(r, out, k)[n] = Piece(r, out[n])
  BY SentType
<1>4. Piece(r, out[k + 1]) \in Event
  BY <1>1, EventTypes, ElementOfSeq
<1>5. /\ last \in Seq(Event) /\ Len(last) = k + 1
      /\ \A n \in 1 .. k : last[n] = SentOf(r, out, k)[n]
      /\ last[k + 1] = Piece(r, out[k + 1])
  BY <1>3, <1>4, AppendProperties
<1> HIDE DEF more, last
<1>6. \A n \in 1 .. k + 1 : more[n] = last[n]
  BY <1>1, <1>2, <1>3, <1>5
<1>7. more = last
  BY <1>2, <1>5, <1>6, SeqEqual
<1> QED BY <1>7 DEF more, last

\* What the state of a command says of its output.
LEMMA RunFacts ==
  ASSUME TypeOK, RunsSound, NEW r \in Request, ~NewRun(r)
  PROVE  /\ run[r] \in RunState
         /\ run[r].output \in Outputs \cup {<<>>}
         /\ run[r].output \in Seq(Part) /\ Len(run[r].output) \in Nat
         /\ run[r].todo \in Seq(Part) /\ Len(run[r].todo) \in Nat
         /\ Len(run[r].output) - Len(run[r].todo) \in 0 .. Len(run[r].output)
         /\ SentBy(r) = SentOf(r, run[r].output, Len(run[r].output) - Len(run[r].todo))
         /\ SentBy(r) \in Seq(Event)
         /\ \A n \in DOMAIN SentBy(r) : SentBy(r)[n] \in Pieces(r)
<1>1. run[r] \in RunState
  BY DEF TypeOK, NewRun
<1>2. /\ run[r].output \in Outputs \cup {<<>>}
      /\ run[r].output \in Seq(Part) /\ Len(run[r].output) \in Nat
      /\ run[r].todo \in Seq(Part) /\ Len(run[r].todo) \in Nat
  <2>1. run[r].output \in Outputs \cup {<<>>} /\ run[r].todo \in Seq(Part)
    BY <1>1 DEF RunState
  <2>2. run[r].output \in Seq(Part)
    BY <2>1, OutputTypes
  <2> QED BY <2>1, <2>2, LenProperties
<1>3. Len(run[r].output) - Len(run[r].todo) \in 0 .. Len(run[r].output)
  <2>1. Len(run[r].todo) <= Len(run[r].output)
    BY DEF RunsSound, RunSound
  <2>2. \A a, b \in Nat : b <= a => a - b \in 0 .. a
    OBVIOUS
  <2> QED BY <1>2, <2>1, <2>2
<1>4. SentBy(r) = SentOf(r, run[r].output, Len(run[r].output) - Len(run[r].todo))
  BY DEF SentBy, SentOf
<1>5. /\ SentBy(r) \in Seq(Event)
      /\ \A n \in DOMAIN SentBy(r) : SentBy(r)[n] \in Pieces(r)
  <2> DEFINE out == run[r].output
             k == Len(out) - Len(run[r].todo)
  <2>1. out \in Seq(Part) /\ k \in 0 .. Len(out) /\ SentBy(r) = SentOf(r, out, k)
    BY <1>2, <1>3, <1>4
  <2> HIDE DEF out, k
  <2> QED BY <2>1, SentType
<1> QED BY <1>1, <1>2, <1>3, <1>4, <1>5

LEMMA InitIInv == Init => IInv
<1> SUFFICES ASSUME Init PROVE IInv
  OBVIOUS
<1>1. StreamTypeOK /\ \A x \in Stream : ~Open(x)
  BY FreshType, BroadcastAssumption
     DEF Init, StreamInit, StreamTypeOK, Closed, Open, Fresh
<1>2. TypeOK
  BY <1>1 DEF Init, TypeOK, GateInit, GateTypeOK
<1>3. \A r \in Request : NewRun(r)
  BY DEF Init, NewRun
<1> QED BY <1>1, <1>2, <1>3 DEF IInv, GivenOut, RunsSound, NoCrosstalk, Shown

-----------------------------------------------------------------------------
(* The steps that send nothing                                               *)

RunsKept ==
    \A r \in Request :
        /\ NewRun(r)' => NewRun(r)
        /\ ~NewRun(r)' =>
            \/ NewRun(r) /\ run'[r].on \in born' /\ SentBy(r)' = <<>>
            \/ ~NewRun(r) /\ run'[r].on = run[r].on /\ SentBy(r)' = SentBy(r)

StreamsKept ==
    \A x \in Stream : Open(x)' =>
        \/ \E s \in born : stream'[x] = Fresh(s)
        \/ /\ Open(x) /\ stream'[x].on = stream[x].on
           /\ stream'[x] = stream[x] \/ Deliver(x)

Kept ==
    /\ TypeOK'
    /\ RunsSound'
    /\ born \subseteq born'
    /\ RunsKept
    /\ StreamsKept

LEMMA PiecesOfOthers ==
  ASSUME NEW s, NEW e \in EventsOf(s), NEW r \in Request,
         NewRun(r) \/ run[r].on # s
  PROVE  e \notin Pieces(r)
  BY EventTypes DEF EventsOf, Pieces

LEMMA KeptIInv ==
  ASSUME IInv, Kept
  PROVE  IInv'
<1> USE DEF IInv, Kept
<1>1. GivenOut'
  <2>1. ASSUME NEW x \in Stream, Open(x)'
        PROVE  stream'[x].on \in born'
    <3>1. \A s : Fresh(s).on = s
      BY DEF Fresh
    <3>2. CASE \E s \in born : stream'[x] = Fresh(s)
      BY <3>1, <3>2
    <3>3. CASE Open(x) /\ stream'[x].on = stream[x].on
      BY <3>3 DEF GivenOut
    <3> QED BY <2>1, <3>2, <3>3 DEF StreamsKept
  <2>2. \A r \in Request : ~NewRun(r)' => run'[r].on \in born'
    BY DEF RunsKept, GivenOut
  <2> QED BY <2>1, <2>2 DEF GivenOut
<1>2. ASSUME NEW s
      PROVE  EventsOf(s) \subseteq EventsOf(s)'
  BY DEF EventsOf, RunsKept
<1>3. ASSUME NEW x \in Stream, Open(x)', ~(\E s \in born : stream'[x] = Fresh(s))
      PROVE  /\ Open(x) /\ stream'[x].on = stream[x].on
             /\ Holds(stream'[x], EventsOf(stream[x].on))
             /\ \A mine : \A list \in Seq(Event) :
                    StreamShowsLatest(stream[x], mine, list) =>
                        StreamShowsLatest(stream'[x], mine, list)
  <2>1. /\ Open(x) /\ stream'[x].on = stream[x].on
        /\ stream'[x] = stream[x] \/ Deliver(x)
    BY <1>3 DEF StreamsKept
  <2>2. Holds(stream[x], EventsOf(stream[x].on))
    BY <2>1 DEF NoCrosstalk
  <2> QED BY <2>1, <2>2, DeliverHolds, DeliverShows DEF TypeOK
<1>4. NoCrosstalk'
  <2> SUFFICES ASSUME NEW x \in Stream, Open(x)'
               PROVE  Holds(stream[x], EventsOf(stream[x].on))'
    BY DEF NoCrosstalk
  <2>1. CASE \E s \in born : stream'[x] = Fresh(s)
    BY <2>1, FreshHolds
  <2>2. CASE ~(\E s \in born : stream'[x] = Fresh(s))
    <3>1. /\ stream'[x].on = stream[x].on
          /\ Holds(stream'[x], EventsOf(stream[x].on))
      BY <1>3, <2>2
    <3>2. EventsOf(stream[x].on) \subseteq EventsOf(stream[x].on)'
      <4>1. EventsOf(stream[x].on)' = {e \in Event : \E r \in Request, part \in Part :
                    e = Piece(r, part) /\ ~NewRun(r)' /\ run'[r].on = stream[x].on}
        BY <3>1 DEF EventsOf
      <4> QED BY <4>1 DEF EventsOf, RunsKept
    <3> QED BY <3>1, <3>2, HoldsMore
  <2> QED BY <2>1, <2>2
<1>5. Shown'
  <2> SUFFICES ASSUME NEW x \in Stream, NEW r \in Request, Open(x)', ~NewRun(r)'
               PROVE  StreamShowsLatest(stream[x], Pieces(r), SentBy(r))'
    BY DEF Shown
  <2>1. CASE \E s \in born : stream'[x] = Fresh(s)
    BY <2>1, FreshShows
  <2>2. CASE /\ ~(\E s \in born : stream'[x] = Fresh(s))
             /\ NewRun(r) /\ SentBy(r)' = <<>>
    <3>1. Holds(stream'[x], EventsOf(stream[x].on))
      BY <1>3, <2>2
    <3>2. \A e \in EventsOf(stream[x].on) : e \notin Pieces(r)
      BY <2>2, PiecesOfOthers
    <3>3. StreamShowsLatest(stream'[x], Pieces(r), <<>>)
      BY <3>1, <3>2, HoldsNone
    <3> QED BY <2>2, <3>3 DEF Pieces, Piece
  <2>3. CASE /\ ~(\E s \in born : stream'[x] = Fresh(s))
             /\ ~NewRun(r) /\ SentBy(r)' = SentBy(r)
    <3>1. Open(x) /\ StreamShowsLatest(stream[x], Pieces(r), SentBy(r))
      BY <1>3, <2>3 DEF Shown
    <3>2. StreamShowsLatest(stream'[x], Pieces(r), SentBy(r))
      BY <1>3, <2>3, <3>1, RunFacts
    <3> QED BY <2>3, <3>2 DEF Pieces, Piece
  <2> QED BY <2>1, <2>2, <2>3 DEF RunsKept
<1> QED BY <1>1, <1>4, <1>5

LEMMA SameRuns ==
  ASSUME IInv, run' = run, born \subseteq born'
  PROVE  RunsSound' /\ RunsKept
  BY DEF IInv, RunsSound, RunSound, RunsKept, NewRun, SentBy

LEMMA SameStreams ==
  ASSUME UNCHANGED stream
  PROVE  StreamsKept
  BY DEF StreamsKept, Open

\* Nobody has subscribed to a terminal that did not exist.
LEMMA NewTerminalStep ==
  ASSUME IInv, NEW k \in Token, NEW i \in Id, NEW s \in Session, NewTerminal(k, i, s)
  PROVE  /\ stream' = stream /\ token' = token
         /\ s \notin born /\ born' = born \cup {s}
         /\ term' \in [Session -> Terminal \cup {NoTerminal}]
<1>1. [scope |-> i, owner |-> OwnerOf[i]] \in Terminal
  BY GateAssumption DEF Terminal
<1>2. \A x \in Stream : stream[x].on # s
  BY BroadcastAssumption DEF IInv, GivenOut, NewTerminal, Open
<1>3. stream' = stream
  <2>1. stream' = [x \in Stream |-> stream[x]]
    BY <1>2 DEF NewTerminal, Send
  <2> QED BY <2>1 DEF IInv, TypeOK, StreamTypeOK
<1> QED BY <1>1, <1>3 DEF NewTerminal, IInv, TypeOK

LEMMA BegunStep ==
  ASSUME IInv, NEW r \in Request, NewRun(r), NEW s \in Session,
         run' = [run EXCEPT ![r] = Begun(s)], s \in born', born \subseteq born'
  PROVE  /\ run' \in [Request -> RunState \cup {NotBegun}]
         /\ RunsSound' /\ RunsKept
<1> DEFINE b == Begun(s)
<1>1. /\ b \in RunState /\ b # NotBegun
      /\ b.on = s /\ b.pc = "exec" /\ b.output = <<>> /\ b.todo = <<>>
  BY DEF Begun, RunState, NotBegun
<1>2. /\ run'[r] = b /\ \A u \in Request \ {r} : run'[u] = run[u]
      /\ run' \in [Request -> RunState \cup {NotBegun}]
  <2> HIDE DEF b
  <2> QED BY <1>1 DEF IInv, TypeOK, b
<1> HIDE DEF b
<1>3. RunSound(b)
  BY <1>1 DEF RunSound
<1>4. RunsSound'
  <2> SUFFICES ASSUME NEW u \in Request, ~NewRun(u)'
               PROVE  RunSound(run'[u])
    BY DEF RunsSound, RunSound
  <2>1. CASE u = r
    BY <1>2, <1>3, <2>1
  <2>2. CASE u # r
    BY <1>2, <2>2 DEF IInv, RunsSound, NewRun
  <2> QED BY <2>1, <2>2
<1>5. SentBy(r)' = <<>>
  <2>1. SentBy(r)' = [n \in 1 .. Len(b.output) - Len(b.todo) |-> Piece(r, b.output[n])]
    BY <1>2 DEF SentBy, Piece
  <2>2. Len(b.output) - Len(b.todo) = 0
    BY <1>1
  <2>3. SentBy(r)' = [n \in 1 .. 0 |-> Piece(r, b.output[n])]
    BY <2>1, <2>2
  <2> QED BY <2>3
<1>6. \A u \in Request \ {r} : SentBy(u)' = SentBy(u) /\ NewRun(u)' = NewRun(u)
  BY <1>2 DEF SentBy, NewRun, Piece
<1>7. ~NewRun(r)' /\ run'[r].on = s
  BY <1>1, <1>2 DEF NewRun
<1>8. RunsKept
  BY <1>2, <1>5, <1>6, <1>7 DEF RunsKept
<1> QED BY <1>2, <1>4, <1>8

LEMMA RequestsStep ==
  ASSUME IInv, NEW k \in Token, NEW i \in Id, NEW s \in Session, Requests(k, i, s)
  PROVE  Kept
<1> USE DEF IInv, Kept
<1>1. CASE CreateTerminal(k, i, s)
  <2>1. /\ stream' = stream /\ token' = token
        /\ s \notin born /\ born' = born \cup {s}
        /\ term' \in [Session -> Terminal \cup {NoTerminal}]
        /\ known' = known \cup {s} /\ run' = run
    BY <1>1, NewTerminalStep DEF CreateTerminal
  <2>2. TypeOK'
    BY <2>1 DEF TypeOK, GateTypeOK, StreamTypeOK
  <2> QED BY <2>1, <2>2, SameRuns, SameStreams
<1>2. CASE \E r \in Request : CreateAndRun(r, k, i, s)
  <2> PICK r \in Request : CreateAndRun(r, k, i, s)
    BY <1>2
  <2>1. /\ stream' = stream /\ token' = token
        /\ s \notin born /\ born' = born \cup {s}
        /\ term' \in [Session -> Terminal \cup {NoTerminal}]
        /\ known' = known
        /\ NewRun(r) /\ run' = [run EXCEPT ![r] = Begun(s)]
    BY NewTerminalStep DEF CreateAndRun
  <2>2. run' \in [Request -> RunState \cup {NotBegun}] /\ RunsSound' /\ RunsKept
    BY <2>1, BegunStep
  <2>3. TypeOK'
    BY <2>1, <2>2 DEF TypeOK, GateTypeOK, StreamTypeOK
  <2> QED BY <2>1, <2>2, <2>3, SameStreams
<1>3. CASE \E r \in Request : ExecuteCommand(r, k, i, s)
  <2> PICK r \in Request : ExecuteCommand(r, k, i, s)
    BY <1>3
  <2>1. run' \in [Request -> RunState \cup {NotBegun}] /\ RunsSound' /\ RunsKept
    BY BegunStep DEF ExecuteCommand, TypeOK
  <2>2. TypeOK'
    BY <2>1 DEF ExecuteCommand, TypeOK, GateTypeOK, StreamTypeOK
  <2> QED BY <2>1, <2>2, SameStreams DEF ExecuteCommand
<1>4. CASE CloseTerminal(k, i, s)
  <2>1. TypeOK'
    BY <1>4 DEF CloseTerminal, TypeOK, GateTypeOK, StreamTypeOK
  <2> QED BY <1>4, <2>1, SameRuns, SameStreams DEF CloseTerminal
<1>5. CASE \E x \in Stream : OpenStream(x, k, i, s)
  <2> PICK x \in Stream : OpenStream(x, k, i, s)
    BY <1>5
  <2>1. StreamTypeOK'
    BY SubscribeType DEF OpenStream, TypeOK
  <2>2. TypeOK'
    BY <2>1 DEF OpenStream, TypeOK, GateTypeOK
  <2>3. StreamsKept
    <3>1. s \in born
      BY DEF OpenStream, TypeOK
    <3>2. stream' = [stream EXCEPT ![x] = Fresh(s)]
      BY DEF OpenStream, Subscribe
    <3>3. stream'[x] = Fresh(s) /\ \A y \in Stream : y # x => stream'[y] = stream[y]
      BY <3>2 DEF TypeOK, StreamTypeOK
    <3> QED BY <3>1, <3>3 DEF StreamsKept, Open
  <2> QED BY <2>2, <2>3, SameRuns DEF OpenStream
<1> QED BY <1>1, <1>2, <1>3, <1>4, <1>5 DEF Requests

LEMMA EnvironmentStep ==
  ASSUME IInv, \/ \E x \in Stream : Streams(x) \/ LeaveStream(x)
               \/ Auth
               \/ Restart
  PROVE  Kept
<1> USE DEF IInv, Kept
<1>1. CASE \E x \in Stream : Streams(x) \/ LeaveStream(x)
  <2> PICK x \in Stream : Streams(x) \/ LeaveStream(x)
    BY <1>1
  <2>1. /\ Deliver(x) \/ Disconnect(x)
        /\ UNCHANGED <<token, term, born, known, run>>
    BY DEF Streams, ReadStream, EndStream, LeaveStream
  <2>2. StreamTypeOK'
    BY <2>1, DeliverType, DisconnectType DEF TypeOK
  <2>3. TypeOK'
    BY <2>1, <2>2 DEF TypeOK, GateTypeOK
  <2>4. \A y \in Stream : y # x => stream'[y] = stream[y]
    BY <2>1 DEF Deliver, Disconnect, TypeOK, StreamTypeOK
  <2>5. CASE Deliver(x)
    <3>1. stream'[x].on = stream[x].on
      BY <2>5 DEF Deliver, TypeOK, StreamTypeOK, StreamState
    <3>2. StreamsKept
      BY <2>4, <2>5, <3>1 DEF StreamsKept, Open
    <3> QED BY <2>1, <2>3, <3>2, SameRuns
  <2>6. CASE Disconnect(x)
    <3>1. ~Open(x)'
      BY <2>6 DEF Disconnect, TypeOK, StreamTypeOK, Closed, Fresh, Open
    <3>2. StreamsKept
      BY <2>4, <3>1 DEF StreamsKept, Open
    <3> QED BY <2>1, <2>3, <3>2, SameRuns
  <2> QED BY <2>1, <2>5, <2>6
<1>2. CASE Auth
  <2>1. GateTypeOK'
    BY <1>2, GateAssumption DEF Auth, Expire, Login, TypeOK, GateTypeOK, Claims
  <2>2. TypeOK'
    BY <1>2, <2>1 DEF Auth, TypeOK, StreamTypeOK
  <2> QED BY <1>2, <2>2, SameRuns, SameStreams DEF Auth
<1>3. CASE Restart
  <2>1. StreamTypeOK'
    BY <1>3, FreshType DEF Restart, DisconnectAll, StreamTypeOK, Closed
  <2>2. ASSUME NEW r \in Request
        PROVE  /\ run'[r] \in RunState \cup {NotBegun}
               /\ NewRun(r)' <=> NewRun(r)
               /\ ~NewRun(r) =>
                    /\ run'[r].on = run[r].on
                    /\ run'[r].output = run[r].output
                    /\ run'[r].todo = run[r].todo
                    /\ run'[r].pc \in {run[r].pc, "failed"}
    <3>1. run'[r] = IF InFlight(r) THEN [run[r] EXCEPT !.pc = "failed"] ELSE run[r]
      BY <1>3 DEF Restart
    <3>2. CASE NewRun(r)
      BY <3>1, <3>2 DEF NewRun, NotBegun, InFlight
    <3>3. CASE ~NewRun(r)
      <4>1. run[r] \in RunState
        BY <3>3 DEF TypeOK, NewRun
      <4> QED BY <3>1, <4>1 DEF RunState, NewRun, NotBegun
    <3> QED BY <3>2, <3>3
  <2>3. run' \in [Request -> RunState \cup {NotBegun}]
    BY <1>3, <2>2 DEF Restart
  <2>4. TypeOK'
    BY <1>3, <2>1, <2>3 DEF Restart, TypeOK, GateTypeOK
  <2>5. RunsSound'
    <3> SUFFICES ASSUME NEW r \in Request, ~NewRun(r)'
                 PROVE  RunSound(run'[r])
      BY DEF RunsSound, RunSound
    <3>1. RunSound(run[r])
      BY <2>2 DEF RunsSound
    <3>2. /\ run'[r].output = run[r].output
          /\ run'[r].todo = run[r].todo
          /\ run'[r].pc \in {run[r].pc, "failed"}
      BY <2>2
    <3> QED BY <3>1, <3>2 DEF RunSound
  <2>6. \A r \in Request : ~NewRun(r) => SentBy(r)' = SentBy(r)
    BY <2>2 DEF SentBy, Piece
  <2>7. RunsKept
    BY <2>2, <2>6 DEF RunsKept
  <2>8. StreamsKept
    BY <1>3 DEF Restart, DisconnectAll, StreamsKept, Closed, Fresh, Open
  <2> QED BY <1>3, <2>4, <2>5, <2>7, <2>8 DEF Restart
<1> QED BY <1>1, <1>2, <1>3

LEMMA RunCommandStep ==
  ASSUME IInv, NEW r \in Request, RunCommand(r)
  PROVE  Kept
<1> USE DEF IInv, Kept
<1>1. ~NewRun(r) /\ run[r].pc = "exec"
  <2>1. run[r].pc = "exec"
    BY DEF RunCommand
  <2>2. NotBegun.pc = "new"
    BY DEF NotBegun
  <2> QED BY <2>1, <2>2 DEF NewRun
<1>2. /\ run[r] \in RunState
      /\ run[r].output = <<>> /\ run[r].todo \in Seq(Part) /\ Len(run[r].todo) <= 0
  <2>1. run[r].output = <<>> /\ Len(run[r].todo) <= Len(run[r].output)
    BY <1>1 DEF RunsSound, RunSound
  <2> QED BY <1>1, <2>1, RunFacts
<1>3. run[r].todo = <<>>
  BY <1>2, LenProperties
<1>4. PICK out \in Outputs \cup {<<>>}, pc \in {"send", "failed"} :
        /\ run' = [run EXCEPT ![r].pc = pc, ![r].output = out, ![r].todo = out]
        /\ pc = "send" => out \in Outputs
  <2>1. CASE \E out \in Outputs :
            run' = [run EXCEPT ![r].pc = "send", ![r].output = out, ![r].todo = out]
    BY <2>1
  <2>2. CASE run' = [run EXCEPT ![r].pc = "failed"]
    <3>1. [run[r] EXCEPT !.pc = "failed"]
            = [run[r] EXCEPT !.pc = "failed", !.output = <<>>, !.todo = <<>>]
      BY <1>2, <1>3 DEF RunState
    <3>2. run' = [run EXCEPT ![r].pc = "failed", ![r].output = <<>>, ![r].todo = <<>>]
      BY <2>2, <3>1
    <3> QED BY <3>2
  <2> QED BY <2>1, <2>2 DEF RunCommand
<1>5. out \in Seq(Part) /\ Len(out) \in Nat /\ (pc = "send" => out # <<>>)
  <2>1. out \in Seq(Part)
    BY OutputTypes
  <2>2. <<>> \notin Outputs
    BY DEF Outputs
  <2> QED BY <1>4, <2>1, <2>2, LenProperties
<1> DEFINE next == [run[r] EXCEPT !.pc = pc, !.output = out, !.todo = out]
<1>6. /\ next \in RunState /\ next # NotBegun
      /\ next.on = run[r].on /\ next.pc = pc /\ next.output = out /\ next.todo = out
  BY <1>2, <1>5 DEF RunState, NotBegun
<1>7. /\ run'[r] = next /\ \A u \in Request \ {r} : run'[u] = run[u]
      /\ run' \in [Request -> RunState \cup {NotBegun}]
  <2>1. run' = [run EXCEPT ![r] = next]
    BY <1>4 DEF TypeOK
  <2> HIDE DEF next
  <2> QED BY <1>6, <2>1 DEF TypeOK
<1> HIDE DEF next
<1>8. RunSound(next)
  <2>1. Len(out) <= Len(out) /\ \A n \in 1 .. Len(out) : Len(out) - Len(out) + n = n
    BY <1>5
  <2> QED BY <1>5, <1>6, <2>1 DEF RunSound
<1>9. RunsSound'
  <2> SUFFICES ASSUME NEW u \in Request, ~NewRun(u)'
               PROVE  RunSound(run'[u])
    BY DEF RunsSound, RunSound
  <2>1. CASE u = r
    BY <1>7, <1>8, <2>1
  <2>2. CASE u # r
    BY <1>7, <2>2 DEF RunsSound, NewRun
  <2> QED BY <2>1, <2>2
<1>10. SentBy(r) = <<>> /\ SentBy(r)' = <<>>
  <2>1. /\ SentBy(r)' = [n \in 1 .. Len(out) - Len(out) |-> Piece(r, out[n])]
        /\ SentBy(r) = [n \in 1 .. Len(<<>>) - Len(<<>>) |-> Piece(r, <<>>[n])]
    BY <1>2, <1>3, <1>6, <1>7 DEF SentBy, Piece
  <2>2. Len(out) - Len(out) = 0 /\ Len(<<>>) - Len(<<>>) = 0
    BY <1>5
  <2>3. /\ SentBy(r)' = [n \in 1 .. 0 |-> Piece(r, out[n])]
        /\ SentBy(r) = [n \in 1 .. 0 |-> Piece(r, <<>>[n])]
    BY <2>1, <2>2
  <2> QED BY <2>3
<1>11. RunsKept
  <2>1. \A u \in Request \ {r} : SentBy(u)' = SentBy(u) /\ NewRun(u)' = NewRun(u)
    BY <1>7 DEF SentBy, NewRun, Piece
  <2>2. ~NewRun(r)' /\ run'[r].on = run[r].on
    BY <1>6, <1>7 DEF NewRun
  <2> QED BY <1>1, <1>7, <1>10, <2>1, <2>2 DEF RunsKept
<1>12. TypeOK'
  BY <1>7 DEF RunCommand, TypeOK, GateTypeOK, StreamTypeOK
<1> QED BY <1>9, <1>11, <1>12, SameStreams DEF RunCommand

-----------------------------------------------------------------------------
(* The step that sends a piece                                               *)

LEMMA PublishFacts ==
  ASSUME IInv, NEW r \in Request, Publish(r)
  PROVE  /\ ~NewRun(r) /\ run[r] \in RunState /\ run[r].todo # <<>>
         /\ Head(run[r].todo) \in Part
         /\ run'[r].on = run[r].on /\ ~NewRun(r)' /\ RunSound(run'[r])
         /\ run' \in [Request -> RunState \cup {NotBegun}]
         /\ \A u \in Request \ {r} : run'[u] = run[u]
         /\ SentBy(r)' = Append(SentBy(r), Piece(r, Head(run[r].todo)))
         /\ \A l \in DOMAIN SentBy(r) : SentBy(r)[l] # Piece(r, Head(run[r].todo))
<1> DEFINE todo == run[r].todo
           out == run[r].output
           rest == Tail(todo)
           next == [run[r] EXCEPT !.todo = rest,
                                  !.pc = IF rest = <<>> THEN "done" ELSE "send"]
           k == Len(out) - Len(todo)
<1>1. run[r].pc = "send" /\ run' = [run EXCEPT ![r] = next] /\ run[r] # NotBegun
  <2>1. run[r].pc = "send"
    BY DEF Publish
  <2>2. NotBegun.pc = "new"
    BY DEF NotBegun
  <2>3. run' = [run EXCEPT ![r] = next]
    BY DEF Publish, Sending, IInv, TypeOK
  <2> QED BY <2>1, <2>2, <2>3
<1>2. ~NewRun(r)
  BY <1>1 DEF NewRun
<1>3. RunSound(run[r])
  BY <1>2 DEF IInv, RunsSound
<1>4. /\ run[r] \in RunState
      /\ out \in Seq(Part) /\ Len(out) \in Nat /\ out \in Outputs \cup {<<>>}
      /\ todo \in Seq(Part) /\ Len(todo) \in Nat
      /\ k \in 0 .. Len(out)
      /\ SentBy(r) = SentOf(r, out, k)
  BY <1>2, RunFacts DEF IInv
<1>5. todo # <<>> /\ \A n \in 1 .. Len(todo) : todo[n] = out[k + n]
  BY <1>1, <1>3 DEF RunSound
<1>6. /\ next \in RunState /\ next # NotBegun /\ next.on = run[r].on
      /\ next.output = out /\ next.todo = rest
      /\ next.pc \in {"send", "done"} /\ (next.pc = "send" => rest # <<>>)
  <2>1. rest \in Seq(Part)
    <3> HIDE DEF todo
    <3> QED BY <1>4, <1>5, HeadTailProperties
  <2> HIDE DEF rest
  <2> QED BY <1>4, <2>1 DEF RunState, NotBegun
<1>7. /\ run'[r] = next /\ \A u \in Request \ {r} : run'[u] = run[u]
      /\ run' \in [Request -> RunState \cup {NotBegun}]
  <2> HIDE DEF next
  <2> QED BY <1>1, <1>6 DEF IInv, TypeOK
<1> HIDE DEF next
<1>8. /\ rest \in Seq(Part) /\ Len(rest) = Len(todo) - 1
      /\ \A n \in 1 .. Len(rest) : rest[n] = todo[n + 1]
      /\ Head(todo) = todo[1] /\ Head(todo) \in Part /\ Len(todo) >= 1
  <2> HIDE DEF todo
  <2>1. /\ Head(todo) \in Part /\ rest \in Seq(Part)
        /\ Len(rest) = Len(todo) - 1
        /\ \A n \in 1 .. Len(rest) : rest[n] = todo[n + 1]
    BY <1>4, <1>5, HeadTailProperties
  <2>2. Head(todo) = todo[1] /\ Len(todo) >= 1
    BY <1>4, <1>5
  <2> QED BY <2>1, <2>2
<1> HIDE DEF todo, out, rest
<1>9. /\ k \in Nat /\ k < Len(out) /\ k + 1 \in DOMAIN out
      /\ Len(out) - Len(rest) = k + 1
      /\ Head(todo) = out[k + 1]
  <2>1. k \in Nat /\ k < Len(out) /\ Len(out) - Len(rest) = k + 1
    BY <1>4, <1>8
  <2>2. Head(todo) = out[k + 1]
    BY <1>5, <1>8
  <2> QED BY <1>4, <2>1, <2>2
<1>10. RunSound(next)
  <2>1. Len(rest) <= Len(out)
    BY <1>4, <1>8, <1>9
  <2>2. ASSUME NEW n \in 1 .. Len(rest)
        PROVE  rest[n] = out[Len(out) - Len(rest) + n]
    <3>1. n + 1 \in 1 .. Len(todo) /\ rest[n] = todo[n + 1]
      BY <1>4, <1>8
    <3>2. rest[n] = out[k + (n + 1)]
      BY <1>5, <3>1
    <3>3. k + (n + 1) = (k + 1) + n
      BY <1>9
    <3> QED BY <1>9, <3>2, <3>3
  <2> QED BY <1>6, <2>1, <2>2 DEF RunSound
<1>11. SentBy(r)' = SentOf(r, out, k + 1)
  <2>1. SentBy(r)' = SentOf(r, out, Len(out) - Len(rest))
    BY <1>6, <1>7 DEF SentBy, SentOf, Piece
  <2> QED BY <1>9, <2>1
<1>12. SentBy(r)' = Append(SentBy(r), Piece(r, Head(todo)))
  <2> HIDE DEF k
  <2> QED BY <1>4, <1>9, <1>11, SentMore
<1>13. \A l \in DOMAIN SentBy(r) : SentBy(r)[l] # Piece(r, Head(todo))
  <2> SUFFICES ASSUME NEW l \in 1 .. k
               PROVE  Piece(r, out[l]) # Piece(r, Head(todo))
    <3> HIDE DEF k
    <3> QED BY <1>4, SentType
  <2>1. l \in DOMAIN out /\ l # k + 1
    BY <1>4, <1>9
  <2>2. out[l] # out[k + 1]
    BY <1>4, <1>9, <2>1, OutputTypes
  <2>3. out[l] \in Part
    BY <1>4, <2>1, ElementOfSeq, LenProperties
  <2> QED BY <1>8, <1>9, <2>2, <2>3, EventTypes
<1> QED BY <1>2, <1>4, <1>5, <1>6, <1>7, <1>8, <1>10, <1>12, <1>13 DEF NewRun, todo

LEMMA PublishStep ==
  ASSUME IInv, NEW r \in Request, Publish(r)
  PROVE  IInv'
<1> DEFINE s == run[r].on
           piece == Piece(r, Head(run[r].todo))
<1>1. /\ ~NewRun(r) /\ run[r] \in RunState
      /\ Head(run[r].todo) \in Part
      /\ run'[r].on = s /\ ~NewRun(r)' /\ RunSound(run'[r])
      /\ run' \in [Request -> RunState \cup {NotBegun}]
      /\ \A u \in Request \ {r} : run'[u] = run[u]
      /\ SentBy(r)' = Append(SentBy(r), piece)
      /\ \A l \in DOMAIN SentBy(r) : SentBy(r)[l] # piece
  BY PublishFacts
<1>2. /\ s \in Session /\ s \in born
      /\ Send(s, <<piece>>)
      /\ UNCHANGED <<token, term, born>>
      /\ known' = known \/ known' = known \cup {s}
  BY <1>1 DEF Publish, Sending, RunState, IInv, GivenOut, Piece
<1>3. piece \in Event /\ piece \in Pieces(r) /\ piece \in EventsOf(s)
  <2> DEFINE part == Head(run[r].todo)
  <2>1. part \in Part
    BY <1>1
  <2> HIDE DEF part
  <2>2. /\ Piece(r, part) \in Event /\ Piece(r, part) \in Pieces(r)
        /\ Piece(r, part) \in EventsOf(s)
    BY <1>1, <2>1, EventTypes, PieceOf DEF EventsOf
  <2> QED BY <2>2 DEF part
<1> HIDE DEF piece, s
<1>4. <<piece>> \in Seq(Event) /\ <<piece>> \in Seq(EventsOf(s))
  BY <1>3
<1>5. StreamTypeOK /\ StreamTypeOK'
  BY <1>2, <1>4, SendType DEF IInv, TypeOK
<1>6. TypeOK'
  BY <1>1, <1>2, <1>5 DEF IInv, TypeOK, GateTypeOK
<1>7. ASSUME NEW x \in Stream
      PROVE  /\ stream'[x].on = stream[x].on
             /\ stream[x].on = s => stream'[x] = Push(x, <<piece>>)
             /\ stream[x].on # s => stream'[x] = stream[x]
  <2>1. stream'[x] = IF stream[x].on = s THEN Push(x, <<piece>>) ELSE stream[x]
    BY <1>2 DEF Send
  <2> QED BY <1>4, <1>5, <2>1, PushKeeps
<1>8. ASSUME NEW u \in Request
      PROVE  /\ NewRun(u)' <=> NewRun(u)
             /\ ~NewRun(u) => run'[u].on = run[u].on
             /\ u # r => SentBy(u)' = SentBy(u)
  BY <1>1 DEF NewRun, s, SentBy, Piece
<1>9. RunsSound'
  <2> SUFFICES ASSUME NEW u \in Request, ~NewRun(u)'
               PROVE  RunSound(run'[u])
    BY DEF RunsSound, RunSound
  <2> QED BY <1>1, <1>8 DEF IInv, RunsSound
<1>10. GivenOut'
  BY <1>2, <1>7, <1>8 DEF IInv, GivenOut, Open
<1>11. \A t : EventsOf(t)' = EventsOf(t)
  BY <1>8 DEF EventsOf, Piece
<1>12. NoCrosstalk'
  <2> SUFFICES ASSUME NEW x \in Stream, Open(x)'
               PROVE  Holds(stream'[x], EventsOf(stream[x].on))
    BY <1>7, <1>8 DEF NoCrosstalk, EventsOf, Piece
  <2>1. Holds(stream[x], EventsOf(stream[x].on))
    BY <1>7 DEF IInv, NoCrosstalk, Open
  <2>2. CASE stream[x].on = s
    BY <1>4, <1>5, <1>7, <2>1, <2>2, PushHolds
  <2>3. CASE stream[x].on # s
    BY <1>7, <2>1, <2>3
  <2> QED BY <2>2, <2>3
<1>13. Shown'
  <2> SUFFICES ASSUME NEW x \in Stream, NEW u \in Request, Open(x), ~NewRun(u)
               PROVE  StreamShowsLatest(stream'[x], Pieces(u), SentBy(u)')
    BY <1>7, <1>8 DEF Shown, Pieces, Piece, Open
  <2>1. StreamShowsLatest(stream[x], Pieces(u), SentBy(u))
    BY DEF IInv, Shown
  <2>2. SentBy(u) \in Seq(Event) /\ \A n \in DOMAIN SentBy(u) : SentBy(u)[n] \in Pieces(u)
    BY RunFacts DEF IInv
  <2>3. CASE stream[x].on = s /\ u = r
    <3>1. Carry(<<piece>>, Pieces(r), SentBy(r), Append(SentBy(r), piece))
      BY <1>1, <1>3, <2>2, <2>3, CarryAdd DEF piece
    <3>2. Append(SentBy(r), piece) \in Seq(Event)
      BY <1>3, <2>2, <2>3, AppendProperties
    <3>3. StreamShowsLatest(Push(x, <<piece>>), Pieces(r), Append(SentBy(r), piece))
      BY <1>4, <1>5, <2>1, <2>3, <3>1, <3>2, PushShows
    <3> QED BY <1>1, <1>7, <2>3, <3>3 DEF piece
  <2>4. CASE stream[x].on = s /\ u # r
    <3>1. piece \notin Pieces(u)
      BY <1>1, <2>4, EventTypes DEF piece, Pieces
    <3>2. Carry(<<piece>>, Pieces(u), SentBy(u), SentBy(u))
      BY <1>3, <2>2, <3>1, CarrySkip
    <3>3. StreamShowsLatest(Push(x, <<piece>>), Pieces(u), SentBy(u))
      BY <1>4, <1>5, <2>1, <2>2, <3>2, PushShows
    <3> QED BY <1>7, <1>8, <2>4, <3>3
  <2>5. CASE stream[x].on # s /\ u # r
    BY <1>7, <1>8, <2>1, <2>5
  <2>6. CASE stream[x].on # s /\ u = r
    <3>1. Holds(stream[x], EventsOf(stream[x].on))
      BY DEF IInv, NoCrosstalk
    <3>2. \A e \in EventsOf(stream[x].on) : e \notin Pieces(r)
      BY <2>6, PiecesOfOthers DEF s
    <3> DEFINE list == Append(SentBy(r), piece)
    <3>3. \A n \in DOMAIN list : list[n] \in Pieces(r)
      BY <1>3, <2>2, <2>6
    <3> HIDE DEF list
    <3>4. StreamShowsLatest(stream[x], Pieces(r), list)
      BY <3>1, <3>2, <3>3, HoldsNone
    <3> QED BY <1>1, <1>7, <2>6, <3>4 DEF list, piece
  <2> QED BY <2>3, <2>4, <2>5, <2>6
<1> QED BY <1>6, <1>9, <1>10, <1>12, <1>13 DEF IInv

-----------------------------------------------------------------------------

LEMMA NextIInv == IInv /\ [Next]_vars => IInv'
<1> SUFFICES ASSUME IInv, [Next]_vars PROVE IInv'
  OBVIOUS
<1>1. CASE UNCHANGED vars
  BY <1>1 DEF vars, IInv, TypeOK, GateTypeOK, StreamTypeOK, GivenOut, RunsSound,
              NoCrosstalk, Shown, Open, NewRun, SentBy, EventsOf, Piece, Pieces
<1>2. CASE Next
  BY <1>2, RequestsStep, RunCommandStep, PublishStep, EnvironmentStep, KeptIInv DEF Next
<1> QED BY <1>1, <1>2

\* The state keeps its type: every id that a client was told was given out, and
\* no stream is ever more than the channel's capacity behind.
THEOREM TypeCorrect == Spec => []TypeOK
<1>1. IInv => TypeOK
  BY DEF IInv
<1> QED BY InitIInv, NextIInv, <1>1, PTL DEF Spec

\* Every stream shows the output of each command of its terminal in order, with
\* nothing missing, nothing twice and nothing of other terminals, however
\* commands overlap and whether or not the terminal is closed meanwhile
\* (publish_terminal_output sends through the clone of the sender).
THEOREM OutputOrdered == Spec => []OutputInOrder
<1>1. ASSUME IInv PROVE OutputInOrder
  <2> SUFFICES ASSUME NEW x \in Stream, Open(x)
               PROVE  \A n \in DOMAIN Sent(x) :
                        /\ Sent(x)[n] # Banner
                        /\ run[Sent(x)[n].of].on = stream[x].on
    BY <1>1 DEF OutputInOrder, IInv, Shown
  <2>1. \A n \in DOMAIN Sent(x) : Sent(x)[n] \in EventsOf(stream[x].on)
    BY <1>1, HoldsElements DEF IInv, NoCrosstalk, Sent
  <2>2. \A e \in EventsOf(stream[x].on) : e # Banner /\ run[e.of].on = stream[x].on
    BY EventTypes, PieceOf DEF EventsOf
  <2> QED BY <2>1, <2>2
<1> QED BY InitIInv, NextIInv, <1>1, PTL DEF Spec

=============================================================================
