------------------------- MODULE ChatSessionsProofs -------------------------
(***************************************************************************)
(* Proofs about ChatSessions: the state keeps its type, every history is a *)
(* list of exchanges written by its own instance and owner, the streams    *)
(* follow it, and a session is a log of answers that only grows.           *)
(***************************************************************************)
EXTENDS ChatPromises, BroadcastProofs

Messages == Seq([role : {"user", "assistant"}, of : Request])

\* Whatever a session holds was written by a request that has finished, and
\* that had the session's instance and owner.
WrittenBy(s, r) ==
    req[r].pc = "done" /\ Matches(chat[s], req[r].id, req[r].owner)

Provenance ==
    \A s \in Session : Live(s) =>
        \A n \in DOMAIN chat[s].messages : WrittenBy(s, chat[s].messages[n].of)

\* No message is in two places.
Once ==
    \A s, t \in Session : Live(s) /\ Live(t) =>
        \A n \in DOMAIN chat[s].messages, l \in DOMAIN chat[t].messages :
            chat[s].messages[n] = chat[t].messages[l] => s = t /\ n = l

AllPaired == \A s \in Session : Live(s) => Paired(chat[s].messages)

\* An id that is the map's, or that a stream was opened on, was given out.
GivenOut ==
    /\ \A s \in Session : Live(s) => s \in born
    /\ \A x \in Stream : Open(x) => stream[x].on \in born

IInv ==
    /\ TypeOK
    /\ GivenOut
    /\ Provenance
    /\ AllPaired
    /\ Once
    /\ StreamsFollowHistory

LEMMA EventTypes ==
  /\ IdleEvent \in Event /\ IdleEvent \notin Replies
  /\ \A r \in Request : ReplyEvent(r) \in Event /\ ReplyEvent(r) \in Replies
  /\ \A r, u \in Request : ReplyEvent(r) = ReplyEvent(u) => r = u
  BY ChatAssumption DEF IdleEvent, ReplyEvent, Replies

-----------------------------------------------------------------------------
(* Histories as sequences *)

LEMMA ExchangeType ==
  ASSUME NEW r \in Request
  PROVE  /\ Exchange(r) \in Messages
         /\ Exchange(r)[1] = [role |-> "user", of |-> r]
         /\ Exchange(r)[2] = [role |-> "assistant", of |-> r]
         /\ Len(Exchange(r)) = 2
  BY DEF Exchange, Messages

LEMMA NoMessages ==
  /\ Paired(<<>>)
  /\ Answers(<<>>) = <<>>
<1>1. Len(<<>>) = 0 /\ 0 % 2 = 0 /\ 0 \div 2 = 0
  OBVIOUS
<1> QED BY <1>1 DEF Paired, Answers

\* A history and one more exchange.
LEMMA Exchanged ==
  ASSUME NEW m \in Messages, NEW r \in Request
  PROVE  /\ m \o Exchange(r) \in Messages
         /\ Len(m) \in Nat /\ DOMAIN m = 1 .. Len(m)
         /\ Len(m \o Exchange(r)) = Len(m) + 2
         /\ DOMAIN (m \o Exchange(r)) = 1 .. Len(m) + 2
         /\ \A n \in DOMAIN m : (m \o Exchange(r))[n] = m[n]
         /\ (m \o Exchange(r))[Len(m) + 1] = Exchange(r)[1]
         /\ (m \o Exchange(r))[Len(m) + 2] = Exchange(r)[2]
<1> DEFINE e == Exchange(r)
<1>1. e \in Messages /\ Len(e) = 2
  BY ExchangeType
<1> HIDE DEF e
<1>2. /\ m \o e \in Messages
      /\ Len(m \o e) = Len(m) + Len(e)
      /\ \A n \in 1 .. Len(m) + Len(e) :
            (m \o e)[n] = IF n <= Len(m) THEN m[n] ELSE e[n - Len(m)]
  BY <1>1, ConcatProperties DEF Messages
<1>3. Len(m) \in Nat /\ DOMAIN m = 1 .. Len(m)
  BY DEF Messages
<1>4. DOMAIN (m \o e) = 1 .. Len(m) + 2
  BY <1>1, <1>2 DEF Messages
<1>5. /\ \A n \in DOMAIN m : (m \o e)[n] = m[n]
      /\ (m \o e)[Len(m) + 1] = e[1]
      /\ (m \o e)[Len(m) + 2] = e[2]
  BY <1>1, <1>2, <1>3
<1> QED BY <1>1, <1>2, <1>3, <1>4, <1>5 DEF e

LEMMA Halves ==
  ASSUME NEW k \in Nat, k % 2 = 0
  PROVE  /\ k \div 2 \in Nat /\ k = 2 * (k \div 2)
         /\ (k + 2) % 2 = 0 /\ (k + 2) \div 2 = k \div 2 + 1
  OBVIOUS

LEMMA PairedLen ==
  ASSUME NEW m, Paired(m)
  PROVE  Len(m) % 2 = 0
  BY Zenon DEF Paired

LEMMA PairedExchanged ==
  ASSUME NEW m \in Messages, NEW r \in Request, Paired(m)
  PROVE  Paired(m \o Exchange(r))
<1> DEFINE e == Exchange(r)
           h == Len(m) \div 2
<1>1. /\ Len(m) \in Nat /\ DOMAIN m = 1 .. Len(m)
      /\ Len(m \o e) = Len(m) + 2
      /\ \A n \in DOMAIN m : (m \o e)[n] = m[n]
      /\ (m \o e)[Len(m) + 1] = e[1]
      /\ (m \o e)[Len(m) + 2] = e[2]
  BY Exchanged
<1> HIDE DEF e
<1>2. /\ h \in Nat /\ Len(m) = 2 * h
      /\ Len(m \o e) % 2 = 0 /\ Len(m \o e) \div 2 = h + 1
  BY <1>1, Halves, PairedLen
<1>3. ASSUME NEW n \in 1 .. h + 1
      PROVE  \E u \in Request : /\ (m \o e)[2 * n - 1] = Exchange(u)[1]
                                /\ (m \o e)[2 * n] = Exchange(u)[2]
  <2>1. CASE n = h + 1
    <3>1. 2 * n - 1 = Len(m) + 1 /\ 2 * n = Len(m) + 2
      BY <1>2, <2>1
    <3> QED BY <1>1, <3>1 DEF e
  <2>2. CASE n # h + 1
    <3>1. n \in 1 .. h /\ 2 * n - 1 \in DOMAIN m /\ 2 * n \in DOMAIN m
      BY <1>1, <1>2, <2>2
    <3>2. PICK u \in Request : m[2 * n - 1] = Exchange(u)[1] /\ m[2 * n] = Exchange(u)[2]
      BY <3>1 DEF Paired
    <3> QED BY <1>1, <3>1, <3>2
  <2> QED BY <2>1, <2>2
<1> HIDE DEF h
<1>4. Paired(m \o e)
  BY <1>2, <1>3 DEF Paired
<1> QED BY <1>4 DEF e

\* What a history of exchanges answers is what its messages are about.
LEMMA AnswersOf ==
  ASSUME NEW m \in Messages, Paired(m)
  PROVE  /\ Answers(m) \in Seq(Request)
         /\ \A n \in DOMAIN Answers(m) :
                /\ 2 * n \in DOMAIN m
                /\ m[2 * n] = [role |-> "assistant", of |-> Answers(m)[n]]
<1> DEFINE h == Len(m) \div 2
<1>1. Len(m) \in Nat /\ DOMAIN m = 1 .. Len(m)
  BY DEF Messages
<1>2. h \in Nat /\ Len(m) = 2 * h
  BY <1>1, Halves, PairedLen
<1>3. DOMAIN Answers(m) = 1 .. h /\ \A n \in 1 .. h : Answers(m)[n] = m[2 * n].of
  BY DEF Answers
<1>4. ASSUME NEW n \in 1 .. h
      PROVE  /\ 2 * n \in DOMAIN m
             /\ Answers(m)[n] \in Request
             /\ m[2 * n] = [role |-> "assistant", of |-> Answers(m)[n]]
  <2>1. 2 * n \in DOMAIN m
    BY <1>1, <1>2
  <2>2. PICK u \in Request : m[2 * n] = Exchange(u)[2]
    BY DEF Paired
  <2>3. m[2 * n] = [role |-> "assistant", of |-> u]
    BY <2>2, ExchangeType
  <2>4. Answers(m)[n] = u
    BY <1>3, <2>3
  <2> QED BY <2>1, <2>3, <2>4
<1>5. Answers(m) \in [1 .. h -> Request]
  BY <1>3, <1>4 DEF Answers
<1> HIDE DEF h
<1> QED BY <1>2, <1>3, <1>4, <1>5, SeqDef

LEMMA AnswersExchanged ==
  ASSUME NEW m \in Messages, NEW r \in Request, Paired(m)
  PROVE  Answers(m \o Exchange(r)) = Append(Answers(m), r)
<1> DEFINE e == Exchange(r)
           h == Len(m) \div 2
           more == Answers(m \o e)
           last == Append(Answers(m), r)
<1>1. /\ Len(m) \in Nat /\ DOMAIN m = 1 .. Len(m)
      /\ Len(m \o e) = Len(m) + 2
      /\ \A n \in DOMAIN m : (m \o e)[n] = m[n]
      /\ (m \o e)[Len(m) + 2] = e[2] /\ e[2].of = r
      /\ m \o e \in Messages /\ Paired(m \o e)
  <2>1. e[2] = [role |-> "assistant", of |-> r]
    BY ExchangeType
  <2>2. Paired(m \o e)
    BY PairedExchanged
  <2> HIDE DEF e
  <2> QED BY <2>1, <2>2, Exchanged DEF e
<1>2. /\ more \in Seq(Request) /\ Answers(m) \in Seq(Request)
  BY <1>1, AnswersOf
<1> HIDE DEF e
<1>3. /\ h \in Nat /\ Len(m) = 2 * h
      /\ Len(m \o e) \div 2 = h + 1
  BY <1>1, Halves, PairedLen
<1>4. /\ DOMAIN Answers(m) = 1 .. h
      /\ \A n \in 1 .. h : Answers(m)[n] = m[2 * n].of
  BY DEF Answers
<1>5. /\ DOMAIN more = 1 .. h + 1
      /\ \A n \in 1 .. h + 1 : more[n] = (m \o e)[2 * n].of
  BY <1>3 DEF Answers
<1>6. Len(Answers(m)) = h /\ Len(more) = h + 1
  BY <1>2, <1>3, <1>4, <1>5, LenProperties
<1>7. /\ last \in Seq(Request) /\ Len(last) = h + 1
      /\ \A n \in 1 .. h : last[n] = Answers(m)[n]
      /\ last[h + 1] = r
  BY <1>2, <1>6, AppendProperties
<1>8. ASSUME NEW n \in 1 .. h + 1
      PROVE  more[n] = last[n]
  <2>1. CASE n = h + 1
    <3>1. 2 * n = Len(m) + 2
      BY <1>3, <2>1
    <3> QED BY <1>1, <1>5, <1>7, <2>1, <3>1
  <2>2. CASE n # h + 1
    <3>1. n \in 1 .. h /\ 2 * n \in DOMAIN m
      BY <1>1, <1>3, <2>2
    <3> QED BY <1>1, <1>4, <1>5, <1>7, <3>1
  <2> QED BY <2>1, <2>2
<1> HIDE DEF more, last, h
<1>9. more = last
  BY <1>2, <1>6, <1>7, <1>8, SeqEqual
<1> QED BY <1>9 DEF more, last, e

LEMMA ToldType ==
  ASSUME NEW answers \in Seq(Request)
  PROVE  /\ Told(answers) \in Seq(Event)
         /\ DOMAIN Told(answers) = DOMAIN answers
         /\ Len(Told(answers)) = Len(answers)
         /\ \A n \in DOMAIN answers :
                /\ Told(answers)[n] = ReplyEvent(answers[n])
                /\ answers[n] \in Request
                /\ Told(answers)[n] \in Replies
<1>1. /\ Len(answers) \in Nat /\ DOMAIN answers = 1 .. Len(answers)
      /\ \A n \in DOMAIN answers : answers[n] \in Request
  OBVIOUS
<1>2. /\ DOMAIN Told(answers) = DOMAIN answers
      /\ \A n \in DOMAIN answers :
            /\ Told(answers)[n] = ReplyEvent(answers[n])
            /\ Told(answers)[n] \in Event
            /\ Told(answers)[n] \in Replies
  BY <1>1, EventTypes DEF Told
<1>3. Told(answers) \in [1 .. Len(answers) -> Event]
  BY <1>1, <1>2 DEF Told
<1>4. Told(answers) \in Seq(Event)
  BY <1>1, <1>3, SeqDef
<1>5. Len(Told(answers)) = Len(answers)
  BY <1>1, <1>2, <1>4, LenProperties
<1> QED BY <1>1, <1>2, <1>4, <1>5

LEMMA ToldMore ==
  ASSUME NEW answers \in Seq(Request), NEW r \in Request
  PROVE  Told(Append(answers, r)) = Append(Told(answers), ReplyEvent(r))
<1> DEFINE more == Told(Append(answers, r))
           last == Append(Told(answers), ReplyEvent(r))
           k == Len(answers)
<1>1. /\ Append(answers, r) \in Seq(Request) /\ Len(Append(answers, r)) = k + 1
      /\ \A n \in 1 .. k : Append(answers, r)[n] = answers[n]
      /\ Append(answers, r)[k + 1] = r
      /\ k \in Nat /\ DOMAIN answers = 1 .. k
  BY AppendProperties, LenProperties
<1>2. /\ more \in Seq(Event) /\ Len(more) = k + 1
      /\ \A n \in 1 .. k + 1 : more[n] = ReplyEvent(Append(answers, r)[n])
  <2>1. DOMAIN Append(answers, r) = 1 .. k + 1
    BY <1>1, LenProperties
  <2> QED BY <1>1, <2>1, ToldType
<1>3. /\ Told(answers) \in Seq(Event) /\ Len(Told(answers)) = k
      /\ \A n \in 1 .. k : Told(answers)[n] = ReplyEvent(answers[n])
  BY <1>1, ToldType
<1>4. /\ last \in Seq(Event) /\ Len(last) = k + 1
      /\ \A n \in 1 .. k : last[n] = Told(answers)[n]
      /\ last[k + 1] = ReplyEvent(r)
  BY <1>3, EventTypes, AppendProperties
<1> HIDE DEF more, last, k
<1>5. \A n \in 1 .. k + 1 : more[n] = last[n]
  BY <1>1, <1>2, <1>3, <1>4
<1>6. more = last
  BY <1>2, <1>4, <1>5, SeqEqual
<1> QED BY <1>6 DEF more, last

-----------------------------------------------------------------------------

LEMMA InitIInv == Init => IInv
<1> SUFFICES ASSUME Init PROVE IInv
  OBVIOUS
<1>1. StreamTypeOK /\ \A x \in Stream : ~Open(x)
  BY FreshType, BroadcastAssumption
     DEF Init, StreamInit, StreamTypeOK, Closed, Open, Fresh
<1>2. TypeOK
  BY <1>1, ChatAssumption DEF Init, TypeOK, GateInit, GateTypeOK
<1>3. \A s \in Session : ~Live(s)
  BY DEF Init, Live
<1> QED BY <1>1, <1>2, <1>3
        DEF IInv, GivenOut, Provenance, AllPaired, Once, StreamsFollowHistory

-----------------------------------------------------------------------------
(* The steps that leave every history alone *)

\* Requests that had finished are as they were, and no session has gained a
\* message or changed hands; only an id that is new can begin a session.
HistoriesKept ==
    /\ \A r \in Request : req[r].pc = "done" => req'[r] = req[r]
    /\ born \subseteq born'
    /\ \A s \in Session : Live(s)' =>
        \/ s \notin born /\ s \in born' /\ chat'[s].messages = <<>>
        \/ /\ Live(s)
           /\ chat'[s].messages = chat[s].messages
           /\ chat'[s].scope = chat[s].scope
           /\ chat'[s].owner = chat[s].owner

\* Whatever part of a list of replies stream x showed, it still shows it.
GoesOn(x) ==
    \A list \in Seq(Event) :
        /\ \A n \in DOMAIN list : list[n] \in Replies
        /\ StreamShowsLatest(stream[x], Replies, list)
        => StreamShowsLatest(stream'[x], Replies, list)

\* Every stream is new, or goes on.
StreamsKept ==
    \A x \in Stream : Open(x)' =>
        \/ \E s \in born : stream'[x] = Fresh(s)
        \/ Open(x) /\ stream'[x].on = stream[x].on /\ GoesOn(x)

Kept == TypeOK' /\ HistoriesKept /\ StreamsKept

LEMMA HistoryType ==
  ASSUME TypeOK, NEW s \in Session, Live(s)
  PROVE  /\ chat[s].messages \in Messages
         /\ \A n \in DOMAIN chat[s].messages : chat[s].messages[n].of \in Request
<1>1. chat[s].messages \in Messages
  BY DEF TypeOK, Live, Chat, Messages
<1>2. \A n \in DOMAIN chat[s].messages :
        chat[s].messages[n] \in [role : {"user", "assistant"}, of : Request]
  BY <1>1, ElementOfSeq, LenProperties DEF Messages
<1> QED BY <1>1, <1>2

LEMMA ListType ==
  ASSUME TypeOK, AllPaired, NEW s \in Session, Live(s)
  PROVE  /\ Answered(s) \in Seq(Request)
         /\ Told(Answered(s)) \in Seq(Event)
         /\ \A n \in DOMAIN Told(Answered(s)) : Told(Answered(s))[n] \in Replies
  BY HistoryType, AnswersOf, ToldType DEF AllPaired, Answered

LEMMA KeptProvenance ==
  ASSUME TypeOK, Provenance, HistoriesKept
  PROVE  Provenance'
<1> SUFFICES ASSUME NEW s \in Session, Live(s)', NEW n \in DOMAIN chat'[s].messages
             PROVE  WrittenBy(s, chat[s].messages[n].of)'
  BY DEF Provenance
<1>1. CASE chat'[s].messages = <<>>
  BY <1>1
<1>2. CASE /\ Live(s)
           /\ chat'[s].messages = chat[s].messages
           /\ chat'[s].scope = chat[s].scope
           /\ chat'[s].owner = chat[s].owner
  <2> DEFINE r == chat[s].messages[n].of
  <2>2. r \in Request
    BY <1>2, HistoryType
  <2>3. WrittenBy(s, r)
    BY <1>2 DEF Provenance
  <2>4. req'[r] = req[r]
    BY <2>2, <2>3 DEF HistoriesKept, WrittenBy
  <2> QED BY <1>2, <2>3, <2>4 DEF WrittenBy, Matches
<1> QED BY <1>1, <1>2 DEF HistoriesKept

LEMMA KeptIInv ==
  ASSUME IInv, Kept
  PROVE  IInv'
<1> USE DEF Kept, IInv
<1>1. Provenance'
  BY KeptProvenance
<1>2. AllPaired'
  BY NoMessages DEF AllPaired, HistoriesKept
<1>3. Once'
  <2>1. \A s \in Session : Live(s)' =>
          \/ chat'[s].messages = <<>>
          \/ Live(s) /\ chat'[s].messages = chat[s].messages
    BY DEF HistoriesKept
  <2> QED BY <2>1 DEF Once
<1>4. GivenOut'
  <2>1. \A s \in Session : Live(s)' => s \in born'
    BY DEF HistoriesKept, GivenOut
  <2>2. \A x \in Stream : Open(x)' => stream'[x].on \in born'
    <3> SUFFICES ASSUME NEW x \in Stream, Open(x)'
                 PROVE  stream'[x].on \in born
      BY DEF HistoriesKept
    <3>1. \A s : Fresh(s).on = s
      BY DEF Fresh
    <3>2. CASE \E s \in born : stream'[x] = Fresh(s)
      BY <3>1, <3>2
    <3>3. CASE Open(x) /\ stream'[x].on = stream[x].on
      BY <3>3 DEF GivenOut
    <3> QED BY <3>2, <3>3 DEF StreamsKept
  <2> QED BY <2>1, <2>2 DEF GivenOut
<1>5. StreamsFollowHistory'
  <2> SUFFICES ASSUME NEW x \in Stream, Open(x)', NEW s \in Session,
                      s = stream'[x].on, Live(s)'
               PROVE  StreamShowsLatest(stream[x], Replies, Told(Answered(s)))'
    <3>1. \A x \in Stream : Open(x)' => stream'[x].on \in Session
      BY DEF TypeOK, StreamTypeOK, StreamState, Open
    <3> QED BY <3>1 DEF StreamsFollowHistory
  <2>1. CASE \E u \in born : stream'[x] = Fresh(u)
    BY <2>1, FreshShows
  <2>2. CASE Open(x) /\ stream'[x].on = stream[x].on /\ GoesOn(x)
    <3>1. Live(s) /\ chat'[s].messages = chat[s].messages
      BY <2>2 DEF GivenOut, HistoriesKept
    <3>2. Told(Answered(s))' = Told(Answered(s))
      BY <3>1 DEF Answered
    <3>3. StreamShowsLatest(stream[x], Replies, Told(Answered(s)))
      BY <2>2, <3>1 DEF StreamsFollowHistory
    <3>4. StreamShowsLatest(stream'[x], Replies, Told(Answered(s)))
      BY <2>2, <3>1, <3>3, ListType DEF GoesOn
    <3> QED BY <3>2, <3>4
  <2> QED BY <2>1, <2>2 DEF StreamsKept
<1> QED BY <1>1, <1>2, <1>3, <1>4, <1>5

LEMMA SameStreams ==
  ASSUME UNCHANGED stream
  PROVE  StreamsKept
  BY DEF StreamsKept, GoesOn, Open

LEMMA IdleSent ==
  ASSUME StreamTypeOK, NEW s \in Session, Send(s, <<IdleEvent>>)
  PROVE  StreamsKept
<1> SUFFICES ASSUME NEW x \in Stream, Open(x)'
             PROVE  Open(x) /\ stream'[x].on = stream[x].on /\ GoesOn(x)
  BY DEF StreamsKept
<1>1. CASE stream[x].on # s
  BY <1>1 DEF Send, GoesOn, Open
<1>2. CASE stream[x].on = s
  <2>1. <<IdleEvent>> \in Seq(Event)
    BY EventTypes
  <2>2. stream'[x] = Push(x, <<IdleEvent>>)
    BY <1>2 DEF Send
  <2>3. stream'[x].on = stream[x].on
    BY <2>1, <2>2, PushKeeps
  <2>4. GoesOn(x)
    <3> SUFFICES ASSUME NEW list \in Seq(Event),
                        \A n \in DOMAIN list : list[n] \in Replies,
                        StreamShowsLatest(stream[x], Replies, list)
                 PROVE  StreamShowsLatest(stream'[x], Replies, list)
      BY DEF GoesOn
    <3>1. Carry(<<IdleEvent>>, Replies, list, list)
      BY EventTypes, CarrySkip
    <3> QED BY <2>1, <2>2, <3>1, PushShows
  <2> QED BY <2>3, <2>4 DEF Open
<1> QED BY <1>1, <1>2

LEMMA RequestsStep ==
  ASSUME IInv, NEW k \in Token, NEW i \in Id, NEW s \in Session, Requests(k, i, s)
  PROVE  Kept
<1> USE DEF IInv, Kept
<1>1. OwnerOf[i] \in Owner
  BY GateAssumption
<1>2. CASE CreateChat(k, i, s)
  <2> DEFINE c == [scope |-> i, owner |-> OwnerOf[i], title |-> NewChat, messages |-> <<>>]
  <2>1. c \in Chat
    BY <1>1, ChatAssumption DEF Chat
  <2>2. TypeOK'
    BY <1>2, <2>1 DEF CreateChat, TypeOK, GateTypeOK, StreamTypeOK
  <2>3. HistoriesKept
    BY <1>2 DEF CreateChat, HistoriesKept, Live, TypeOK
  <2>4. StreamsKept
    BY <1>2, SameStreams DEF CreateChat
  <2> QED BY <2>2, <2>3, <2>4
<1>3. CASE DeleteChat(k, i, s)
  <2>1. TypeOK'
    BY <1>3 DEF DeleteChat, TypeOK, GateTypeOK, StreamTypeOK
  <2>2. HistoriesKept
    BY <1>3 DEF DeleteChat, HistoriesKept, Live, TypeOK
  <2>3. StreamsKept
    BY <1>3, SameStreams DEF DeleteChat
  <2> QED BY <2>1, <2>2, <2>3
<1>4. CASE AbortMessage(k, i, s)
  <2>1. StreamTypeOK'
    <3>1. <<IdleEvent>> \in Seq(Event)
      BY EventTypes
    <3> QED BY <1>4, <3>1, SendType DEF AbortMessage, TypeOK
  <2>2. TypeOK'
    BY <1>4, <2>1 DEF AbortMessage, TypeOK, GateTypeOK
  <2>3. HistoriesKept
    BY <1>4 DEF AbortMessage, HistoriesKept, Live
  <2>4. StreamsKept
    BY <1>4, IdleSent DEF AbortMessage, TypeOK
  <2> QED BY <2>2, <2>3, <2>4
<1>5. CASE \E title \in Title : RenameChat(k, i, s, title)
  <2> PICK title \in Title : RenameChat(k, i, s, title)
    BY <1>5
  <2> DEFINE c == [chat[s] EXCEPT !.title = title]
  <2>1. chat[s] \in Chat /\ chat' = [chat EXCEPT ![s] = c]
    BY DEF RenameChat, TypeOK
  <2>2. c \in Chat /\ c.messages = chat[s].messages /\ c.scope = chat[s].scope /\ c.owner = chat[s].owner
    BY <2>1 DEF Chat
  <2> HIDE DEF c
  <2>3. TypeOK'
    BY <2>1, <2>2 DEF RenameChat, TypeOK, GateTypeOK, StreamTypeOK
  <2>4. HistoriesKept
    BY <2>1, <2>2 DEF RenameChat, HistoriesKept, Live, TypeOK
  <2>5. StreamsKept
    BY SameStreams DEF RenameChat
  <2> QED BY <2>3, <2>4, <2>5
<1>6. CASE \E r \in Request : BeginSend(r, k, i, s)
  <2> PICK r \in Request : BeginSend(r, k, i, s)
    BY <1>6
  <2> DEFINE q == [pc |-> IF i \in HasChatCommand THEN "exec" ELSE "update",
                   id |-> i, owner |-> OwnerOf[i], chat |-> s]
  <2>1. q \in ReqState
    BY <1>1 DEF ReqState
  <2>2. req' = [req EXCEPT ![r] = q] /\ req[r].pc = "new"
    BY DEF BeginSend, NewReq
  <2> HIDE DEF q
  <2>3. TypeOK'
    BY <2>1, <2>2 DEF BeginSend, TypeOK, GateTypeOK, StreamTypeOK
  <2>4. HistoriesKept
    BY <2>2 DEF BeginSend, HistoriesKept, Live, TypeOK
  <2>5. StreamsKept
    BY SameStreams DEF BeginSend
  <2> QED BY <2>3, <2>4, <2>5
<1>7. CASE \E x \in Stream : OpenStream(x, k, i, s)
  <2> PICK x \in Stream : OpenStream(x, k, i, s)
    BY <1>7
  <2>1. StreamTypeOK'
    BY SubscribeType DEF OpenStream, TypeOK
  <2>2. TypeOK'
    BY <2>1 DEF OpenStream, TypeOK, GateTypeOK
  <2>3. HistoriesKept
    BY DEF OpenStream, HistoriesKept, Live
  <2>4. StreamsKept
    <3>1. s \in born
      BY DEF OpenStream, GivenOut, Live
    <3>2. stream' = [stream EXCEPT ![x] = Fresh(s)]
      BY DEF OpenStream, Subscribe
    <3>3. stream'[x] = Fresh(s) /\ \A y \in Stream : y # x => stream'[y] = stream[y]
      BY <3>2 DEF TypeOK, StreamTypeOK
    <3> QED BY <3>1, <3>3 DEF StreamsKept, GoesOn, Open
  <2> QED BY <2>2, <2>3, <2>4
<1> QED BY <1>2, <1>3, <1>4, <1>5, <1>6, <1>7 DEF Requests

LEMMA StreamStep ==
  ASSUME StreamTypeOK, NEW x \in Stream, Deliver(x) \/ Disconnect(x)
  PROVE  StreamTypeOK' /\ StreamsKept
<1>1. StreamTypeOK'
  BY DeliverType, DisconnectType
<1>2. \A y \in Stream : y # x => stream'[y] = stream[y]
  BY DEF Deliver, Disconnect, StreamTypeOK
<1>3. CASE Deliver(x)
  <2>1. stream'[x].on = stream[x].on
    BY <1>3 DEF Deliver, StreamTypeOK, StreamState
  <2>2. GoesOn(x)
    BY <1>3, DeliverShows DEF GoesOn
  <2> QED BY <1>1, <1>2, <2>1, <2>2 DEF StreamsKept, GoesOn, Open
<1>4. CASE Disconnect(x)
  <2>1. ~Open(x)'
    BY <1>4 DEF Disconnect, StreamTypeOK, Closed, Fresh, Open
  <2> QED BY <1>1, <1>2, <2>1 DEF StreamsKept, GoesOn, Open
<1> QED BY <1>3, <1>4

LEMMA EnvironmentStep ==
  ASSUME IInv, \/ \E x \in Stream : Streams(x) \/ LeaveStream(x)
               \/ Auth
               \/ Restart
  PROVE  Kept
<1> USE DEF IInv, Kept
<1>1. CASE \E x \in Stream : Streams(x) \/ LeaveStream(x)
  <2> PICK x \in Stream : Streams(x) \/ LeaveStream(x)
    BY <1>1
  <2>1. /\ Deliver(x) \/ Disconnect(x)
        /\ UNCHANGED <<token, chat, born, req, aborts>>
    BY DEF Streams, ReadStream, EndStream, LeaveStream
  <2>2. StreamTypeOK' /\ StreamsKept
    BY <2>1, StreamStep DEF TypeOK
  <2>3. TypeOK'
    BY <2>1, <2>2 DEF TypeOK, GateTypeOK
  <2>4. HistoriesKept
    BY <2>1 DEF HistoriesKept, Live
  <2> QED BY <2>2, <2>3, <2>4
<1>2. CASE Auth
  <2>1. GateTypeOK'
    BY <1>2, GateAssumption DEF Auth, Expire, Login, TypeOK, GateTypeOK, Claims
  <2>2. TypeOK'
    BY <1>2, <2>1 DEF Auth, TypeOK, StreamTypeOK
  <2>3. HistoriesKept
    BY <1>2 DEF Auth, HistoriesKept, Live
  <2>4. StreamsKept
    BY <1>2, SameStreams DEF Auth
  <2> QED BY <2>2, <2>3, <2>4
<1>3. CASE Restart
  <2>1. StreamTypeOK'
    BY <1>3, FreshType DEF Restart, DisconnectAll, StreamTypeOK, Closed
  <2>2. req' \in [Request -> ReqState \cup {[pc |-> "new"]}]
    BY <1>3 DEF Restart, TypeOK, InFlight, ReqState
  <2>3. TypeOK'
    BY <1>3, <2>1, <2>2 DEF Restart, TypeOK, GateTypeOK
  <2>4. HistoriesKept
    BY <1>3 DEF Restart, HistoriesKept, Live, InFlight
  <2>5. StreamsKept
    BY <1>3 DEF Restart, DisconnectAll, StreamsKept, Closed, Fresh, Open
  <2> QED BY <2>3, <2>4, <2>5
<1> QED BY <1>1, <1>2, <1>3

-----------------------------------------------------------------------------
(* The handler that sends a message *)

LEMMA RunChatCommandStep ==
  ASSUME IInv, NEW r \in Request, RunChatCommand(r)
  PROVE  Kept
<1> USE DEF IInv, Kept
<1>1. req[r] \in ReqState
  BY DEF RunChatCommand, TypeOK
<1>2. req' \in [Request -> ReqState \cup {[pc |-> "new"]}]
  BY <1>1 DEF RunChatCommand, SetPc, ReqState, TypeOK
<1>3. TypeOK'
  BY <1>2 DEF RunChatCommand, TypeOK, GateTypeOK, StreamTypeOK
<1>4. HistoriesKept
  BY DEF RunChatCommand, SetPc, HistoriesKept, Live, TypeOK
<1>5. StreamsKept
  BY SameStreams DEF RunChatCommand
<1> QED BY <1>3, <1>4, <1>5

\* The step that answers request r in session s.
Answering(r, s) ==
    /\ Live(s) /\ Live(s)'
    /\ req[r].pc = "update" /\ WrittenBy(s, r)'
    /\ \A u \in Request \ {r} : req'[u] = req[u]
    /\ \A t \in Session \ {s} : chat'[t] = chat[t]
    /\ chat'[s].messages = chat[s].messages \o Exchange(r)
    /\ chat'[s].scope = chat[s].scope
    /\ chat'[s].owner = chat[s].owner
    /\ born' = born
    /\ Send(s, <<ReplyEvent(r), IdleEvent>>)

LEMMA UpdateChatCases ==
  ASSUME IInv, NEW r \in Request, UpdateChat(r)
  PROVE  /\ TypeOK'
         /\ \/ Kept /\ UNCHANGED <<chat, born>>
            \/ \E s \in Session : Answering(r, s)
<1> USE DEF IInv, Kept
<1>1. req[r] \in ReqState /\ req[r].pc = "update"
  BY DEF UpdateChat, TypeOK
<1> PICK s \in Session : s = req[r].chat
  BY <1>1 DEF ReqState
<1> DEFINE m == chat[s].messages
           mine == chat[s] # NoChat /\ Matches(chat[s], req[r].id, req[r].owner)
<1>2. req' \in [Request -> ReqState \cup {[pc |-> "new"]}]
  BY <1>1 DEF UpdateChat, SetPc, ReqState, TypeOK
<1>3. CASE ~mine
  <2>1. UNCHANGED <<token, stream, chat, born, aborts>> /\ SetPc(r, "failed")
    BY <1>3 DEF UpdateChat
  <2>2. TypeOK'
    BY <1>2, <2>1 DEF TypeOK, GateTypeOK, StreamTypeOK
  <2>3. HistoriesKept
    BY <1>1, <2>1 DEF SetPc, HistoriesKept, Live, TypeOK
  <2> QED BY <2>1, <2>2, <2>3, SameStreams
<1>4. CASE mine
  <2> DEFINE c == [chat[s] EXCEPT !.messages = m \o Exchange(r)]
  <2>1. chat[s] \in Chat /\ m \in Messages
    BY <1>1, <1>4 DEF TypeOK, Chat, Messages
  <2>2. /\ Send(s, <<ReplyEvent(r), IdleEvent>>)
        /\ chat' = [chat EXCEPT ![s] = c]
        /\ SetPc(r, "done")
        /\ UNCHANGED <<token, born, aborts>>
    BY <1>1, <1>4, <2>1 DEF UpdateChat, TypeOK
  <2>3. m \o Exchange(r) \in Messages
    BY <2>1, Exchanged
  <2>4. c \in Chat /\ c.messages = m \o Exchange(r)
        /\ c.scope = chat[s].scope /\ c.owner = chat[s].owner
    BY <2>1, <2>3 DEF Chat, Messages
  <2>5. StreamTypeOK'
    <3>1. <<ReplyEvent(r), IdleEvent>> \in Seq(Event)
      BY EventTypes
    <3> QED BY <1>1, <2>2, <3>1, SendType DEF TypeOK
  <2>6. chat' \in [Session -> Chat \cup {NoChat}] /\ chat'[s] = c
        /\ \A t \in Session \ {s} : chat'[t] = chat[t]
    <3> HIDE DEF m, c
    <3> QED BY <2>2, <2>4 DEF TypeOK
  <2>7. TypeOK'
    <3> HIDE DEF m, c
    <3> QED BY <1>2, <2>2, <2>5, <2>6 DEF TypeOK, GateTypeOK
  <2>8. /\ req'[r].id = req[r].id /\ req'[r].owner = req[r].owner
        /\ req'[r].pc = "done" /\ \A u \in Request \ {r} : req'[u] = req[u]
    BY <1>1, <2>2 DEF SetPc, TypeOK, ReqState
  <2>9. Live(s) /\ Live(s)'
    BY <1>4, <2>4, <2>6, ChatAssumption DEF Live
  <2>10. Answering(r, s)
    <3> HIDE DEF c
    <3> QED BY <1>1, <1>4, <2>2, <2>4, <2>6, <2>8, <2>9
            DEF Answering, WrittenBy, Matches
  <2> QED BY <2>7, <2>10
<1> QED BY <1>3, <1>4

LEMMA AnsweringProvenance ==
  ASSUME IInv, NEW r \in Request, NEW s \in Session, Answering(r, s)
  PROVE  /\ \A t \in Session : Live(t) =>
                \A n \in DOMAIN chat[t].messages : chat[t].messages[n].of # r
         /\ Provenance'
<1> DEFINE m == chat[s].messages
<1>1. ASSUME NEW t \in Session, Live(t), NEW n \in DOMAIN chat[t].messages
      PROVE  /\ chat[t].messages[n].of \in Request \ {r}
             /\ WrittenBy(t, chat[t].messages[n].of)
  <2>1. WrittenBy(t, chat[t].messages[n].of)
    BY <1>1 DEF IInv, Provenance
  <2> QED BY <1>1, <2>1, HistoryType DEF IInv, Answering, WrittenBy
<1>2. /\ m \in Messages /\ Len(m) \in Nat /\ DOMAIN m = 1 .. Len(m)
      /\ DOMAIN chat'[s].messages = 1 .. Len(m) + 2
      /\ \A n \in DOMAIN m : chat'[s].messages[n] = m[n]
      /\ \A n \in Len(m) + 1 .. Len(m) + 2 : chat'[s].messages[n].of = r
  <2> DEFINE next == m \o Exchange(r)
  <2>1. m \in Messages
    BY HistoryType DEF IInv, Answering
  <2>2. next[Len(m) + 1].of = r /\ next[Len(m) + 2].of = r
    <3>1. /\ next[Len(m) + 1] = [role |-> "user", of |-> r]
          /\ next[Len(m) + 2] = [role |-> "assistant", of |-> r]
      BY <2>1, Exchanged, ExchangeType
    <3> HIDE DEF next
    <3> QED BY <3>1
  <2>3. /\ Len(m) \in Nat /\ DOMAIN m = 1 .. Len(m)
        /\ DOMAIN next = 1 .. Len(m) + 2
        /\ \A n \in DOMAIN m : next[n] = m[n]
    BY <2>1, Exchanged
  <2>4. chat'[s].messages = next
    BY DEF Answering
  <2> HIDE DEF m, next
  <2>5. \A n \in Len(m) + 1 .. Len(m) + 2 : n = Len(m) + 1 \/ n = Len(m) + 2
    BY <2>3
  <2> QED BY <2>1, <2>2, <2>3, <2>4, <2>5
<1> HIDE DEF m
<1>3. ASSUME NEW t \in Session, Live(t)', NEW n \in DOMAIN chat'[t].messages
      PROVE  WrittenBy(t, chat[t].messages[n].of)'
  <2>1. CASE t # s
    <3>1. chat'[t] = chat[t] /\ Live(t)
      BY <1>3, <2>1 DEF Answering, Live
    <3> QED BY <1>1, <1>3, <3>1 DEF Answering, WrittenBy, Matches
  <2>2. CASE t = s /\ n \in 1 .. Len(m)
    <3>1. chat'[t].messages[n] = chat[t].messages[n] /\ n \in DOMAIN chat[t].messages
      BY <1>2, <2>2 DEF m
    <3>2. Live(t)
      BY <2>2 DEF Answering
    <3> QED BY <1>1, <2>2, <3>1, <3>2 DEF Answering, WrittenBy, Matches
  <2>3. CASE t = s /\ n \in Len(m) + 1 .. Len(m) + 2
    <3>1. chat'[t].messages[n].of = r
      BY <1>2, <2>3
    <3> QED BY <2>3, <3>1 DEF Answering, WrittenBy
  <2> QED BY <1>2, <1>3, <2>1, <2>2, <2>3
<1> QED BY <1>1, <1>3 DEF Provenance

LEMMA AnsweringHistories ==
  ASSUME IInv, NEW r \in Request, NEW s \in Session, Answering(r, s)
  PROVE  AllPaired' /\ Once'
<1> DEFINE m == chat[s].messages
           next == m \o Exchange(r)
<1>1. m \in Messages /\ Paired(m) /\ chat'[s].messages = next
  BY HistoryType DEF IInv, Answering, AllPaired
<1>2. Paired(next)
  BY <1>1, PairedExchanged
<1>3. \A t \in Session : Live(t)' => Live(t) /\ (t # s => chat'[t] = chat[t])
  BY DEF Answering, Live
<1>4. /\ Len(m) \in Nat /\ DOMAIN m = 1 .. Len(m)
      /\ DOMAIN next = 1 .. Len(m) + 2
      /\ \A n \in DOMAIN m : next[n] = m[n]
      /\ next[Len(m) + 1] = [role |-> "user", of |-> r]
      /\ next[Len(m) + 2] = [role |-> "assistant", of |-> r]
  BY <1>1, Exchanged, ExchangeType
<1> HIDE DEF m, next
<1>5. AllPaired'
  BY <1>1, <1>2, <1>3 DEF IInv, AllPaired
<1>6. \A n \in DOMAIN next :
        \/ n \in DOMAIN m
        \/ n = Len(m) + 1 /\ next[n].of = r /\ next[n].role = "user"
        \/ n = Len(m) + 2 /\ next[n].of = r /\ next[n].role = "assistant"
  BY <1>4
<1>7. ASSUME NEW t \in Session, NEW u \in Session, Live(t)', Live(u)',
             NEW n \in DOMAIN chat'[t].messages, NEW l \in DOMAIN chat'[u].messages,
             chat'[t].messages[n] = chat'[u].messages[l]
      PROVE  t = u /\ n = l
  <2>1. ASSUME NEW v \in Session, Live(v)', NEW p \in DOMAIN chat'[v].messages
        PROVE  \/ /\ Live(v) /\ p \in DOMAIN chat[v].messages
                  /\ chat'[v].messages[p] = chat[v].messages[p]
                  /\ chat'[v].messages[p].of # r
               \/ /\ v = s /\ p = Len(m) + 1
                  /\ chat'[v].messages[p].of = r /\ chat'[v].messages[p].role = "user"
               \/ /\ v = s /\ p = Len(m) + 2
                  /\ chat'[v].messages[p].of = r /\ chat'[v].messages[p].role = "assistant"
    <3>1. CASE v # s
      BY <1>3, <2>1, <3>1, AnsweringProvenance
    <3>2. CASE v = s
      <4>1. Live(v) /\ p \in DOMAIN next /\ chat'[v].messages[p] = next[p]
        BY <1>1, <1>3, <2>1, <3>2
      <4>2. CASE p \in DOMAIN m
        <5>1. p \in DOMAIN chat[v].messages /\ next[p] = chat[v].messages[p]
          BY <1>4, <3>2, <4>2 DEF m
        <5> QED BY <4>1, <5>1, AnsweringProvenance
      <4> QED BY <1>6, <3>2, <4>1, <4>2
    <3> QED BY <3>1, <3>2
  <2>2. CASE chat'[t].messages[n].of = r
    BY <1>7, <2>1, <2>2
  <2>3. CASE chat'[t].messages[n].of # r
    BY <1>7, <2>1, <2>3 DEF IInv, Once
  <2> QED BY <2>2, <2>3
<1> QED BY <1>5, <1>7 DEF Once

\* The answer is the next on the list and goes to every stream of the session.
LEMMA AnsweringStreams ==
  ASSUME IInv, TypeOK', NEW r \in Request, NEW s \in Session, Answering(r, s)
  PROVE  StreamsFollowHistory' /\ GivenOut'
<1> DEFINE m == chat[s].messages
           list == Told(Answered(s))
           events == <<ReplyEvent(r), IdleEvent>>
<1>1. m \in Messages /\ Paired(m) /\ chat'[s].messages = m \o Exchange(r)
  BY HistoryType DEF IInv, Answering, AllPaired
<1>2. /\ Answers(m) \in Seq(Request)
      /\ \A n \in DOMAIN Answers(m) :
            2 * n \in DOMAIN m /\ m[2 * n] = [role |-> "assistant", of |-> Answers(m)[n]]
  BY <1>1, AnswersOf
<1>3. \A n \in DOMAIN Answers(m) : Answers(m)[n] # r
  <2> SUFFICES ASSUME NEW n \in DOMAIN Answers(m) PROVE Answers(m)[n] # r
    OBVIOUS
  <2>1. m[2 * n].of # r
    BY <1>2, AnsweringProvenance DEF Answering
  <2>2. m[2 * n] = [role |-> "assistant", of |-> Answers(m)[n]]
    BY <1>2
  <2> HIDE DEF m
  <2> QED BY <2>1, <2>2
<1>4. /\ list = Told(Answers(m)) /\ list \in Seq(Event)
      /\ \A n \in DOMAIN list : list[n] \in Replies /\ list[n] # ReplyEvent(r)
  <2>1. list = Told(Answers(m))
    BY DEF Answered
  <2> HIDE DEF m, list
  <2> QED BY <1>2, <1>3, <2>1, ToldType, EventTypes
<1>5. Told(Answered(s))' = Append(list, ReplyEvent(r))
  <2>1. Answered(s)' = Append(Answers(m), r)
    BY <1>1, AnswersExchanged DEF Answered
  <2>2. Told(Answered(s))' = Told(Append(Answers(m), r))
    BY <2>1
  <2> HIDE DEF m, list
  <2> QED BY <1>2, <1>4, <2>2, ToldMore
<1> DEFINE more == Append(list, ReplyEvent(r))
<1>6. /\ events \in Seq(Event) /\ more \in Seq(Event)
      /\ \A n \in DOMAIN more : more[n] \in Replies
  <2> HIDE DEF list, m
  <2>1. more \in Seq(Event)
    BY <1>4, EventTypes, AppendProperties
  <2>2. \A n \in DOMAIN more : more[n] \in Replies
    BY <1>4, EventTypes
  <2> QED BY <2>1, <2>2, EventTypes
<1>7. Carry(events, Replies, list, more)
  <2> HIDE DEF list, m
  <2>1. Carry(<<ReplyEvent(r)>>, Replies, list, more)
    BY <1>4, EventTypes, CarryAdd
  <2> HIDE DEF more
  <2>2. Carry(<<IdleEvent>>, Replies, more, more)
    BY <1>6, EventTypes, CarrySkip
  <2> QED BY <2>1, <2>2, EventTypes, CarryBoth
<1> HIDE DEF list, more, m, events
<1>8. StreamTypeOK
  BY DEF IInv, TypeOK
<1>9. ASSUME NEW x \in Stream
      PROVE  /\ stream'[x].on = stream[x].on
             /\ stream[x].on = s => stream'[x] = Push(x, events)
             /\ stream[x].on # s => stream'[x] = stream[x]
  <2>1. stream'[x] = IF stream[x].on = s THEN Push(x, events) ELSE stream[x]
    BY DEF Answering, Send, events
  <2> QED BY <1>6, <1>8, <2>1, PushKeeps
<1>10. ASSUME NEW x \in Stream, Open(x)', Live(stream[x].on)'
       PROVE  StreamShowsLatest(stream[x], Replies, Told(Answered(stream[x].on)))'
  <2>1. Open(x) /\ Live(stream[x].on) /\ stream[x].on \in Session
    BY <1>8, <1>9, <1>10 DEF Answering, Open, Live, StreamTypeOK, StreamState
  <2>2. StreamShowsLatest(stream[x], Replies, Told(Answered(stream[x].on)))
    BY <2>1 DEF IInv, StreamsFollowHistory
  <2>3. CASE stream[x].on = s
    <3>1. StreamShowsLatest(stream[x], Replies, list)
      BY <2>2, <2>3 DEF list
    <3>2. StreamShowsLatest(stream'[x], Replies, more)
      BY <1>6, <1>7, <1>8, <1>9, <2>3, <3>1, PushShows
    <3> QED BY <1>5, <1>9, <2>3, <3>2 DEF more
  <2>4. CASE stream[x].on # s
    <3>1. stream'[x] = stream[x] /\ chat'[stream[x].on] = chat[stream[x].on]
      BY <1>9, <2>1, <2>4 DEF Answering
    <3>2. Told(Answered(stream[x].on))' = Told(Answered(stream[x].on))
      BY <3>1 DEF Answered
    <3> QED BY <2>2, <3>1, <3>2
  <2> QED BY <2>3, <2>4
<1>11. GivenOut'
  BY <1>9 DEF IInv, GivenOut, Answering, Open, Live
<1> QED BY <1>10, <1>11 DEF StreamsFollowHistory

LEMMA UpdateChatStep ==
  ASSUME IInv, NEW r \in Request, UpdateChat(r)
  PROVE  IInv'
<1>1. CASE Kept
  BY <1>1, KeptIInv
<1>2. CASE \E s \in Session : Answering(r, s)
  BY <1>2, UpdateChatCases, AnsweringProvenance, AnsweringHistories, AnsweringStreams
     DEF IInv
<1> QED BY <1>1, <1>2, UpdateChatCases

-----------------------------------------------------------------------------

LEMMA NextIInv == IInv /\ [Next]_vars => IInv'
<1> SUFFICES ASSUME IInv, [Next]_vars PROVE IInv'
  OBVIOUS
<1>1. CASE UNCHANGED vars
  BY <1>1 DEF vars, IInv, TypeOK, GateTypeOK, StreamTypeOK, GivenOut, Provenance,
              AllPaired, Once, StreamsFollowHistory, Live, Open, Answered, WrittenBy
<1>2. CASE Next
  BY <1>2, RequestsStep, RunChatCommandStep, UpdateChatStep, EnvironmentStep,
     KeptIInv DEF Next
<1> QED BY <1>1, <1>2

\* The state keeps its type; in particular no stream is ever more than the
\* channel's capacity behind.
THEOREM TypeCorrect == Spec => []TypeOK
<1>1. IInv => TypeOK
  BY DEF IInv
<1> QED BY InitIInv, NextIInv, <1>1, PTL DEF Spec

\* Every message in a session comes from a request for the session's own
\* instance and owner (send_session_message looks the session up only after
\* the chat command has run).
THEOREM OwnersWrite == Spec => []MessagesFromOwner
<1>1. IInv => MessagesFromOwner
  BY DEF IInv, Provenance, WrittenBy, MessagesFromOwner, Matches
<1> QED BY InitIInv, NextIInv, <1>1, PTL DEF Spec

\* Every history is a list of exchanges, and no request is answered twice
\* (update_chat appends a message and its answer at once).
THEOREM HistoriesPaired == Spec => []HistoryIsPaired
<1>1. ASSUME IInv PROVE HistoryIsPaired
  <2>1. ASSUME NEW s \in Session, NEW t \in Session, Live(s), Live(t),
               NEW n \in DOMAIN Answered(s), NEW l \in DOMAIN Answered(t),
               Answered(s)[n] = Answered(t)[l]
        PROVE  s = t /\ n = l
    <3>1. /\ chat[s].messages \in Messages /\ Paired(chat[s].messages)
          /\ chat[t].messages \in Messages /\ Paired(chat[t].messages)
      BY <1>1, <2>1, HistoryType DEF IInv, AllPaired
    <3>2. /\ 2 * n \in DOMAIN chat[s].messages /\ 2 * l \in DOMAIN chat[t].messages
          /\ chat[s].messages[2 * n] = chat[t].messages[2 * l]
      BY <2>1, <3>1, AnswersOf DEF Answered
    <3>3. s = t /\ 2 * n = 2 * l
      BY <1>1, <2>1, <3>2 DEF IInv, Once
    <3>4. n \in Nat /\ l \in Nat
      BY <3>1, AnswersOf, LenProperties DEF Answered
    <3> QED BY <3>3, <3>4
  <2> QED BY <1>1, <2>1 DEF IInv, AllPaired, HistoryIsPaired
<1> QED BY InitIInv, NextIInv, <1>1, PTL DEF Spec

\* Every connected stream, and the queue of one that has lagged, shows the
\* latest answers of its session in the history's order.
THEOREM StreamsFollow == Spec => []StreamsFollowHistory
<1>1. IInv => StreamsFollowHistory
  BY DEF IInv
<1> QED BY InitIInv, NextIInv, <1>1, PTL DEF Spec

-----------------------------------------------------------------------------
(* A session is a log of answers                                             *)

\* A session s begins.
Opens(s) ==
    /\ s \notin born /\ born' = born \cup {s}
    /\ Live(s)' /\ chat'[s].messages = <<>>
    /\ \A t \in Session \ {s} : chat'[t] = chat[t]

\* Some sessions, or none, come to their end.
Closes(closed) ==
    /\ closed \subseteq born /\ born' = born
    /\ \A s \in Session :
        /\ Live(s)' <=> Live(s) /\ s \notin closed
        /\ Live(s)' => chat'[s].messages = chat[s].messages

LEMMA NothingCloses ==
  ASSUME TypeOK, UNCHANGED <<chat, born>>
  PROVE  \E closed \in SUBSET Session : Closes(closed)
<1>1. Closes({})
  BY DEF Closes, Live, TypeOK
<1> QED BY <1>1

\* What each step does to the sessions.
LEMMA NextCases ==
  ASSUME IInv, [Next]_vars
  PROVE  \/ \E s \in Session : Opens(s)
         \/ \E s \in Session, r \in Request : Answering(r, s)
         \/ \E closed \in SUBSET Session : Closes(closed)
<1> USE DEF IInv
<1>1. ASSUME NEW k \in Token, NEW i \in Id, NEW s \in Session, Requests(k, i, s)
      PROVE  Opens(s) \/ \E closed \in SUBSET Session : Closes(closed)
  <2>1. CASE CreateChat(k, i, s)
    <3> DEFINE c == [scope |-> i, owner |-> OwnerOf[i], title |-> NewChat, messages |-> <<>>]
    <3>1. c \in Chat /\ c.messages = <<>>
      BY GateAssumption, ChatAssumption DEF Chat
    <3>2. /\ chat' = [chat EXCEPT ![s] = c]
          /\ s \notin born /\ born' = born \cup {s}
      BY <2>1 DEF CreateChat
    <3> HIDE DEF c
    <3> QED BY <3>1, <3>2, ChatAssumption DEF Opens, Live, TypeOK
  <2>2. CASE DeleteChat(k, i, s)
    <3>1. Closes({s})
      BY <2>2 DEF DeleteChat, Closes, Live, TypeOK, GivenOut
    <3> QED BY <3>1
  <2>3. CASE \E title \in Title : RenameChat(k, i, s, title)
    <3> PICK title \in Title : RenameChat(k, i, s, title)
      BY <2>3
    <3> DEFINE c == [chat[s] EXCEPT !.title = title]
    <3>1. chat[s] \in Chat /\ chat' = [chat EXCEPT ![s] = c] /\ born' = born
      BY DEF RenameChat, TypeOK
    <3>2. c \in Chat /\ c.messages = chat[s].messages
      BY <3>1 DEF Chat
    <3> HIDE DEF c
    <3>3. Closes({})
      BY <3>1, <3>2, ChatAssumption DEF Closes, Live, TypeOK
    <3> QED BY <3>3
  <2>4. CASE \/ AbortMessage(k, i, s)
             \/ \E r \in Request : BeginSend(r, k, i, s)
             \/ \E x \in Stream : OpenStream(x, k, i, s)
    BY <2>4, NothingCloses DEF AbortMessage, BeginSend, OpenStream
  <2> QED BY <1>1, <2>1, <2>2, <2>3, <2>4 DEF Requests
<1>2. ASSUME NEW r \in Request, UpdateChat(r)
      PROVE  \/ \E s \in Session : Answering(r, s)
             \/ \E closed \in SUBSET Session : Closes(closed)
  <2>1. (\E s \in Session : Answering(r, s)) \/ UNCHANGED <<chat, born>>
    BY <1>2, UpdateChatCases
  <2> QED BY <2>1, NothingCloses
<1>3. CASE Restart
  <2>1. Closes(born)
    BY <1>3 DEF Restart, Closes, Live, TypeOK, GivenOut
  <2> QED BY <2>1 DEF TypeOK
<1>4. CASE \/ \E r \in Request : RunChatCommand(r)
           \/ \E x \in Stream : Streams(x) \/ LeaveStream(x)
           \/ Auth
           \/ UNCHANGED vars
  BY <1>4, NothingCloses
     DEF RunChatCommand, Streams, ReadStream, EndStream, LeaveStream, Auth, vars
<1> QED BY <1>1, <1>2, <1>3, <1>4 DEF Next

\* The log that session s is.
LogOf(s) == IF Live(s) THEN Answered(s) ELSE IF s \in born THEN Gone ELSE NotYet

LEMMA LogType ==
  ASSUME IInv, NEW s \in Session
  PROVE  /\ Live(s) => s \in born /\ LogOf(s) \notin {NotYet, Gone}
         /\ s \in born => LogOf(s) # NotYet
  BY ListType, PromisesAssumption DEF IInv, LogOf, GivenOut

LEMMA StepOfLog ==
  ASSUME IInv, [Next]_vars
  PROVE  Log!Next
<1> DEFINE L == [s \in Session |-> LogOf(s)]
<1>1. CASE \E s \in Session : Opens(s)
  <2> PICK s \in Session : Opens(s)
    BY <1>1
  <2>1. L[s] = NotYet
    BY LogType DEF Opens, LogOf
  <2>2. LogOf(s)' = <<>>
    BY NoMessages DEF Opens, LogOf, Answered
  <2>3. \A t \in Session \ {s} : LogOf(t)' = LogOf(t)
    BY DEF Opens, LogOf, Live, Answered
  <2>4. L' = [L EXCEPT ![s] = <<>>]
    BY <2>2, <2>3
  <2>5. Log!OpenLog(s)
    BY <2>1, <2>4 DEF Log!OpenLog, LogOf
  <2> QED BY <2>5 DEF Log!Next
<1>2. CASE \E s \in Session, r \in Request : Answering(r, s)
  <2> PICK s \in Session, r \in Request : Answering(r, s)
    BY <1>2
  <2>1. chat[s].messages \in Messages /\ Paired(chat[s].messages)
    BY HistoryType DEF IInv, AllPaired, Answering
  <2>2. LogOf(s) = Answered(s) /\ LogOf(s)' = Append(Answered(s), r)
    BY <2>1, AnswersExchanged DEF Answering, LogOf, Answered
  <2>3. \A t \in Session \ {s} : LogOf(t)' = LogOf(t)
    BY DEF Answering, LogOf, Live, Answered
  <2>4. L' = [L EXCEPT ![s] = Append(@, r)]
    BY <2>2, <2>3
  <2>5. L[s] \notin {NotYet, Gone}
    BY LogType DEF Answering
  <2>6. ASSUME NEW t \in Session, L[t] \notin {NotYet, Gone}, NEW n \in DOMAIN L[t]
        PROVE  L[t][n] # r
    <3>1. Live(t) /\ L[t] = Answers(chat[t].messages)
      BY <2>6 DEF LogOf, Answered
    <3>2. chat[t].messages \in Messages /\ Paired(chat[t].messages)
      BY <3>1, HistoryType DEF IInv, AllPaired
    <3>3. /\ 2 * n \in DOMAIN chat[t].messages
          /\ chat[t].messages[2 * n] = [role |-> "assistant", of |-> L[t][n]]
      BY <2>6, <3>1, <3>2, AnswersOf
    <3>4. chat[t].messages[2 * n].of # r
      BY <3>1, <3>3, AnsweringProvenance
    <3> HIDE DEF L
    <3> QED BY <3>3, <3>4
  <2>7. \A t \in Session : r \notin Log!Entries(t)
    BY <2>6 DEF Log!Entries, LogOf
  <2>8. Log!Answer(s, r)
    BY <2>4, <2>5, <2>7 DEF Log!Answer, LogOf
  <2> QED BY <2>8 DEF Log!Next
<1>3. CASE \E closed \in SUBSET Session : Closes(closed)
  <2> PICK closed \in SUBSET Session : Closes(closed)
    BY <1>3
  <2>1. \A s \in closed : L[s] # NotYet
    BY LogType DEF Closes
  <2>2. \A s \in Session : LogOf(s)' = IF s \in closed THEN Gone ELSE LogOf(s)
    BY DEF Closes, LogOf, Answered
  <2>3. L' = [s \in Session |-> IF s \in closed THEN Gone ELSE L[s]]
    BY <2>2
  <2>4. Log!CloseLog(closed)
    BY <2>1, <2>3 DEF Log!CloseLog, LogOf
  <2> QED BY <2>4 DEF Log!Next
<1> QED BY <1>1, <1>2, <1>3, NextCases

\* A session is a log of answers: it grows by whole answers, never shrinks or
\* changes, and does not come back once it is deleted or lost in a restart
\* (update_chat finds no session and the send fails).
THEOREM ChatImplementsLog == Spec => ImplementsChatLog
<1>1. Init => Log!Init
  BY DEF Init, Log!Init, Live
<1>2. IInv /\ [Next]_vars => Log!Next
  BY StepOfLog
<1> QED BY InitIInv, NextIInv, <1>1, <1>2, PTL DEF Spec, ImplementsChatLog, Log!Spec

=============================================================================
