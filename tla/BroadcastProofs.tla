-------------------------- MODULE BroadcastProofs --------------------------
(***************************************************************************)
(* Lemmas about event channels, for the chat and the terminal routes: the  *)
(* streams keep their type, and what it takes that they go on showing the  *)
(* latest part of a list of events that grows.                             *)
(***************************************************************************)
EXTENDS Broadcast, SequenceTheorems, TLAPS

(* Types *)

\* A queue never holds more than the channel does.
LEMMA PushType ==
  ASSUME StreamTypeOK, NEW x \in Stream, NEW events \in Seq(Event)
  PROVE  /\ Push(x, events) \in StreamState
         /\ Len(Push(x, events).queue) <= Capacity
<1> DEFINE all == stream[x].queue \o events
           over == IF Len(all) > Capacity THEN Len(all) - Capacity ELSE 0
           kept == SubSeq(all, over + 1, Len(all))
<1>1. stream[x] \in StreamState
  BY DEF StreamTypeOK
<1>2. all \in Seq(Event) /\ Len(all) \in Nat
  BY <1>1 DEF StreamState
<1>3. over \in Nat /\ over <= Len(all)
  <2> HIDE DEF all
  <2> QED BY <1>2, BroadcastAssumption
<1>4. kept \in Seq(Event) /\ Len(kept) = Len(all) - over
  <2>1. \A i \in over + 1 .. Len(all) : all[i] \in Event
    <3> HIDE DEF over, all
    <3> QED BY <1>2, <1>3
  <2> HIDE DEF over, all
  <2>2. Len(kept) = IF over + 1 <= Len(all) THEN Len(all) - (over + 1) + 1 ELSE 0
    BY <1>2, <1>3, <2>1, SubSeqProperties
  <2>3. kept \in Seq(Event)
    BY <1>2, <1>3, <2>1, SubSeqProperties
  <2> QED BY <1>2, <1>3, <2>2, <2>3
<1>5. Len(kept) <= Capacity
  BY <1>2, <1>4, BroadcastAssumption
<1>6. Push(x, events) = [stream[x] EXCEPT !.queue = kept, !.lagged = @ \/ over > 0]
  BY DEF Push
<1> HIDE DEF all, over, kept
<1>7. (stream[x].lagged \/ over > 0) \in BOOLEAN
  BY <1>1, <1>3 DEF StreamState
<1> QED BY <1>1, <1>4, <1>5, <1>6, <1>7 DEF StreamState

LEMMA PushKeeps ==
  ASSUME StreamTypeOK, NEW x \in Stream, NEW events \in Seq(Event)
  PROVE  Push(x, events).on = stream[x].on
  BY DEF StreamTypeOK, StreamState, Push

LEMMA SendType ==
  ASSUME StreamTypeOK, NEW s \in Session, NEW events \in Seq(Event),
         Send(s, events)
  PROVE  StreamTypeOK'
<1>1. \A x \in Stream : Push(x, events) \in StreamState
                        /\ Len(Push(x, events).queue) <= Capacity
  BY PushType
<1> QED BY <1>1 DEF StreamTypeOK, Send

LEMMA FreshType ==
  ASSUME NEW s \in Session \cup {NoSession}
  PROVE  Fresh(s) \in StreamState /\ Len(Fresh(s).queue) <= Capacity
  BY BroadcastAssumption DEF Fresh, StreamState

LEMMA SubscribeType ==
  ASSUME StreamTypeOK, NEW x \in Stream, NEW s \in Session, Subscribe(x, s)
  PROVE  StreamTypeOK'
  BY FreshType DEF StreamTypeOK, Subscribe

LEMMA DeliverType ==
  ASSUME StreamTypeOK, NEW x \in Stream, Deliver(x)
  PROVE  StreamTypeOK'
<1> DEFINE q == stream[x].queue
           g == stream[x].got
           next == [stream[x] EXCEPT !.queue = Tail(q), !.got = Append(g, Head(q))]
<1>1. /\ stream[x] \in StreamState
      /\ q \in Seq(Event) /\ g \in Seq(Event)
      /\ q # <<>> /\ Len(q) <= Capacity
  BY DEF StreamTypeOK, StreamState, Deliver
<1>2. stream' = [stream EXCEPT ![x] = next]
  BY DEF Deliver, StreamTypeOK
<1> HIDE DEF q, g
<1>3. /\ Head(q) \in Event
      /\ Tail(q) \in Seq(Event)
      /\ Len(Tail(q)) = Len(q) - 1
  BY <1>1, HeadTailProperties
<1>4. Len(Tail(q)) <= Capacity
  BY <1>1, <1>3, LenProperties, BroadcastAssumption
<1>5. Append(g, Head(q)) \in Seq(Event)
  BY <1>1, <1>3, AppendProperties
<1>6. next \in StreamState /\ Len(next.queue) <= Capacity
  BY <1>1, <1>3, <1>4, <1>5 DEF StreamState
<1> HIDE DEF next
<1> QED BY <1>2, <1>6 DEF StreamTypeOK

LEMMA DisconnectType ==
  ASSUME StreamTypeOK, NEW x \in Stream, Disconnect(x)
  PROVE  StreamTypeOK'
  BY FreshType DEF StreamTypeOK, Disconnect, Closed

-----------------------------------------------------------------------------
(* ShowsLatest *)

LEMMA ShowsNothing ==
  ASSUME NEW mine, NEW all
  PROVE  ShowsLatest(<<>>, mine, all)
  BY DEF ShowsLatest

\* The oldest events shown are dropped.
LEMMA ShowsDrop ==
  ASSUME NEW mine, NEW all \in Seq(Event), NEW shown \in Seq(Event),
         NEW d \in 0 .. Len(shown),
         ShowsLatest(shown, mine, all)
  PROVE  ShowsLatest(SubSeq(shown, d + 1, Len(shown)), mine, all)
<1> DEFINE kept == SubSeq(shown, d + 1, Len(shown))
<1>1. /\ Len(shown) \in Nat /\ DOMAIN shown = 1 .. Len(shown)
      /\ DOMAIN all = 1 .. Len(all) /\ Len(all) \in Nat
  OBVIOUS
<1>2. /\ DOMAIN kept = 1 .. (Len(shown) - d)
      /\ \A n \in DOMAIN kept : kept[n] = shown[n + d]
  OBVIOUS
<1>3. \A n \in DOMAIN kept : n + d \in DOMAIN shown
  BY <1>1, <1>2
<1> HIDE DEF kept
<1>4. ASSUME NEW n \in DOMAIN kept, kept[n] \in mine
      PROVE  \E l \in DOMAIN all : kept[n] = all[l]
  BY <1>2, <1>3, <1>4 DEF ShowsLatest
<1>5. ASSUME NEW n \in DOMAIN kept, NEW q \in DOMAIN kept,
             NEW l \in DOMAIN all, NEW k \in DOMAIN all,
             kept[n] = all[l], kept[q] = all[k]
      PROVE  n < q <=> l < k
  <2>1. n + d < q + d <=> l < k
    BY <1>2, <1>3, <1>5 DEF ShowsLatest
  <2> QED BY <1>1, <1>2, <2>1
<1>6. ASSUME NEW n \in DOMAIN kept, NEW l \in DOMAIN all, NEW k \in DOMAIN all,
             kept[n] = all[l], l < k
      PROVE  \E q \in DOMAIN kept : kept[q] = all[k]
  <2>1. shown[n + d] = all[l] /\ n + d \in DOMAIN shown
    BY <1>2, <1>3, <1>6
  <2>2. PICK p \in DOMAIN shown : shown[p] = all[k]
    BY <1>6, <2>1 DEF ShowsLatest
  <2>3. n + d < p
    BY <1>6, <2>1, <2>2 DEF ShowsLatest
  <2>4. p - d \in DOMAIN kept /\ kept[p - d] = all[k]
    BY <1>1, <1>2, <2>2, <2>3
  <2> QED BY <2>4
<1> QED BY <1>4, <1>5, <1>6 DEF ShowsLatest, kept

\* Another event is shown.
LEMMA ShowsSkip ==
  ASSUME NEW mine, NEW all \in Seq(Event), NEW shown \in Seq(Event), NEW w \in Event,
         w \notin mine, \A l \in DOMAIN all : all[l] \in mine,
         ShowsLatest(shown, mine, all)
  PROVE  ShowsLatest(shown \o <<w>>, mine, all)
<1> DEFINE more == shown \o <<w>>
<1>1. /\ Len(shown) \in Nat /\ DOMAIN shown = 1 .. Len(shown)
      /\ DOMAIN more = 1 .. Len(shown) + 1
      /\ \A n \in DOMAIN shown : more[n] = shown[n] /\ n \in DOMAIN more
      /\ more[Len(shown) + 1] = w
  OBVIOUS
<1>2. \A n \in DOMAIN more : n \in DOMAIN shown \/ n = Len(shown) + 1
  BY <1>1
<1> HIDE DEF more
<1>3. \A n \in DOMAIN more, l \in DOMAIN all : more[n] = all[l] => n \in DOMAIN shown
  BY <1>1, <1>2
<1>4. ASSUME NEW n \in DOMAIN more, more[n] \in mine
      PROVE  \E l \in DOMAIN all : more[n] = all[l]
  BY <1>1, <1>2, <1>4 DEF ShowsLatest
<1>5. ASSUME NEW n \in DOMAIN more, NEW q \in DOMAIN more,
             NEW l \in DOMAIN all, NEW k \in DOMAIN all,
             more[n] = all[l], more[q] = all[k]
      PROVE  n < q <=> l < k
  BY <1>1, <1>3, <1>5 DEF ShowsLatest
<1>6. ASSUME NEW n \in DOMAIN more, NEW l \in DOMAIN all, NEW k \in DOMAIN all,
             more[n] = all[l], l < k
      PROVE  \E q \in DOMAIN more : more[q] = all[k]
  <2>1. n \in DOMAIN shown /\ shown[n] = all[l]
    BY <1>1, <1>3, <1>6
  <2>2. PICK q \in DOMAIN shown : shown[q] = all[k]
    BY <1>6, <2>1 DEF ShowsLatest
  <2>3. q \in DOMAIN more /\ more[q] = all[k]
    BY <1>1, <2>2
  <2> QED BY <2>3
<1>7. ShowsLatest(more, mine, all)
  BY <1>4, <1>5, <1>6 DEF ShowsLatest
<1> QED BY <1>7 DEF more

\* A new event is put on the list and shown.
LEMMA ShowsAdd ==
  ASSUME NEW mine, NEW all \in Seq(Event), NEW shown \in Seq(Event), NEW v \in Event,
         v \in mine, \A l \in DOMAIN all : all[l] # v,
         ShowsLatest(shown, mine, all)
  PROVE  ShowsLatest(shown \o <<v>>, mine, Append(all, v))
<1> DEFINE more == shown \o <<v>>
           list == Append(all, v)
<1>1. /\ Len(shown) \in Nat /\ DOMAIN shown = 1 .. Len(shown)
      /\ DOMAIN more = 1 .. Len(shown) + 1
      /\ \A n \in DOMAIN shown : more[n] = shown[n] /\ n \in DOMAIN more
      /\ more[Len(shown) + 1] = v
  OBVIOUS
<1>2. /\ Len(all) \in Nat /\ DOMAIN all = 1 .. Len(all)
      /\ DOMAIN list = 1 .. Len(all) + 1
      /\ \A l \in DOMAIN all : list[l] = all[l] /\ l \in DOMAIN list
      /\ list[Len(all) + 1] = v
  OBVIOUS
<1> HIDE DEF more, list
<1>3. /\ \A n \in DOMAIN more : n \in DOMAIN shown \/ n = Len(shown) + 1
      /\ \A l \in DOMAIN list : l \in DOMAIN all \/ l = Len(all) + 1
  BY <1>1, <1>2
<1>4. \A n \in DOMAIN shown : shown[n] # v
  BY DEF ShowsLatest
<1>5. \A n \in DOMAIN more, l \in DOMAIN list : more[n] = list[l] =>
        \/ n \in DOMAIN shown /\ l \in DOMAIN all /\ shown[n] = all[l]
        \/ n = Len(shown) + 1 /\ l = Len(all) + 1
  BY <1>1, <1>2, <1>3, <1>4
<1>6. ASSUME NEW n \in DOMAIN more, more[n] \in mine
      PROVE  \E l \in DOMAIN list : more[n] = list[l]
  <2>1. CASE n \in DOMAIN shown
    BY <1>1, <1>2, <1>6, <2>1 DEF ShowsLatest
  <2>2. CASE n = Len(shown) + 1
    BY <1>1, <1>2, <2>2
  <2> QED BY <1>3, <2>1, <2>2
<1>7. ASSUME NEW n \in DOMAIN more, NEW q \in DOMAIN more,
             NEW l \in DOMAIN list, NEW k \in DOMAIN list,
             more[n] = list[l], more[q] = list[k]
      PROVE  n < q <=> l < k
  <2>1. CASE /\ n \in DOMAIN shown /\ l \in DOMAIN all /\ shown[n] = all[l]
             /\ q \in DOMAIN shown /\ k \in DOMAIN all /\ shown[q] = all[k]
    BY <2>1 DEF ShowsLatest
  <2>2. CASE \/ n = Len(shown) + 1 /\ l = Len(all) + 1
             \/ q = Len(shown) + 1 /\ k = Len(all) + 1
    BY <1>1, <1>2, <1>5, <1>7, <2>2
  <2> QED BY <1>5, <1>7, <2>1, <2>2
<1>8. ASSUME NEW n \in DOMAIN more, NEW l \in DOMAIN list, NEW k \in DOMAIN list,
             more[n] = list[l], l < k
      PROVE  \E q \in DOMAIN more : more[q] = list[k]
  <2>1. l \in DOMAIN all /\ n \in DOMAIN shown /\ shown[n] = all[l]
    BY <1>2, <1>5, <1>8
  <2>2. CASE k \in DOMAIN all
    <3>1. PICK q \in DOMAIN shown : shown[q] = all[k]
      BY <1>8, <2>1, <2>2 DEF ShowsLatest
    <3> QED BY <1>1, <1>2, <2>2, <3>1
  <2>3. CASE k = Len(all) + 1
    BY <1>1, <1>2, <2>3
  <2> QED BY <1>3, <2>2, <2>3
<1> QED BY <1>6, <1>7, <1>8 DEF ShowsLatest, more, list

-----------------------------------------------------------------------------
(* Streams *)

\* Events that, shown after what is the latest part of list all, make it the
\* latest part of list new.
Carry(events, mine, all, new) ==
    \A shown \in Seq(Event) :
        ShowsLatest(shown, mine, all) => ShowsLatest(shown \o events, mine, new)

LEMMA CarrySkip ==
  ASSUME NEW mine, NEW all \in Seq(Event), NEW w \in Event,
         w \notin mine, \A l \in DOMAIN all : all[l] \in mine
  PROVE  Carry(<<w>>, mine, all, all)
  BY ShowsSkip DEF Carry

LEMMA CarryAdd ==
  ASSUME NEW mine, NEW all \in Seq(Event), NEW v \in Event,
         v \in mine, \A l \in DOMAIN all : all[l] # v
  PROVE  Carry(<<v>>, mine, all, Append(all, v))
  BY ShowsAdd DEF Carry

LEMMA CarryBoth ==
  ASSUME NEW mine, NEW all, NEW new, NEW v \in Event, NEW w \in Event,
         Carry(<<v>>, mine, all, new), Carry(<<w>>, mine, new, new)
  PROVE  Carry(<<v, w>>, mine, all, new)
<1> SUFFICES ASSUME NEW shown \in Seq(Event), ShowsLatest(shown, mine, all)
             PROVE  ShowsLatest(shown \o <<v, w>>, mine, new)
  BY DEF Carry
<1>1. /\ <<v>> \in Seq(Event) /\ <<w>> \in Seq(Event)
      /\ shown \o <<v>> \in Seq(Event)
  OBVIOUS
<1>2. ShowsLatest((shown \o <<v>>) \o <<w>>, mine, new)
  BY <1>1 DEF Carry
<1>3. <<v>> \o <<w>> = <<v, w>>
  <2>1. /\ <<v>> \o <<w>> \in Seq(Event) /\ <<v, w>> \in Seq(Event)
        /\ Len(<<v>> \o <<w>>) = 2 /\ Len(<<v, w>>) = 2
        /\ \A n \in 1 .. 2 : (<<v>> \o <<w>>)[n] = <<v, w>>[n]
    BY <1>1, ConcatProperties
  <2> QED BY <2>1, SeqEqual
<1>4. (shown \o <<v>>) \o <<w>> = shown \o (<<v>> \o <<w>>)
  BY <1>1, ConcatAssociative
<1> QED BY <1>2, <1>3, <1>4

\* Push drops the oldest events when the channel is full.
LEMMA PushShows ==
  ASSUME StreamTypeOK, NEW x \in Stream, NEW events \in Seq(Event),
         NEW mine, NEW all, NEW new \in Seq(Event),
         Carry(events, mine, all, new),
         StreamShowsLatest(stream[x], mine, all)
  PROVE  StreamShowsLatest(Push(x, events), mine, new)
<1> DEFINE q == stream[x].queue
           g == stream[x].got
           more == q \o events
           over == IF Len(more) > Capacity THEN Len(more) - Capacity ELSE 0
           kept == SubSeq(more, over + 1, Len(more))
<1>1. /\ stream[x] \in StreamState
      /\ q \in Seq(Event) /\ g \in Seq(Event)
  BY DEF StreamTypeOK, StreamState
<1>2. Push(x, events) = [stream[x] EXCEPT !.queue = kept, !.lagged = @ \/ over > 0]
  BY DEF Push
<1>3. /\ Push(x, events).queue = kept
      /\ Push(x, events).got = g
      /\ ~Push(x, events).lagged => ~stream[x].lagged /\ ~(over > 0)
  <2> HIDE DEF kept, over
  <2> QED BY <1>1, <1>2 DEF StreamState
<1>4. /\ more \in Seq(Event) /\ Len(more) \in Nat
      /\ over \in 0 .. Len(more)
      /\ ShowsLatest(more, mine, new)
  <2>1. more \in Seq(Event) /\ Len(more) \in Nat
    BY <1>1
  <2>2. ShowsLatest(more, mine, new)
    BY <1>1 DEF StreamShowsLatest, Carry
  <2> HIDE DEF more
  <2> QED BY <2>1, <2>2, BroadcastAssumption
<1>5. ShowsLatest(kept, mine, new)
  <2> HIDE DEF more, over
  <2> QED BY <1>4, ShowsDrop
<1>6. ASSUME ~stream[x].lagged, ~(over > 0)
      PROVE  ShowsLatest(g \o kept, mine, new)
  <2>1. g \o q \in Seq(Event) /\ ShowsLatest(g \o q, mine, all)
    BY <1>1, <1>6 DEF StreamShowsLatest
  <2>2. ShowsLatest((g \o q) \o events, mine, new)
    BY <2>1 DEF Carry
  <2>3. kept = more
    <3>1. over = 0
      BY <1>4, <1>6
    <3> HIDE DEF more
    <3> QED BY <1>4, <3>1
  <2>4. (g \o q) \o events = g \o more
    <3> HIDE DEF q, g, over
    <3> QED BY <1>1, ConcatAssociative
  <2> QED BY <2>2, <2>3, <2>4
<1> HIDE DEF kept, over
<1> QED BY <1>3, <1>5, <1>6 DEF StreamShowsLatest

LEMMA DeliverShows ==
  ASSUME StreamTypeOK, NEW x \in Stream, Deliver(x),
         NEW mine, NEW all \in Seq(Event),
         StreamShowsLatest(stream[x], mine, all)
  PROVE  StreamShowsLatest(stream'[x], mine, all)
<1> DEFINE q == stream[x].queue
           g == stream[x].got
           next == [stream[x] EXCEPT !.queue = Tail(q), !.got = Append(g, Head(q))]
<1>1. /\ stream[x] \in StreamState
      /\ q \in Seq(Event) /\ g \in Seq(Event)
      /\ q # <<>>
  BY DEF StreamTypeOK, StreamState, Deliver
<1>2. stream'[x] = next
  BY DEF Deliver, StreamTypeOK
<1>3. /\ next.queue = Tail(q) /\ next.got = Append(g, Head(q))
      /\ next.lagged = stream[x].lagged
  <2> HIDE DEF q, g
  <2> QED BY <1>1 DEF StreamState
<1>4. Tail(q) = SubSeq(q, 1 + 1, Len(q)) /\ 1 \in 0 .. Len(q)
  <2> HIDE DEF q
  <2> QED BY <1>1
<1>5. ShowsLatest(Tail(q), mine, all)
  <2>1. ShowsLatest(q, mine, all)
    BY DEF StreamShowsLatest
  <2> HIDE DEF q
  <2>2. ShowsLatest(SubSeq(q, 1 + 1, Len(q)), mine, all)
    BY <1>1, <1>4, <2>1, ShowsDrop
  <2> QED BY <1>4, <2>2
<1>6. Append(g, Head(q)) \o Tail(q) = g \o q
  <2> HIDE DEF q, g
  <2>1. Head(q) \in Event /\ Tail(q) \in Seq(Event) /\ <<Head(q)>> \in Seq(Event)
    BY <1>1, HeadTailProperties
  <2>2. Append(g, Head(q)) = g \o <<Head(q)>>
    BY <1>1, <2>1, AppendIsConcat
  <2>3. <<Head(q)>> \o Tail(q) = q
    BY <1>1, <2>1
  <2>4. (g \o <<Head(q)>>) \o Tail(q) = g \o (<<Head(q)>> \o Tail(q))
    BY <1>1, <2>1, ConcatAssociative
  <2> QED BY <2>2, <2>3, <2>4
<1> HIDE DEF next
<1> QED BY <1>2, <1>3, <1>5, <1>6 DEF StreamShowsLatest

LEMMA FreshShows ==
  ASSUME NEW s, NEW mine, NEW all
  PROVE  StreamShowsLatest(Fresh(s), mine, all)
<1>1. <<>> \o <<>> = <<>>
  OBVIOUS
<1> QED BY <1>1, ShowsNothing DEF StreamShowsLatest, Fresh

-----------------------------------------------------------------------------
(* Streams that were sent nothing but some events *)

Holds(state, events) == state.got \in Seq(events) /\ state.queue \in Seq(events)

LEMMA HoldsMore ==
  ASSUME NEW state, NEW some, NEW more, some \subseteq more, Holds(state, some)
  PROVE  Holds(state, more)
  BY SeqMonotonic DEF Holds

LEMMA HoldsElements ==
  ASSUME NEW state, NEW S, Holds(state, S)
  PROVE  \A n \in DOMAIN (state.got \o state.queue) : (state.got \o state.queue)[n] \in S
<1> DEFINE g == state.got
           q == state.queue
<1>1. g \in Seq(S) /\ q \in Seq(S)
  BY DEF Holds
<1> HIDE DEF g, q
<1>2. g \o q \in Seq(S)
  BY <1>1, ConcatProperties
<1>3. \A n \in DOMAIN (g \o q) : (g \o q)[n] \in S
  BY <1>2, ElementOfSeq, LenProperties
<1> QED BY <1>3 DEF g, q

LEMMA FreshHolds ==
  ASSUME NEW s, NEW S
  PROVE  Holds(Fresh(s), S)
  BY DEF Holds, Fresh

LEMMA PushHolds ==
  ASSUME StreamTypeOK, NEW x \in Stream, NEW S, NEW events \in Seq(S),
         Holds(stream[x], S)
  PROVE  Holds(Push(x, events), S)
<1> DEFINE q == stream[x].queue
           more == q \o events
           over == IF Len(more) > Capacity THEN Len(more) - Capacity ELSE 0
           kept == SubSeq(more, over + 1, Len(more))
<1>1. stream[x] \in StreamState /\ q \in Seq(S) /\ stream[x].got \in Seq(S)
  BY DEF StreamTypeOK, Holds
<1>2. Push(x, events) = [stream[x] EXCEPT !.queue = kept, !.lagged = @ \/ over > 0]
  BY DEF Push
<1>3. Push(x, events).queue = kept /\ Push(x, events).got = stream[x].got
  <2> HIDE DEF kept, over
  <2> QED BY <1>1, <1>2 DEF StreamState
<1>4. more \in Seq(S) /\ Len(more) \in Nat
  BY <1>1, ConcatProperties, LenProperties
<1>5. over \in 0 .. Len(more)
  <2> HIDE DEF more
  <2> QED BY <1>4, BroadcastAssumption
<1>6. \A n \in over + 1 .. Len(more) : more[n] \in S
  <2> HIDE DEF more, over
  <2>1. \A n \in over + 1 .. Len(more) : n \in 1 .. Len(more)
    BY <1>4, <1>5
  <2> QED BY <1>4, <2>1, ElementOfSeq
<1>7. kept \in Seq(S)
  <2> HIDE DEF more, over
  <2> QED BY <1>4, <1>5, <1>6, SubSeqProperties
<1> QED BY <1>1, <1>3, <1>7 DEF Holds

LEMMA DeliverHolds ==
  ASSUME StreamTypeOK, NEW x \in Stream, Deliver(x), NEW S, Holds(stream[x], S)
  PROVE  Holds(stream'[x], S)
<1> DEFINE q == stream[x].queue
           g == stream[x].got
           next == [stream[x] EXCEPT !.queue = Tail(q), !.got = Append(g, Head(q))]
<1>1. /\ stream[x] \in StreamState
      /\ q \in Seq(S) /\ g \in Seq(S)
      /\ q # <<>>
  BY DEF StreamTypeOK, Deliver, Holds
<1>2. stream'[x] = next
  BY DEF Deliver, StreamTypeOK
<1>3. next.queue = Tail(q) /\ next.got = Append(g, Head(q))
  <2> HIDE DEF q, g
  <2> QED BY <1>1 DEF StreamState
<1>4. Tail(q) \in Seq(S) /\ Append(g, Head(q)) \in Seq(S)
  <2> HIDE DEF q, g
  <2> QED BY <1>1, HeadTailProperties, AppendProperties
<1> HIDE DEF next, q, g
<1> QED BY <1>2, <1>3, <1>4 DEF Holds

\* A stream that was sent nothing of a list.
LEMMA HoldsNone ==
  ASSUME NEW state, NEW S, Holds(state, S),
         NEW mine, \A e \in S : e \notin mine,
         NEW all, \A l \in DOMAIN all : all[l] \in mine
  PROVE  StreamShowsLatest(state, mine, all)
<1>1. ASSUME NEW shown, \A n \in DOMAIN shown : shown[n] \in S
      PROVE  ShowsLatest(shown, mine, all)
  BY <1>1 DEF ShowsLatest
<1>2. \A n \in DOMAIN state.queue : state.queue[n] \in S
  BY ElementOfSeq, LenProperties DEF Holds
<1> QED BY <1>1, <1>2, HoldsElements DEF StreamShowsLatest

=============================================================================
