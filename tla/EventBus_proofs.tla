--------------------------- MODULE EventBus_proofs ---------------------------
(***************************************************************************)
(* The event bus for any number of clients, channels and events: types,    *)
(* the agreement of its two records of who listens to what, and that it    *)
(* implements the event feed.                                              *)
(***************************************************************************)
EXTENDS EventBus, SequenceTheorems, TLAPS

\* A connection that is over has left nothing behind.
Gone(c) == queue[c] = << >> /\ sending[c] = Nothing /\ received[c] = << >>

IInv == BusTypeOK /\ ChannelsAgree /\ \A c \in Clients : state[c] = "off" => Gone(c)

USE QueueAssumption, NothingAssumption

-----------------------------------------------------------------------------
LEMMA InitHolds == BusInit => IInv
  BY DEF BusInit, IInv, BusTypeOK, ChannelsAgree, Gone, Numbers

LEMMA TypeStep == BusTypeOK /\ [BusNext]_busVars => BusTypeOK'
<1> SUFFICES ASSUME BusTypeOK, [BusNext]_busVars PROVE BusTypeOK'
  OBVIOUS
<1> USE DEF BusTypeOK
<1>1. CASE UNCHANGED busVars
  BY <1>1 DEF busVars
<1>2. ASSUME NEW c \in Clients, Connect(c) PROVE BusTypeOK'
  BY <1>2 DEF Connect
<1>3. ASSUME NEW c \in Clients, NEW channels \in SUBSET Channels, Subscribe(c, channels)
      PROVE  BusTypeOK'
  BY <1>3 DEF Subscribe
<1>4. ASSUME NEW c \in Clients, NEW channels \in SUBSET Channels, Unsubscribe(c, channels)
      PROVE  BusTypeOK'
  BY <1>4 DEF Unsubscribe
<1>5. ASSUME NEW channel \in Channels, Publish(channel) PROVE BusTypeOK'
  <2>1. published' \in Numbers /\ published' \in 0..MaxEvents
    BY <1>5 DEF Publish, Numbers
  <2>2. ASSUME NEW c \in Clients
        PROVE  queue'[c] \in Seq(Numbers) /\ Len(queue'[c]) <= MaxQueue
    BY <1>5, <2>1 DEF Publish, Full
  <2>3. queue' \in [Clients -> Seq(Numbers)]
    BY <1>5, <2>2 DEF Publish
  <2> QED
    BY <1>5, <2>1, <2>2, <2>3 DEF Publish
<1>6. ASSUME NEW c \in Clients, PushTakes(c) PROVE BusTypeOK'
  <2>1. Head(queue[c]) \in Numbers /\ Tail(queue[c]) \in Seq(Numbers)
        /\ Len(Tail(queue[c])) <= MaxQueue
    BY <1>6 DEF PushTakes
  <2> QED
    BY <1>6, <2>1 DEF PushTakes
<1>7. ASSUME NEW c \in Clients, PushSent(c) PROVE BusTypeOK'
  BY <1>7 DEF PushSent
<1>8. ASSUME NEW c \in Clients, TaskOver(c) PROVE BusTypeOK'
  BY <1>8 DEF TaskOver
<1>9. ASSUME NEW c \in Clients, Cleanup(c) PROVE BusTypeOK'
  BY <1>9 DEF Cleanup
<1> QED
  BY <1>1, <1>2, <1>3, <1>4, <1>5, <1>6, <1>7, <1>8, <1>9 DEF BusNext

LEMMA AgreeStep == BusTypeOK /\ ChannelsAgree /\ [BusNext]_busVars => ChannelsAgree'
<1> SUFFICES ASSUME BusTypeOK, ChannelsAgree, [BusNext]_busVars PROVE ChannelsAgree'
  OBVIOUS
<1> USE DEF BusTypeOK, ChannelsAgree
<1>1. ASSUME NEW c \in Clients, Connect(c) PROVE ChannelsAgree'
  BY <1>1 DEF Connect
<1>2. ASSUME NEW c \in Clients, NEW channels \in SUBSET Channels, Subscribe(c, channels)
      PROVE  ChannelsAgree'
  BY <1>2 DEF Subscribe
<1>3. ASSUME NEW c \in Clients, NEW channels \in SUBSET Channels, Unsubscribe(c, channels)
      PROVE  ChannelsAgree'
  BY <1>3 DEF Unsubscribe
<1>4. ASSUME NEW c \in Clients, Cleanup(c) PROVE ChannelsAgree'
  BY <1>4 DEF Cleanup
<1>5. CASE UNCHANGED <<subscribers, subscribed>>
  BY <1>5
<1> QED
  BY <1>1, <1>2, <1>3, <1>4, <1>5 DEF BusNext, busVars, Publish, PushTakes, PushSent, TaskOver

\* Only what is open is handed anything: a closed connection is on no channel.
LEMMA GoneStep ==
  ASSUME IInv, [BusNext]_busVars, \A c \in Clients : state[c] = "off" => subscribed[c] = {}
  PROVE  \A c \in Clients : state'[c] = "off" => Gone(c)' /\ subscribed'[c] = {}
<1> USE DEF IInv, BusTypeOK, Gone
<1> SUFFICES ASSUME NEW c \in Clients, state'[c] = "off"
             PROVE  Gone(c)' /\ subscribed'[c] = {}
  OBVIOUS
<1>1. ASSUME NEW d \in Clients, Connect(d) PROVE Gone(c)' /\ subscribed'[c] = {}
  BY <1>1 DEF Connect
<1>2. ASSUME NEW d \in Clients, NEW channels \in SUBSET Channels,
             Subscribe(d, channels) \/ Unsubscribe(d, channels)
      PROVE  Gone(c)' /\ subscribed'[c] = {}
  BY <1>2 DEF Subscribe, Unsubscribe, Receiving
<1>3. ASSUME NEW channel \in Channels, Publish(channel)
      PROVE  Gone(c)' /\ subscribed'[c] = {}
  BY <1>3 DEF Publish, ChannelsAgree
<1>4. ASSUME NEW d \in Clients, PushTakes(d) \/ PushSent(d)
      PROVE  Gone(c)' /\ subscribed'[c] = {}
  BY <1>4 DEF PushTakes, PushSent, Pushing
<1>5. ASSUME NEW d \in Clients, TaskOver(d) PROVE Gone(c)' /\ subscribed'[c] = {}
  BY <1>5 DEF TaskOver
<1>6. ASSUME NEW d \in Clients, Cleanup(d) PROVE Gone(c)' /\ subscribed'[c] = {}
  BY <1>6 DEF Cleanup
<1>7. CASE UNCHANGED busVars
  BY <1>7 DEF busVars
<1> QED
  BY <1>1, <1>2, <1>3, <1>4, <1>5, <1>6, <1>7 DEF BusNext

SInv == IInv /\ \A c \in Clients : state[c] = "off" => subscribed[c] = {}

LEMMA Invariance == BusSpec => []SInv
<1>1. BusInit => SInv
  BY InitHolds DEF SInv, BusInit
<1>2. SInv /\ [BusNext]_busVars => SInv'
  BY TypeStep, AgreeStep, GoneStep DEF SInv, IInv
<1> QED
  BY <1>1, <1>2, PTL DEF BusSpec

-----------------------------------------------------------------------------
\* The types of the bus, and the bound of every queue.
THEOREM TypeCorrect == BusSpec => []BusTypeOK
<1>1. SInv => BusTypeOK
  BY DEF SInv, IInv
<1> QED
  BY <1>1, Invariance, PTL

\* The channels the handler reports to a client are those its queue is on;
\* no queue of a closed connection stays on the bus.
THEOREM ReportsAreTrue == BusSpec => []ChannelsAgree
<1>1. SInv => ChannelsAgree
  BY DEF SInv, IInv
<1> QED
  BY <1>1, Invariance, PTL

-----------------------------------------------------------------------------
(* What a client is owed.                                                  *)

LEMMA OwedType == ASSUME BusTypeOK, NEW c \in Clients PROVE Owed(c) \in Seq(Numbers)
<1>1. received[c] \in Seq(Numbers) /\ queue[c] \in Seq(Numbers)
      /\ (IF sending[c] = Nothing THEN << >> ELSE <<sending[c]>>) \in Seq(Numbers)
  <2>1. CASE sending[c] = Nothing
    BY <2>1 DEF BusTypeOK
  <2>2. CASE sending[c] # Nothing
    <3>1. sending[c] \in Numbers
      BY <2>2 DEF BusTypeOK
    <3>2. <<sending[c]>> \in Seq(Numbers)
      BY <3>1
    <3> QED
      BY <2>2, <3>2 DEF BusTypeOK
  <2> QED
    BY <2>1, <2>2
<1> QED
  BY <1>1 DEF Owed

LEMMA OwedAppend ==
  ASSUME NEW a \in Seq(Numbers), NEW q \in Seq(Numbers), NEW e \in Numbers
  PROVE  a \o Append(q, e) = Append(a \o q, e)
  OBVIOUS

LEMMA OwedMoves ==
  ASSUME NEW a \in Seq(Numbers), NEW b \in Seq(Numbers), NEW q \in Seq(Numbers)
  PROVE  (a \o b) \o q = a \o (b \o q)
  BY ConcatAssociative

\* A queue without room, or off the channel, is left as it is; the others get
\* the event at the end of what they are owed.
LEMMA PublishOwed ==
  ASSUME BusTypeOK, NEW channel \in Channels, Publish(channel), NEW c \in Clients
  PROVE  Owed(c)' = IF c \in subscribers[channel] /\ ~Full(c)
                    THEN Append(Owed(c), published') ELSE Owed(c)
<1> DEFINE front == received[c] \o (IF sending[c] = Nothing THEN << >> ELSE <<sending[c]>>)
<1>1. front \in Seq(Numbers) /\ queue[c] \in Seq(Numbers) /\ published' \in Numbers
  <2>1. CASE sending[c] = Nothing
    BY <2>1 DEF BusTypeOK, Publish, Numbers
  <2>2. CASE sending[c] # Nothing
    <3>1. sending[c] \in Numbers
      BY <2>2 DEF BusTypeOK
    <3>2. <<sending[c]>> \in Seq(Numbers)
      BY <3>1
    <3> QED
      BY <2>2, <3>2 DEF BusTypeOK, Publish, Numbers
  <2> QED
    BY <2>1, <2>2
<1>2. Owed(c) = front \o queue[c] /\ Owed(c)' = front \o queue'[c]
  BY DEF Owed, Publish
<1>3. queue'[c] = IF c \in subscribers[channel] /\ ~Full(c)
                  THEN Append(queue[c], published') ELSE queue[c]
  BY DEF Publish
<1> HIDE DEF front
<1>4. front \o Append(queue[c], published') = Append(front \o queue[c], published')
  BY <1>1, OwedAppend, Zenon
<1> QED
  BY <1>2, <1>3, <1>4, Zenon

\* Moving an event from the queue to the wire, or from there to the client,
\* changes nothing of what it is owed.
LEMMA PushOwed ==
  ASSUME BusTypeOK, NEW d \in Clients, PushTakes(d) \/ PushSent(d), NEW c \in Clients
  PROVE  Owed(c)' = Owed(c)
<1>1. CASE PushTakes(d)
  <2>1. CASE c = d
    <3> DEFINE q == queue[c]
               a == received[c]
    <3>1. /\ a \in Seq(Numbers) /\ q \in Seq(Numbers) /\ q # << >>
          /\ sending[c] = Nothing /\ sending'[c] = Head(q)
          /\ queue'[c] = Tail(q) /\ received'[c] = a
      BY <1>1, <2>1 DEF BusTypeOK, PushTakes
    <3> HIDE DEF q, a
    <3>2. Head(q) \in Numbers /\ Head(q) # Nothing /\ Tail(q) \in Seq(Numbers)
      <4>1. Head(q) \in Numbers /\ Tail(q) \in Seq(Numbers)
        BY <3>1
      <4> QED
        BY <4>1 DEF Numbers
    <3>3. <<Head(q)>> \in Seq(Numbers) /\ << >> \in Seq(Numbers)
      BY <3>2
    <3>4. <<Head(q)>> \o Tail(q) = q
      BY <3>1
    <3>5. (a \o <<Head(q)>>) \o Tail(q) = a \o q
      <4>1. (a \o <<Head(q)>>) \o Tail(q) = a \o (<<Head(q)>> \o Tail(q))
        <5>1. a \in Seq(Numbers) /\ <<Head(q)>> \in Seq(Numbers) /\ Tail(q) \in Seq(Numbers)
          BY <3>1, <3>2, <3>3
        <5> QED
          BY <5>1, OwedMoves, Zenon
      <4> QED
        BY <3>4, <4>1
    <3>6. a \o << >> = a
      BY <3>1, ConcatEmptySeq
    <3>7. Owed(c) = (a \o << >>) \o q /\ Owed(c)' = (a \o <<Head(q)>>) \o Tail(q)
      BY <3>1, <3>2 DEF Owed, a, q
    <3> QED
      BY <3>5, <3>6, <3>7
  <2>2. CASE c # d
    BY <1>1, <2>2 DEF BusTypeOK, PushTakes, Owed
  <2> QED
    BY <2>1, <2>2
<1>2. CASE PushSent(d)
  <2>1. CASE c = d
    <3>1. /\ received[c] \in Seq(Numbers) /\ sending[c] \in Numbers /\ sending[c] # Nothing
          /\ received'[c] = Append(received[c], sending[c])
          /\ sending'[c] = Nothing /\ queue'[c] = queue[c]
      BY <1>2, <2>1 DEF BusTypeOK, PushSent
    <3>2. received[c] \o <<sending[c]>> = Append(received[c], sending[c])
      BY <3>1, AppendIsConcat
    <3>3. Append(received[c], sending[c]) \o << >> = Append(received[c], sending[c])
      BY <3>1, ConcatEmptySeq
    <3> QED
      BY <3>1, <3>2, <3>3 DEF Owed
  <2>2. CASE c # d
    BY <1>2, <2>2 DEF BusTypeOK, PushSent, Owed
  <2> QED
    BY <2>1, <2>2
<1> QED
  BY <1>1, <1>2

-----------------------------------------------------------------------------
(* The feed.                                                               *)

Wants == [c \in Clients |-> {ch \in Channels : c \in subscribers[ch]}]
Feeds == [c \in Clients |-> Owed(c)]

LEMMA FeedStarts == BusInit => Feed!FeedInit
<1> SUFFICES ASSUME BusInit PROVE Feed!FeedInit
  OBVIOUS
<1>1. \A c \in Clients : Owed(c) = << >>
  <2>1. << >> \o << >> = << >> /\ (<< >> \o << >>) \o << >> = << >>
    OBVIOUS
  <2>2. \A c \in Clients : received[c] = << >> /\ queue[c] = << >> /\ sending[c] = Nothing
    BY DEF BusInit
  <2> QED
    BY <2>1, <2>2 DEF Owed
<1>2. \A c \in Clients : {ch \in Channels : c \in subscribers[ch]} = {}
  BY DEF BusInit
<1> QED
  BY <1>1, <1>2 DEF BusInit, Feed!FeedInit

\* A change of one client's channels that leaves the feeds alone.
LEMMA IsChoice ==
  ASSUME NEW c \in Clients, NEW channels \in SUBSET Channels,
         Wants' = [Wants EXCEPT ![c] = channels], Feeds' = Feeds, published' = published
  PROVE  Feed!FeedNext
<1>1. Feed!Choose(c, channels)
  BY DEF Feed!Choose, Wants, Feeds
<1> QED
  BY <1>1 DEF Feed!FeedNext

LEMMA FeedStep == SInv /\ [BusNext]_busVars => [Feed!FeedNext]_(Feed!feedVars)
<1> SUFFICES ASSUME SInv, [BusNext]_busVars PROVE [Feed!FeedNext]_(Feed!feedVars)
  OBVIOUS
<1>0. BusTypeOK /\ ChannelsAgree
  BY DEF SInv, IInv
<1>1. ASSUME NEW c \in Clients, Connect(c) PROVE Feed!FeedNext
  <2>1. Wants' = [Wants EXCEPT ![c] = Channels]
    BY <1>0, <1>1 DEF Connect, Wants, BusTypeOK
  <2>2. Feeds' = Feeds /\ published' = published
    BY <1>1 DEF Connect, Feeds, Owed
  <2> QED
    BY <2>1, <2>2, IsChoice
<1>2. ASSUME NEW c \in Clients, NEW channels \in SUBSET Channels, Subscribe(c, channels)
      PROVE  Feed!FeedNext
  <2>1. Wants' = [Wants EXCEPT ![c] = Wants[c] \cup channels]
    BY <1>0, <1>2 DEF Subscribe, Wants, BusTypeOK
  <2>2. Feeds' = Feeds /\ published' = published
    BY <1>2 DEF Subscribe, Feeds, Owed
  <2>3. Wants[c] \cup channels \in SUBSET Channels
    BY DEF Wants
  <2> QED
    BY <2>1, <2>2, <2>3, IsChoice
<1>3. ASSUME NEW c \in Clients, NEW channels \in SUBSET Channels, Unsubscribe(c, channels)
      PROVE  Feed!FeedNext
  <2>1. Wants' = [Wants EXCEPT ![c] = Wants[c] \ channels]
    BY <1>0, <1>3 DEF Unsubscribe, Wants, BusTypeOK, ChannelsAgree
  <2>2. Feeds' = Feeds /\ published' = published
    BY <1>3 DEF Unsubscribe, Feeds, Owed
  <2>3. Wants[c] \ channels \in SUBSET Channels
    BY DEF Wants
  <2> QED
    BY <2>1, <2>2, <2>3, IsChoice
<1>4. ASSUME NEW channel \in Channels, Publish(channel) PROVE Feed!FeedNext
  <2>1. Feeds' \in [Clients -> Seq(1..MaxEvents)]
    <3>1. ASSUME NEW c \in Clients PROVE Owed(c)' \in Seq(1..MaxEvents)
      <4>1. Owed(c) \in Seq(Numbers)
        BY <1>0, OwedType
      <4>2. published' \in Numbers
        BY <1>0, <1>4 DEF BusTypeOK, Publish, Numbers
      <4>3. Owed(c)' = Append(Owed(c), published') \/ Owed(c)' = Owed(c)
        BY <1>0, <1>4, PublishOwed
      <4> QED
        BY <4>1, <4>2, <4>3 DEF Numbers
    <3> QED
      BY <3>1 DEF Feeds
  <2>2. ASSUME NEW c \in Clients
        PROVE  \/ Feeds'[c] = Feeds[c]
               \/ channel \in Wants[c] /\ Feeds'[c] = Append(Feeds[c], published')
    <3>1. Feeds[c] = Owed(c) /\ Feeds'[c] = Owed(c)'
      BY DEF Feeds
    <3>2. channel \in Wants[c] <=> c \in subscribers[channel]
      BY DEF Wants
    <3> QED
      BY <1>0, <1>4, <3>1, <3>2, PublishOwed
  <2>3. published' = published + 1 /\ Wants' = Wants
    BY <1>4 DEF Publish, Wants
  <2>4. Feed!PublishTo(channel)
    BY <2>1, <2>2, <2>3 DEF Feed!PublishTo, Wants, Feeds
  <2> QED
    BY <2>4 DEF Feed!FeedNext
<1>5. ASSUME NEW c \in Clients, PushTakes(c) \/ PushSent(c) PROVE UNCHANGED Feed!feedVars
  <2>1. Feeds' = Feeds
    BY <1>0, <1>5, PushOwed DEF Feeds
  <2>2. published' = published /\ Wants' = Wants
    BY <1>5 DEF PushTakes, PushSent, Wants
  <2> QED
    BY <2>1, <2>2 DEF Feed!feedVars, Feeds, Wants
<1>6. ASSUME NEW c \in Clients, TaskOver(c) PROVE UNCHANGED Feed!feedVars
  BY <1>6 DEF TaskOver, Feed!feedVars, Owed
<1>7. ASSUME NEW c \in Clients, Cleanup(c) PROVE Feed!FeedNext
  <2>1. Wants' = [Wants EXCEPT ![c] = {}]
    BY <1>0, <1>7 DEF Cleanup, Wants, BusTypeOK
  <2>2. Owed(c)' = << >> /\ \A d \in Clients : d # c => Owed(d)' = Owed(d)
    BY <1>0, <1>7 DEF Cleanup, BusTypeOK, Owed
  <2>3. Feeds' = [Feeds EXCEPT ![c] = << >>]
    BY <2>2 DEF Feeds
  <2>4. published' = published
    BY <1>7 DEF Cleanup
  <2>5. Feed!Reset(c, {})
    BY <2>1, <2>3, <2>4 DEF Feed!Reset, Wants, Feeds
  <2> QED
    BY <2>5 DEF Feed!FeedNext
<1>8. CASE UNCHANGED busVars
  BY <1>8 DEF busVars, Feed!feedVars, Owed
<1> QED
  BY <1>1, <1>2, <1>3, <1>4, <1>5, <1>6, <1>7, <1>8 DEF BusNext

\* The bus implements the feed: whoever listens gets events of the channels
\* it is on, in their order and each at most once.
THEOREM BusImplementsFeed == BusSpec => ImplementsFeed
  BY FeedStarts, FeedStep, Invariance, PTL DEF BusSpec, ImplementsFeed, Feed!FeedSpec
=============================================================================
