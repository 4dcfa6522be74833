------------------------------ MODULE EventBus ------------------------------
(***************************************************************************)
(* The event bus and the WebSocket handler that drains it.  The bus keeps, *)
(* per channel, the set of queues that listen to it; the handler keeps, per *)
(* client, the set of channels it told the client about, a task that sends *)
(* what the queue holds, and a task that reads control messages.  When one *)
(* of the two tasks ends, the handler still has to be scheduled before it  *)
(* cancels the other and takes the queue off the bus.                      *)
(*                                                                         *)
(* Nothing in dawos_agent calls bus.publish yet; Publish is the method.    *)
(***************************************************************************)
EXTENDS Naturals, Sequences

CONSTANTS
    Clients,   \* connections; one that is closed may be opened again
    Channels,  \* CHANNELS
    MaxQueue,  \* max_queue
    Nothing,   \* no event
    MaxEvents  \* bound: how many events are published

ASSUME NothingAssumption == Nothing \notin 1..MaxEvents
ASSUME QueueAssumption == MaxQueue \in Nat \ {0} /\ MaxEvents \in Nat

VARIABLES
    published,   \* number of events so far: the events are 1, 2, ...
    subscribers, \* _subscribers: the queues on each channel
    queue,       \* the queue of each client
    subscribed,  \* the handler's `subscribed`
    state,       \* the handler: "off", "open", or which task is over
    sending,     \* the event the push task holds while it awaits send_json
    received     \* what each connection has sent

busVars == <<published, subscribers, queue, subscribed, state, sending, received>>

Numbers == 1..MaxEvents

BusTypeOK ==
    /\ published \in 0..MaxEvents
    /\ subscribers \in [Channels -> SUBSET Clients]
    /\ queue \in [Clients -> Seq(Numbers)]
    /\ \A c \in Clients : Len(queue[c]) <= MaxQueue
    /\ subscribed \in [Clients -> SUBSET Channels]
    /\ state \in [Clients -> {"off", "open", "pushOver", "receiveOver"}]
    /\ sending \in [Clients -> Numbers \cup {Nothing}]
    /\ received \in [Clients -> Seq(Numbers)]

BusInit ==
    /\ published = 0
    /\ subscribers = [ch \in Channels |-> {}]
    /\ queue = [c \in Clients |-> << >>]
    /\ subscribed = [c \in Clients |-> {}]
    /\ state = [c \in Clients |-> "off"]
    /\ sending = [c \in Clients |-> Nothing]
    /\ received = [c \in Clients |-> << >>]

-----------------------------------------------------------------------------

\* A connection starts on every channel, with a queue of its own.
Connect(c) ==
    /\ state[c] = "off"
    /\ state' = [state EXCEPT ![c] = "open"]
    /\ subscribed' = [subscribed EXCEPT ![c] = Channels]
    /\ subscribers' = [ch \in Channels |-> subscribers[ch] \cup {c}]
    /\ UNCHANGED <<published, queue, sending, received>>

Pushing(c) == state[c] \in {"open", "receiveOver"}
Receiving(c) == state[c] \in {"open", "pushOver"}

\* {"action": "subscribe"}: a set of queues per channel, so twice is once.
Subscribe(c, channels) ==
    /\ Receiving(c)
    /\ subscribers' =
          [ch \in Channels |-> IF ch \in channels THEN subscribers[ch] \cup {c} ELSE subscribers[ch]]
    /\ subscribed' = [subscribed EXCEPT ![c] = @ \cup channels]
    /\ UNCHANGED <<published, queue, state, sending, received>>

\* {"action": "unsubscribe"}: what is queued already is still sent.
Unsubscribe(c, channels) ==
    /\ Receiving(c)
    /\ subscribers' =
          [ch \in Channels |->
              IF ch \in channels \cap subscribed[c] THEN subscribers[ch] \ {c} ELSE subscribers[ch]]
    /\ subscribed' = [subscribed EXCEPT ![c] = @ \ channels]
    /\ UNCHANGED <<published, queue, state, sending, received>>

Full(c) == Len(queue[c]) >= MaxQueue

\* Mutant: the queue has no bound.
Publish_Unbounded(channel) ==
    /\ published < MaxEvents
    /\ published' = published + 1
    /\ queue' = [c \in Clients |->
          IF c \in subscribers[channel] THEN Append(queue[c], published') ELSE queue[c]]
    /\ UNCHANGED <<subscribers, subscribed, state, sending, received>>

\* Mutant: the event goes to every connection, whatever it asked for.
Publish_ToAll(channel) ==
    /\ published < MaxEvents
    /\ published' = published + 1
    /\ queue' = [c \in Clients |->
          IF state[c] # "off" /\ ~Full(c) THEN Append(queue[c], published') ELSE queue[c]]
    /\ UNCHANGED <<subscribers, subscribed, state, sending, received>>

\* publish: put_nowait on a snapshot of the channel's queues; a full queue
\* drops the event for its own client.
Publish(channel) ==
    /\ published < MaxEvents
    /\ published' = published + 1
    /\ queue' = [c \in Clients |->
          IF c \in subscribers[channel] /\ ~Full(c)
          THEN Append(queue[c], published') ELSE queue[c]]
    /\ UNCHANGED <<subscribers, subscribed, state, sending, received>>

\* _push_events: queue.get returned.
PushTakes(c) ==
    /\ Pushing(c)
    /\ sending[c] = Nothing
    /\ queue[c] # << >>
    /\ sending' = [sending EXCEPT ![c] = Head(queue[c])]
    /\ queue' = [queue EXCEPT ![c] = Tail(@)]
    /\ UNCHANGED <<published, subscribers, subscribed, state, received>>

\* send_json returned.
PushSent(c) ==
    /\ Pushing(c)
    /\ sending[c] # Nothing
    /\ received' = [received EXCEPT ![c] = Append(@, sending[c])]
    /\ sending' = [sending EXCEPT ![c] = Nothing]
    /\ UNCHANGED <<published, subscribers, queue, subscribed, state>>

\* The client is gone, or sent what makes a task raise: one task is over, and
\* the other goes on until the handler has been scheduled.
TaskOver(c) ==
    /\ state[c] = "open"
    /\ \E over \in {"pushOver", "receiveOver"} : state' = [state EXCEPT ![c] = over]
    /\ UNCHANGED <<published, subscribers, queue, subscribed, sending, received>>

\* Mutant: the `finally` clause is missing.
Cleanup_Leaks(c) ==
    /\ state[c] \in {"pushOver", "receiveOver"}
    /\ state' = [state EXCEPT ![c] = "off"]
    /\ subscribed' = [subscribed EXCEPT ![c] = {}]
    /\ queue' = [queue EXCEPT ![c] = << >>]
    /\ sending' = [sending EXCEPT ![c] = Nothing]
    /\ received' = [received EXCEPT ![c] = << >>]
    /\ UNCHANGED <<published, subscribers>>

\* The handler cancels the other task, unsubscribes the queue, and returns.
Cleanup(c) ==
    /\ state[c] \in {"pushOver", "receiveOver"}
    /\ state' = [state EXCEPT ![c] = "off"]
    /\ subscribers' = [ch \in Channels |-> subscribers[ch] \ {c}]
    /\ subscribed' = [subscribed EXCEPT ![c] = {}]
    /\ queue' = [queue EXCEPT ![c] = << >>]
    /\ sending' = [sending EXCEPT ![c] = Nothing]
    /\ received' = [received EXCEPT ![c] = << >>]
    /\ UNCHANGED published

BusNext ==
    \/ \E c \in Clients :
          \/ Connect(c) \/ TaskOver(c) \/ Cleanup(c)
          \/ PushTakes(c) \/ PushSent(c)
          \/ \E channels \in SUBSET Channels : Subscribe(c, channels) \/ Unsubscribe(c, channels)
    \/ \E channel \in Channels : Publish(channel)

BusSpec == BusInit /\ [][BusNext]_busVars

-----------------------------------------------------------------------------
(* Properties.                                                             *)

\* Everything a connection was handed or is owed, oldest first.
Owed(c) ==
    received[c] \o (IF sending[c] = Nothing THEN << >> ELSE <<sending[c]>>) \o queue[c]

\* The bus implements the feed the protocol describes: an order, no
\* duplicates, nothing from a channel the client is not on.
Feed == INSTANCE EventFeed WITH
    wants <- [c \in Clients |-> {ch \in Channels : c \in subscribers[ch]}],
    feed <- [c \in Clients |-> Owed(c)]

ImplementsFeed == Feed!FeedSpec

\* The handler tells the client what the bus will do: the channels it
\* reported are the channels the queue is on, and a connection that is over
\* is on none, so no dead queue stays behind.
ChannelsAgree ==
    \A c \in Clients, ch \in Channels : c \in subscribers[ch] <=> ch \in subscribed[c]
=============================================================================
