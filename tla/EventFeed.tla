------------------------------ MODULE EventFeed ------------------------------
(***************************************************************************)
(* What a client of /ws/events may rely on, whatever the server does with  *)
(* queues and tasks: while it is connected it is handed events of the      *)
(* channels it asked for, in the order they were published, each at most   *)
(* once; it may miss some, and a new connection starts from nothing.       *)
(***************************************************************************)
EXTENDS Naturals, Sequences

CONSTANTS Clients, Channels, MaxEvents

VARIABLES
    published, \* how many events there have been
    wants,     \* the channels each connected client asked for
    feed       \* the events each connected client has been handed or is owed

feedVars == <<published, wants, feed>>

FeedInit ==
    /\ published = 0
    /\ wants = [c \in Clients |-> {}]
    /\ feed = [c \in Clients |-> << >>]

\* A connection is opened, or closed.
Reset(c, channels) ==
    /\ wants' = [wants EXCEPT ![c] = channels]
    /\ feed' = [feed EXCEPT ![c] = << >>]
    /\ UNCHANGED published

Choose(c, channels) ==
    /\ wants' = [wants EXCEPT ![c] = channels]
    /\ UNCHANGED <<published, feed>>

PublishTo(channel) ==
    /\ published' = published + 1
    /\ feed' \in [Clients -> Seq(1..MaxEvents)]
    /\ \A c \in Clients :
          \/ feed'[c] = feed[c]
          \/ channel \in wants[c] /\ feed'[c] = Append(feed[c], published')
    /\ UNCHANGED wants

FeedNext ==
    \/ \E c \in Clients, channels \in SUBSET Channels :
          Reset(c, channels) \/ Choose(c, channels)
    \/ \E channel \in Channels : PublishTo(channel)

FeedSpec == FeedInit /\ [][FeedNext]_feedVars
=============================================================================
