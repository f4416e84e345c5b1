------------------------------- MODULE PubSub -------------------------------
(***************************************************************************)
(* What the MQTT client (mqtt/client.py) and the Redis client              *)
(* (redis/client.py) have in common when they receive: the subscription    *)
(* the client believes in, the messages that wait for it, and the server   *)
(* on the other side, which may go away and come back.  kind says which    *)
(* client it is; "sim" is the MQTT client on the sim driver's mailbox.     *)
(* Messages are numbered in the order they are published.                  *)
(*                                                                         *)
(* External, as the clients rely on it: subscribe and unsubscribe are      *)
(* requests that the server takes in order; a lost MQTT connection ends    *)
(* the session and its subscriptions (paho's default, a clean session); a  *)
(* pubsub object of redis-py has a connection of its own, which subscribes *)
(* again to the channels of its object when it is restored.                *)
(***************************************************************************)
EXTENDS Naturals, Sequences, FiniteSets

CONSTANTS Topics,       \* what messages are published to
          AnyTopic,          \* the filter that matches every topic
          Invalid,      \* a filter that paho's subscribe refuses
          MaxMessages,  \* bound: messages published over the run
          MaxLosses,    \* bound: connections lost over the run
          MaxRequests   \* bound: requests on their way at a time

Kinds    == {"mqtt", "redis", "sim"}
Messages == 1..MaxMessages
NoTopic  == "none"

ASSUME PubSubAssumption ==
  /\ AnyTopic \notin Topics /\ Invalid \notin Topics /\ AnyTopic # Invalid
  /\ NoTopic \notin Topics \cup {AnyTopic, Invalid}
  /\ MaxMessages \in Nat /\ MaxLosses \in Nat /\ MaxRequests \in Nat

VARIABLES
  kind,      \* which client this is
  believed,  \* _subscribed_topic, _subscribed_channel
  queue,     \* _incoming, the sim token's queue, or what the pubsub has read
  channels,  \* redis: the channels of the pubsub object; {NoTopic}: no object
  requests,  \* requests on their way to the server, in order
  subs,      \* the server's subscriptions of this connection
  up,        \* the connection stands
  losses,    \* connections lost so far
  rx,        \* where the thread in _receive is
  asked,     \* the topic of that call
  topicOf,   \* history: the topic of each message published
  returned,  \* history: what _receive returned
  due,       \* history: messages that came for the subscription believed in
  harmed     \* history: a subscribe failed, or an MQTT connection was lost,
             \* since the last subscribe that was sent

clientVars  == <<believed, channels, rx, asked>>
serverVars  == <<requests, subs, up, losses>>
pubSubVars  == <<kind, queue, clientVars, serverVars, topicOf, returned, due, harmed>>

\* The constructors: the sim client is on its mailbox at once, an MQTT client
\* is connected, a Redis client connects when it is used.
PubSubInit ==
  /\ kind \in Kinds
  /\ believed = NoTopic /\ queue = <<>> /\ channels = {NoTopic}
  /\ requests = <<>> /\ subs = {} /\ up = TRUE /\ losses = 0
  /\ rx = "idle" /\ asked = NoTopic
  /\ topicOf = <<>> /\ returned = <<>> /\ due = {} /\ harmed = FALSE

\* mqtt.topic_matches_sub
Matches(filter, topic) == filter \in {AnyTopic, topic}

-----------------------------------------------------------------------------
(* The server *)

\* Somebody publishes; the server passes the message on to this client if it
\* is subscribed.  The sim mailbox passes on everything.
Broadcast(topic) ==
  LET n == Len(topicOf) + 1
      heard == kind = "sim" \/ \E f \in subs : Matches(f, topic)
  IN
  /\ n <= MaxMessages
  /\ topicOf' = Append(topicOf, topic)
  /\ queue' = IF heard THEN Append(queue, n) ELSE queue
  /\ due' = IF heard /\ Matches(believed, topic) THEN due \cup {n} ELSE due
  /\ UNCHANGED <<kind, clientVars, serverVars, returned, harmed>>

Applied(request, s) ==
  IF request.op = "sub" THEN s \cup {request.topic} ELSE s \ {request.topic}

Serve ==
  /\ requests # <<>>
  /\ subs' = Applied(Head(requests), subs)
  /\ requests' = Tail(requests)
  /\ UNCHANGED <<kind, queue, clientVars, up, losses, topicOf, returned, due, harmed>>

\* What a Redis connection has read is lost with it; _incoming is not.
LinkLost ==
  /\ kind # "sim" /\ up /\ losses < MaxLosses
  /\ up' = FALSE /\ losses' = losses + 1
  /\ subs' = {} /\ requests' = <<>>
  /\ IF kind = "redis" THEN queue' = <<>> /\ due' = {} /\ UNCHANGED harmed
                       ELSE harmed' = TRUE /\ UNCHANGED <<queue, due>>
  /\ UNCHANGED <<kind, clientVars, topicOf, returned>>

LinkBack ==
  /\ ~up /\ up' = TRUE
  /\ \E order \in [1..Cardinality(channels \ {NoTopic}) -> channels \ {NoTopic}] :
        requests' = [i \in DOMAIN order |-> [op |-> "sub", topic |-> order[i]]]
  /\ UNCHANGED <<kind, queue, clientVars, subs, losses, topicOf, returned, due, harmed>>

-----------------------------------------------------------------------------
(* What the loops of both clients do *)

\* _receive returns or raises; its local variables go.
Done == rx' = "idle" /\ asked' = NoTopic

\* The oldest message is returned under the topic t.
ReturnOldest(t) ==
  /\ returned' = Append(returned, [msg |-> Head(queue), topic |-> t, asked |-> asked])
  /\ queue' = Tail(queue)
  /\ Done
  /\ UNCHANGED <<kind, believed, channels, serverVars, topicOf, due, harmed>>

\* The call ends with an exception that leaves the client as it is.
Raise ==
  /\ Done
  /\ UNCHANGED <<kind, queue, believed, channels, serverVars,
                 topicOf, returned, due, harmed>>

-----------------------------------------------------------------------------
(* Properties *)

Filters == Topics \cup {AnyTopic, Invalid}

\* The type invariant of the client and its server.
PubSubTypeOK ==
  /\ kind \in Kinds /\ believed \in Topics \cup {AnyTopic, NoTopic}
  /\ queue \in Seq(1..Len(topicOf)) /\ topicOf \in Seq(Topics)
  /\ channels \in SUBSET (Topics \cup {NoTopic}) /\ Cardinality(channels) <= 1
  /\ requests \in Seq([op : {"sub", "unsub"}, topic : Topics \cup {AnyTopic}])
  /\ subs \in SUBSET (Topics \cup {AnyTopic}) /\ up \in BOOLEAN /\ losses \in 0..MaxLosses
  /\ rx \in {"idle", "subscribe", "wait"} /\ asked \in Filters \cup {NoTopic}
  /\ harmed \in BOOLEAN /\ due \in SUBSET (1..Len(topicOf))
  /\ returned \in Seq([msg : 1..Len(topicOf), topic : Topics, asked : Topics \cup {AnyTopic}])

\* The server's subscriptions once it has taken the requests on their way:
\* the last request about a topic counts.
Settled ==
  {t \in Topics \cup {AnyTopic} :
     \/ t \in subs /\ \A i \in DOMAIN requests : requests[i].topic # t
     \/ \E i \in DOMAIN requests :
          /\ requests[i] = [op |-> "sub", topic |-> t]
          /\ \A j \in DOMAIN requests : j > i => requests[j].topic # t}

\* A receive that waits on a sound connection waits for the one thing the
\* server is, or is about to be, subscribed to for it: a change of topic
\* leaves no subscription behind and none is taken for granted wrongly,
\* unless a subscribe failed or the MQTT session was lost in between.
WaitsSubscribed ==
  rx = "wait" /\ kind # "sim" /\ up /\ ~harmed => Settled = {asked}

\* Nothing that came for the topic being received is dropped: it is returned,
\* or still waits.  Timeouts, further calls for the topic and, in the MQTT
\* client, failed calls for another one take nothing away.
NothingDropped ==
  \A m \in due : \/ \E i \in DOMAIN queue : queue[i] = m
                 \/ \E i \in DOMAIN returned : returned[i].msg = m

\* Every message is returned at most once, in the order of publication, under
\* the topic it was published to, to a call that asked for that topic; what
\* an earlier topic left in the queue or in the pubsub does not come through.
ReturnsItsOwn ==
  /\ \A i \in DOMAIN returned :
       LET r == returned[i] IN r.topic = topicOf[r.msg] /\ Matches(r.asked, r.topic)
  /\ \A i, j \in DOMAIN returned : i < j => returned[i].msg < returned[j].msg
=============================================================================
