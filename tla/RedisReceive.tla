---------------------------- MODULE RedisReceive ----------------------------
(***************************************************************************)
(* RedisClientWrapper._receive and close (redis/client.py).  A change of   *)
(* channel throws the pubsub object away and makes another, with a         *)
(* connection of its own.                                                  *)
(***************************************************************************)
EXTENDS PubSub

\* Mutant of RedisBegin: the object is used again for the new channel.
RedisBeginReuses(c) ==
  /\ kind = "redis" /\ rx = "idle"
  /\ asked' = c
  /\ rx' = IF believed = c /\ channels # {NoTopic} THEN "wait" ELSE "subscribe"
  /\ channels' = channels \ {NoTopic}
  /\ UNCHANGED <<kind, believed, queue, requests, subs, due, up, losses,
                 topicOf, returned, harmed>>

\* _receive is called; without an object for this channel the old one is
\* closed, with all it had read, and a new one is made.
RedisBegin(c) ==
  LET fresh == channels = {NoTopic} \/ believed # c IN
  /\ kind = "redis" /\ rx = "idle"
  /\ asked' = c
  /\ rx' = IF fresh THEN "subscribe" ELSE "wait"
  /\ IF fresh THEN channels' = {} /\ queue' = <<>> /\ requests' = <<>> /\ subs' = {} /\ due' = {}
              ELSE UNCHANGED <<channels, queue, requests, subs, due>>
  /\ UNCHANGED <<kind, believed, up, losses, topicOf, returned, harmed>>

RedisSubscribe ==
  /\ kind = "redis" /\ rx = "subscribe" /\ up
  /\ requests' = Append(requests, [op |-> "sub", topic |-> asked])
  /\ channels' = channels \cup {asked}
  /\ believed' = asked /\ rx' = "wait" /\ harmed' = FALSE
  /\ UNCHANGED <<kind, queue, asked, subs, up, losses, topicOf, returned, due>>

\* subscribe raises ConnectionError: the new object, subscribed to nothing,
\* stays beside the channel of the old one.
RedisSubscribeFails ==
  /\ kind = "redis" /\ rx = "subscribe" /\ ~up
  /\ Done /\ harmed' = TRUE
  /\ UNCHANGED <<kind, queue, believed, channels, serverVars,
                 topicOf, returned, due>>

\* get_message returns a message; its channel is not looked at.
RedisTake ==
  /\ kind = "redis" /\ rx = "wait" /\ queue # <<>>
  /\ ReturnOldest(asked)

\* TimeoutError; the clock is looked at before the pubsub is.
RedisTimesOut ==
  /\ kind = "redis" /\ rx = "wait"
  /\ Raise

\* get_message raises ConnectionError.
RedisRaises ==
  /\ kind = "redis" /\ rx = "wait" /\ ~up
  /\ Raise

\* The end of close: the object goes with its connection, then the client.
RedisClose ==
  /\ kind = "redis" /\ rx = "idle"
  /\ channels' = {NoTopic} /\ queue' = <<>> /\ requests' = <<>> /\ subs' = {} /\ due' = {}
  /\ believed' = IF channels = {NoTopic} THEN believed ELSE NoTopic
  /\ UNCHANGED <<kind, rx, asked, up, losses, topicOf, returned, harmed>>
=============================================================================
