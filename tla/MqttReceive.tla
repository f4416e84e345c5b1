---------------------------- MODULE MqttReceive ----------------------------
(***************************************************************************)
(* MqttClientWrapper._receive, _on_message and close (mqtt/client.py).     *)
(* paho's calls return at once; its network thread runs between any two.   *)
(***************************************************************************)
EXTENDS PubSub

Request(op, t) == [op |-> op, topic |-> t]

\* Mutant of MqttBegin: the old subscription is kept.
MqttBeginKeepsOld(t) ==
  /\ kind = "mqtt" /\ rx = "idle"
  /\ believed = t \/ Len(requests) + 2 <= MaxRequests
  /\ asked' = t
  /\ rx' = IF believed = t THEN "wait" ELSE "subscribe"
  /\ UNCHANGED <<kind, queue, believed, channels, requests, subs, up, losses,
                 topicOf, returned, due, harmed>>

\* _receive is called: the old subscription is taken back if another one is
\* asked for; unsubscribe's result is not looked at.
MqttBegin(t) ==
  /\ kind = "mqtt" /\ rx = "idle"
  /\ believed = t \/ Len(requests) + 2 <= MaxRequests
  /\ asked' = t
  /\ rx' = IF believed = t THEN "wait" ELSE "subscribe"
  /\ requests' = IF believed \notin {t, NoTopic} /\ up
                 THEN Append(requests, Request("unsub", believed)) ELSE requests
  /\ UNCHANGED <<kind, queue, believed, channels, subs, up, losses,
                 topicOf, returned, due, harmed>>

\* subscribe returns success: the topic is believed from here on.
MqttSubscribe ==
  /\ kind = "mqtt" /\ rx = "subscribe" /\ up /\ asked # Invalid
  /\ requests' = Append(requests, Request("sub", asked))
  /\ believed' = asked /\ rx' = "wait"
  /\ due' = {} /\ harmed' = FALSE
  /\ UNCHANGED <<kind, queue, channels, asked, subs, up, losses, topicOf, returned>>

\* subscribe returns MQTT_ERR_NO_CONN, or raises ValueError: the old topic is
\* still believed although it has been taken back.
MqttSubscribeFails ==
  /\ kind = "mqtt" /\ rx = "subscribe" /\ (~up \/ asked = Invalid)
  /\ Done /\ harmed' = TRUE
  /\ UNCHANGED <<kind, queue, believed, channels, serverVars, topicOf, returned, due>>

\* The sim driver has no subscriptions to make.
SimBegin(t) ==
  /\ kind = "sim" /\ rx = "idle"
  /\ asked' = t /\ rx' = "wait"
  /\ UNCHANGED <<kind, queue, believed, channels, serverVars,
                 topicOf, returned, due, harmed>>

\* Mutant of MqttTake: whatever comes is returned.
MqttTakeAny ==
  /\ kind \in {"mqtt", "sim"} /\ rx = "wait" /\ queue # <<>>
  /\ ReturnOldest(topicOf[Head(queue)])

MqttTake ==
  /\ kind \in {"mqtt", "sim"} /\ rx = "wait" /\ queue # <<>>
  /\ Matches(asked, topicOf[Head(queue)])
  /\ ReturnOldest(topicOf[Head(queue)])

\* A message of another topic is dropped.  The sim loop raises right after it
\* if the deadline has passed; the other one looks at the clock first.
MqttDiscard ==
  /\ kind \in {"mqtt", "sim"} /\ rx = "wait" /\ queue # <<>>
  /\ ~Matches(asked, topicOf[Head(queue)])
  /\ queue' = Tail(queue)
  /\ \/ UNCHANGED <<rx, asked>>
     \/ kind = "sim" /\ Done
  /\ UNCHANGED <<kind, believed, channels, serverVars, topicOf, returned, due, harmed>>

\* Mutant of MqttTimesOut: what was read last goes with the call.
MqttTimesOutDrops ==
  /\ kind \in {"mqtt", "sim"} /\ rx = "wait"
  /\ queue' = IF queue = <<>> THEN queue ELSE Tail(queue)
  /\ Done
  /\ UNCHANGED <<kind, believed, channels, serverVars, topicOf, returned, due, harmed>>

\* TimeoutError.  The sim loop always looks for a message first.
MqttTimesOut ==
  /\ kind \in {"mqtt", "sim"} /\ rx = "wait"
  /\ kind = "sim" => queue = <<>>
  /\ Raise

\* The end of close, after the pumps have stopped: the network thread is
\* joined, the session ends, and nothing is believed any more.
MqttClose ==
  /\ kind \in {"mqtt", "sim"} /\ rx = "idle"
  /\ believed' = NoTopic /\ requests' = <<>> /\ subs' = {} /\ due' = {}
  /\ queue' = IF kind = "sim" THEN <<>> ELSE queue
  /\ UNCHANGED <<kind, channels, rx, asked, up, losses,
                 topicOf, returned, harmed>>
=============================================================================
