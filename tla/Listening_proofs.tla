-------------------------- MODULE Listening_proofs --------------------------
(* What the receive calls of the MQTT and Redis clients promise, alone and   *)
(* under a listen pump, for any number of topics, messages, lost connections *)
(* and calls: a receive waits on a subscription that is there, what came for *)
(* it is not dropped, and what is returned is what was asked for.            *)
EXTENDS Listening, FiniteSetTheorems, SequenceTheorems, TLAPS

(* Sequences *)

LEMMA AppendFacts ==
  ASSUME NEW S, NEW s \in Seq(S), NEW e \in S
  PROVE  /\ Append(s, e) \in Seq(S) /\ Len(s) \in Nat
         /\ Len(Append(s, e)) = Len(s) + 1
         /\ DOMAIN s = 1..Len(s) /\ DOMAIN Append(s, e) = 1..(Len(s) + 1)
         /\ DOMAIN Append(s, e) = DOMAIN s \cup {Len(s) + 1}
         /\ \A i \in DOMAIN s : i # Len(s) + 1 /\ i <= Len(s) /\ Append(s, e)[i] = s[i]
         /\ Append(s, e)[Len(s) + 1] = e
<1>1. /\ Append(s, e) \in Seq(S) /\ Len(s) \in Nat /\ Len(Append(s, e)) = Len(s) + 1
      /\ DOMAIN s = 1..Len(s) /\ DOMAIN Append(s, e) = 1..(Len(s) + 1)
      /\ \A i \in 1..Len(s) : Append(s, e)[i] = s[i]
      /\ Append(s, e)[Len(s) + 1] = e
  BY AppendProperties, LenProperties
<1>2. 1..(Len(s) + 1) = 1..Len(s) \cup {Len(s) + 1}
  BY <1>1
<1> QED
  BY <1>1, <1>2

LEMMA TailFacts ==
  ASSUME NEW S, NEW s \in Seq(S), s # <<>>
  PROVE  /\ Head(s) \in S /\ Head(s) = s[1] /\ 1 \in DOMAIN s
         /\ Tail(s) \in Seq(S)
         /\ \A i \in DOMAIN Tail(s) : i \in Nat /\ i + 1 \in DOMAIN s /\ Tail(s)[i] = s[i + 1]
         /\ \A i \in DOMAIN s : i # 1 => i \in Nat /\ i > 1 /\ i - 1 \in DOMAIN Tail(s)
                                         /\ Tail(s)[i - 1] = s[i]
<1>1. /\ Head(s) \in S /\ Head(s) = s[1] /\ Tail(s) \in Seq(S)
      /\ Len(s) \in Nat \ {0} /\ Len(Tail(s)) = Len(s) - 1
      /\ DOMAIN s = 1..Len(s) /\ DOMAIN Tail(s) = 1..Len(Tail(s))
      /\ \A i \in 1..Len(Tail(s)) : Tail(s)[i] = s[i + 1]
  BY HeadTailProperties, LenProperties, EmptySeq
<1>2. \A i \in 1..(Len(s) - 1) : i \in Nat /\ i + 1 \in 1..Len(s)
  BY <1>1
<1>3. \A i \in 1..Len(s) : i # 1 => i \in Nat /\ i > 1 /\ i - 1 \in 1..(Len(s) - 1) /\ (i - 1) + 1 = i
  BY <1>1
<1> QED
  BY <1>1, <1>2, <1>3

LEMMA FunctionsAreSeqs ==
  ASSUME NEW S, NEW n \in Nat, NEW f \in [1..n -> S]
  PROVE  f \in Seq(S)
<1>1. f \in UNION {[1..m -> S] : m \in Nat}
  OBVIOUS
<1> QED
  BY <1>1, SeqDef, Zenon

LEMMA EmptyFacts ==
  ASSUME NEW S
  PROVE  <<>> \in Seq(S) /\ DOMAIN <<>> = {}
BY EmptySeq

-----------------------------------------------------------------------------
(* The client's steps *)

\* What a listen, a receive, a close, a publish or the server does to a client.
ClientNext ==
  \/ \E f \in Filters : MqttBegin(f) \/ SimBegin(f) \/ (f \in Topics /\ RedisBegin(f))
  \/ MqttSubscribe \/ MqttSubscribeFails \/ MqttTake \/ MqttDiscard \/ MqttTimesOut
  \/ RedisSubscribe \/ RedisSubscribeFails \/ RedisTake \/ RedisTimesOut \/ RedisRaises
  \/ MqttClose \/ RedisClose
  \/ Serve \/ LinkLost \/ LinkBack \/ \E t \in Topics : Broadcast(t)

\* A running pump has a filter.
FilterInv == pump # "off" => filter \in Filters

LEMMA NextIsClients ==
  ASSUME FilterInv, [Next]_vars
  PROVE  ClientNext \/ UNCHANGED pubSubVars
<1>1. CASE Script
  BY <1>1 DEF Script, MqttListen, RedisListen, Listen, ListenRefused, StopListen, CloseCall,
     StopCall, StopJoined, StopRaises, StopReturns, CloseReturns, VerifyCall, VerifyDrained,
     VerifyReturns, Receive, BeginReceive, ClientNext
<1>2. CASE Pump
  BY <1>2 DEF Pump, PumpPolls, PumpEnds, HandlerRecords, HandlerRaises, HookReturns,
     HookRaises, PollRaises, PollReturns, ReceiveGoesOn, BeginReceive, GoesOn, Fails, Gets, FilterInv, ClientNext
<1>3. CASE ReceiveEnds \/ ReceiveGoesOn
  BY <1>3 DEF ReceiveEnds, ReceiveGoesOn, GoesOn, Fails, Gets, ClientNext
<1>4. CASE Outside \/ Writer \/ PublishFails
  BY <1>4 DEF Outside, Writer, PublishFails, vars, ClientNext
<1>5. ASSUME NEW t \in Topics, Publish(t)
      PROVE  ClientNext
  BY <1>5 DEF Publish, ClientNext
<1>6. CASE UNCHANGED vars
  BY <1>6 DEF vars
<1> QED
  BY <1>1, <1>2, <1>3, <1>4, <1>5, <1>6 DEF Next

\* The channels of the pubsub object.
Object == channels \ {NoTopic}

OneChannel == channels = {} \/ \E c : channels = {c}

TypeInv == PubSubTypeOK /\ OneChannel /\ Len(topicOf) <= MaxMessages

LEMMA Names ==
  /\ AnyTopic \notin Topics /\ Invalid \notin Topics /\ AnyTopic # Invalid
  /\ NoTopic \notin Topics /\ NoTopic # AnyTopic /\ NoTopic # Invalid
  /\ Filters = Topics \cup {AnyTopic, Invalid} /\ MaxMessages \in Nat
BY PubSubAssumption DEF Filters

-----------------------------------------------------------------------------
(* Subscriptions *)

\* What the client believes of the server, while nothing harmed it.
MqttInv ==
  kind = "mqtt" =>
    /\ channels = {NoTopic}
    /\ ~up => harmed
    /\ rx = "subscribe" => Settled = {}
    /\ rx # "subscribe" =>
         /\ Settled \subseteq {believed}
         /\ ~harmed /\ believed # NoTopic => believed \in Settled
    /\ rx = "wait" => asked = believed

\* The server is subscribed to what the object has, and that is one channel.
RedisInv ==
  kind = "redis" =>
    /\ Settled = IF up THEN Object ELSE {}
    /\ subs \subseteq Object
    /\ \A i \in DOMAIN requests : requests[i] \in [op : {"sub"}, topic : Object]
    /\ rx = "subscribe" => channels = {}
    /\ rx # "subscribe" =>
         /\ channels \subseteq {believed, NoTopic}
         /\ ~harmed /\ channels # {NoTopic} => channels = {believed}
    /\ rx = "wait" => asked = believed /\ channels # {NoTopic}
    /\ rx # "idle" => asked \in Topics

SubInv ==
  /\ ~up => subs = {} /\ requests = <<>>
  /\ rx # "idle" => asked # NoTopic
  /\ kind = "sim" => believed = NoTopic
  /\ MqttInv /\ RedisInv

RequestSet == [op : {"sub", "unsub"}, topic : Topics \cup {AnyTopic}]

\* What requests do to the subscriptions they settle.
LEMMA SettledEmpty ==
  ASSUME requests = <<>>, subs \subseteq Topics \cup {AnyTopic}
  PROVE  Settled = subs
BY EmptyFacts DEF Settled

LEMMA SettledAppend ==
  ASSUME requests \in Seq(RequestSet), NEW r \in RequestSet,
         requests' = Append(requests, r), subs' = subs
  PROVE  Settled' = Applied(r, Settled)
<1>1. /\ Len(requests) \in Nat /\ DOMAIN requests' = DOMAIN requests \cup {Len(requests) + 1}
      /\ \A i \in DOMAIN requests : /\ i # Len(requests) + 1 /\ i <= Len(requests)
                                    /\ requests'[i] = requests[i] /\ i \in Nat
      /\ requests'[Len(requests) + 1] = r
  <2>1. DOMAIN requests \subseteq Nat
    BY LenProperties
  <2>2. /\ Len(requests) \in Nat
        /\ DOMAIN Append(requests, r) = DOMAIN requests \cup {Len(requests) + 1}
        /\ \A i \in DOMAIN requests : /\ i # Len(requests) + 1 /\ i <= Len(requests)
                                      /\ Append(requests, r)[i] = requests[i]
        /\ Append(requests, r)[Len(requests) + 1] = r
    BY AppendFacts
  <2> QED
    BY <2>1, <2>2
<1>2. \A i \in DOMAIN requests : Len(requests) + 1 > i /\ ~(i > Len(requests) + 1)
  BY <1>1
<1>3. ~(Len(requests) + 1 > Len(requests) + 1)
  BY <1>1
<1>4. r.op \in {"sub", "unsub"} /\ r = [op |-> r.op, topic |-> r.topic]
  BY DEF RequestSet
<1>5. ASSUME NEW t \in Topics \cup {AnyTopic}
      PROVE  t \in Settled' <=> t \in Applied(r, Settled)
  <2>1. CASE r.topic = t
    <3>1. t \in Settled' <=> r.op = "sub"
      BY <1>1, <1>2, <1>3, <1>4, <2>1 DEF Settled
    <3> QED
      BY <1>4, <2>1, <3>1 DEF Applied
  <2>2. CASE r.topic # t
    <3>1. r # [op |-> "sub", topic |-> t]
      BY <2>2
    <3>2. t \in Settled' <=> t \in Settled
      BY <1>1, <1>2, <2>2, <3>1 DEF Settled
    <3> QED
      BY <2>2, <3>2 DEF Applied
  <2> QED
    BY <2>1, <2>2
<1>6. Settled' \subseteq Topics \cup {AnyTopic} /\ Applied(r, Settled) \subseteq Topics \cup {AnyTopic}
  BY DEF Settled, Applied, RequestSet
<1> QED
  BY <1>5, <1>6

LEMMA SettledServe ==
  ASSUME requests \in Seq(RequestSet), Serve
  PROVE  Settled' = Settled
<1> DEFINE r == Head(requests)
<1>1. /\ r \in RequestSet /\ requests[1] = r /\ 1 \in DOMAIN requests
      /\ \A i \in DOMAIN requests' : i \in Nat /\ i + 1 \in DOMAIN requests
                                     /\ requests'[i] = requests[i + 1]
      /\ \A i \in DOMAIN requests : i # 1 => i \in Nat /\ i > 1 /\ i - 1 \in DOMAIN requests'
                                             /\ requests'[i - 1] = requests[i]
      /\ subs' = Applied(r, subs)
  BY TailFacts, Zenon DEF Serve
<1> HIDE DEF r
<1>2. r.op \in {"sub", "unsub"} /\ r = [op |-> r.op, topic |-> r.topic]
  BY <1>1 DEF RequestSet
<1>3. ASSUME NEW t \in Topics \cup {AnyTopic}
      PROVE  t \in Settled' <=> t \in Settled
  <2> DEFINE None(q) == \A i \in DOMAIN q : q[i].topic # t
             Later(q) == \E i \in DOMAIN q :
                           /\ q[i] = [op |-> "sub", topic |-> t]
                           /\ \A j \in DOMAIN q : j > i => q[j].topic # t
  <2>1. None(requests) <=> r.topic # t /\ None(requests')
    BY <1>1
  <2>2. Later(requests) <=> Later(requests') \/ (r = [op |-> "sub", topic |-> t] /\ None(requests'))
    <3>1. ASSUME Later(requests')
          PROVE  Later(requests)
      <4>1. PICK i \in DOMAIN requests' :
              /\ requests'[i] = [op |-> "sub", topic |-> t]
              /\ \A j \in DOMAIN requests' : j > i => requests'[j].topic # t
        BY <3>1
      <4>2. i + 1 \in DOMAIN requests /\ requests[i + 1] = [op |-> "sub", topic |-> t] /\ i \in Nat
        BY <1>1, <4>1
      <4>3. ASSUME NEW j \in DOMAIN requests, j > i + 1
            PROVE  requests[j].topic # t
        <5>1. j # 1
          BY <4>2, <4>3
        <5>2. j - 1 \in DOMAIN requests' /\ requests'[j - 1] = requests[j] /\ j \in Nat
          BY <1>1, <5>1
        <5>3. j - 1 > i
          BY <4>2, <4>3, <5>2
        <5> QED
          BY <4>1, <5>2, <5>3
      <4> QED
        BY <4>2, <4>3
    <3>2. ASSUME r = [op |-> "sub", topic |-> t], None(requests')
          PROVE  Later(requests)
      <4>1. ASSUME NEW j \in DOMAIN requests, j > 1
            PROVE  requests[j].topic # t
        <5>1. j # 1
          BY <4>1
        <5>2. j - 1 \in DOMAIN requests' /\ requests'[j - 1] = requests[j]
          BY <1>1, <5>1
        <5> QED
          BY <3>2, <5>2
      <4> QED
        BY <1>1, <3>2, <4>1
    <3>3. ASSUME Later(requests)
          PROVE  Later(requests') \/ (r = [op |-> "sub", topic |-> t] /\ None(requests'))
      <4>1. PICK i \in DOMAIN requests :
              /\ requests[i] = [op |-> "sub", topic |-> t]
              /\ \A j \in DOMAIN requests : j > i => requests[j].topic # t
        BY <3>3
      <4>2. CASE i = 1
        <5>1. ASSUME NEW j \in DOMAIN requests'
              PROVE  requests'[j].topic # t
          <6>1. j + 1 \in DOMAIN requests /\ requests'[j] = requests[j + 1] /\ j \in Nat
            BY <1>1
          <6>2. j + 1 > 1
            <7>1. j + 1 # 1 \/ j = 0
              BY <6>1
            <7>2. j \in 1..Len(requests')
              <8>1. requests' \in Seq(RequestSet)
                BY TailFacts DEF Serve
              <8> QED
                BY <8>1, LenProperties
            <7> QED
              BY <6>1, <7>2
          <6> QED
            BY <4>1, <4>2, <6>1, <6>2
        <5> QED
          BY <1>1, <4>1, <4>2, <5>1
      <4>3. CASE i # 1
        <5>1. i - 1 \in DOMAIN requests' /\ requests'[i - 1] = requests[i] /\ i \in Nat
          BY <1>1, <4>3
        <5>2. ASSUME NEW j \in DOMAIN requests', j > i - 1
              PROVE  requests'[j].topic # t
          <6>1. j + 1 \in DOMAIN requests /\ requests'[j] = requests[j + 1] /\ j \in Nat
            BY <1>1
          <6>2. j + 1 > i
            BY <5>1, <5>2, <6>1
          <6> QED
            BY <4>1, <6>1, <6>2
        <5> QED
          BY <4>1, <5>1, <5>2
      <4> QED
        BY <4>2, <4>3
    <3> QED
      BY <3>1, <3>2, <3>3
  <2>3. t \in subs' <=> (IF r.topic = t THEN r.op = "sub" ELSE t \in subs)
    BY <1>1, <1>2 DEF Applied
  <2>4. t \in Settled <=> (t \in subs /\ None(requests)) \/ Later(requests)
    BY DEF Settled
  <2>5. t \in Settled' <=> (t \in subs' /\ None(requests')) \/ Later(requests')
    BY DEF Settled
  <2>6. r = [op |-> "sub", topic |-> t] <=> r.topic = t /\ r.op = "sub"
    BY <1>2
  <2> HIDE DEF None, Later
  <2> QED
    BY <2>1, <2>2, <2>3, <2>4, <2>5, <2>6
<1> QED
  BY <1>3 DEF Settled

-----------------------------------------------------------------------------
(* Types *)

LEMMA OneIsOne ==
  ASSUME NEW C, C = {} \/ \E c : C = {c}
  PROVE  Cardinality(C) \in Nat /\ Cardinality(C) <= 1
<1>1. Cardinality({}) = 0 /\ \A c : Cardinality({c}) = 1
  BY FS_EmptySet, FS_Singleton, Zenon
<1>2. Cardinality(C) = 0 \/ Cardinality(C) = 1
  BY <1>1, Zenon
<1> QED
  BY <1>2

Results(n) == [msg : 1..n, topic : Topics, asked : Topics \cup {AnyTopic}]

\* The types of the variables that a receive does not touch.
LEMMA ServerTypes ==
  ASSUME TypeInv, SubInv, Serve \/ LinkLost \/ LinkBack \/ \E t \in Topics : Broadcast(t)
  PROVE  TypeInv'
<1> USE DEF TypeInv, PubSubTypeOK, clientVars, serverVars
<1>1. CASE Serve
  <2>1. /\ Head(requests) \in RequestSet /\ requests' \in Seq(RequestSet)
        /\ subs' = Applied(Head(requests), subs)
    BY <1>1, TailFacts DEF Serve, RequestSet
  <2>2. subs' \in SUBSET (Topics \cup {AnyTopic})
    BY <2>1 DEF Applied, RequestSet
  <2> QED
    BY <1>1, <2>1, <2>2 DEF Serve, OneChannel, RequestSet
<1>2. CASE LinkLost
  <2>1. /\ queue' = queue \/ queue' = <<>>
        /\ due' = due \/ due' = {}
        /\ harmed' \in BOOLEAN
    BY <1>2 DEF LinkLost
  <2>2. /\ queue' \in Seq(1..Len(topicOf)) /\ due' \in SUBSET (1..Len(topicOf))
        /\ requests' \in Seq(RequestSet)
    BY <1>2, <2>1, EmptyFacts DEF LinkLost
  <2>3. losses' \in 0..MaxLosses
    BY <1>2, PubSubAssumption DEF LinkLost
  <2> QED
    BY <1>2, <2>1, <2>2, <2>3 DEF LinkLost, OneChannel, RequestSet
<1>3. CASE LinkBack
  <2>1. PICK order \in [1..Cardinality(Object) -> Object] :
          requests' = [i \in DOMAIN order |-> [op |-> "sub", topic |-> order[i]]]
    BY <1>3 DEF LinkBack, Object
  <2>2. Object \subseteq Topics /\ Cardinality(Object) \in Nat
    <3>1. Object = {} \/ \E c : Object = {c}
      BY DEF Object, OneChannel
    <3> QED
      BY <3>1, OneIsOne DEF Object
  <2>3. requests' \in Seq(RequestSet)
    <3>1. requests' \in [1..Cardinality(Object) -> RequestSet]
      BY <2>1, <2>2 DEF RequestSet
    <3> QED
      BY <2>2, <3>1, FunctionsAreSeqs
  <2> QED
    BY <1>3, <2>3 DEF LinkBack, OneChannel, RequestSet
<1>4. ASSUME NEW t \in Topics, Broadcast(t)
      PROVE  TypeInv'
  <2> DEFINE n == Len(topicOf) + 1
  <2>1. /\ n \in Nat /\ n <= MaxMessages /\ 1..Len(topicOf) \subseteq 1..n /\ n \in 1..n
        /\ Len(topicOf) \in Nat
    BY <1>4, LenProperties DEF Broadcast
  <2>2. /\ topicOf' = Append(topicOf, t)
        /\ queue' = queue \/ queue' = Append(queue, n)
        /\ due' = due \/ due' = due \cup {n}
    BY <1>4 DEF Broadcast
  <2>3. topicOf' \in Seq(Topics) /\ Len(topicOf') = n
    BY <2>2, AppendProperties
  <2> HIDE DEF n
  <2>4. queue' \in Seq(1..n)
    <3>1. queue \in Seq(1..n)
      BY <2>1, SeqMonotonic
    <3>2. Append(queue, n) \in Seq(1..n)
      BY <2>1, <3>1, AppendProperties
    <3> QED
      BY <2>2, <3>1, <3>2
  <2>5. returned \in Seq(Results(n))
    <3>1. Results(Len(topicOf)) \subseteq Results(n)
      BY <2>1 DEF Results
    <3>2. returned \in Seq(Results(Len(topicOf)))
      BY DEF Results
    <3> QED
      BY <3>1, <3>2, SeqMonotonic
  <2>6. due' \in SUBSET (1..n)
    BY <2>1, <2>2
  <2> QED
    BY <1>4, <2>1, <2>3, <2>4, <2>5, <2>6 DEF Broadcast, OneChannel, Results
<1> QED
  BY <1>1, <1>2, <1>3, <1>4

\* The oldest message is returned, under its topic or the one asked for.
LEMMA ReturnTypes ==
  ASSUME TypeInv, NEW t, ReturnOldest(t), queue # <<>>,
         t = topicOf[Head(queue)] \/ t \in Topics, asked \in Topics \cup {AnyTopic}
  PROVE  TypeInv'
<1> USE DEF TypeInv, PubSubTypeOK
<1> DEFINE r == [msg |-> Head(queue), topic |-> t, asked |-> asked]
<1>1. /\ Head(queue) \in 1..Len(topicOf) /\ queue' \in Seq(1..Len(topicOf))
  BY TailFacts DEF ReturnOldest
<1>2. topicOf[Head(queue)] \in Topics
  BY <1>1, ElementOfSeq
<1>3. r \in Results(Len(topicOf)) /\ returned \in Seq(Results(Len(topicOf)))
  BY <1>1, <1>2 DEF Results
<1>4. returned' = Append(returned, r)
  BY DEF ReturnOldest
<1> HIDE DEF r
<1>5. returned' \in Seq(Results(Len(topicOf)))
  BY <1>3, <1>4, AppendProperties
<1> QED
  BY <1>1, <1>5 DEF ReturnOldest, Done, OneChannel, Results, serverVars

LEMMA MqttTypes ==
  ASSUME TypeInv, SubInv,
         \/ \E f \in Filters : MqttBegin(f) \/ SimBegin(f)
         \/ MqttSubscribe \/ MqttSubscribeFails \/ MqttTake \/ MqttDiscard \/ MqttTimesOut
         \/ MqttClose
  PROVE  TypeInv'
<1> USE DEF TypeInv, PubSubTypeOK, serverVars
<1>1. ASSUME NEW f \in Filters, MqttBegin(f)
      PROVE  TypeInv'
  <2>1. \/ requests' = requests
        \/ requests' = Append(requests, Request("unsub", believed)) /\ believed # NoTopic
    BY <1>1 DEF MqttBegin
  <2>2. requests' \in Seq(RequestSet)
    <3>1. requests \in Seq(RequestSet)
      BY DEF RequestSet
    <3>2. CASE believed # NoTopic
      <4>1. Request("unsub", believed) \in RequestSet
        BY <3>2 DEF Request, RequestSet
      <4>2. Append(requests, Request("unsub", believed)) \in Seq(RequestSet)
        BY <3>1, <4>1, AppendProperties
      <4> QED
        BY <2>1, <3>1, <4>2
    <3> QED
      BY <2>1, <3>1, <3>2
  <2> QED
    BY <1>1, <2>2 DEF MqttBegin, OneChannel, RequestSet
<1>2. ASSUME NEW f \in Filters, SimBegin(f)
      PROVE  TypeInv'
  BY <1>2 DEF SimBegin, OneChannel
<1>3. CASE MqttSubscribe
  <2>1. asked \in Topics \cup {AnyTopic}
    BY <1>3, Names DEF MqttSubscribe, SubInv
  <2>2. requests' \in Seq(RequestSet)
    <3>1. requests \in Seq(RequestSet) /\ Request("sub", asked) \in RequestSet
      BY <2>1 DEF RequestSet, Request
    <3> QED
      BY <1>3, <3>1, AppendProperties DEF MqttSubscribe
  <2> QED
    BY <1>3, <2>1, <2>2 DEF MqttSubscribe, OneChannel, RequestSet
<1>4. CASE MqttSubscribeFails \/ MqttTimesOut
  BY <1>4 DEF MqttSubscribeFails, MqttTimesOut, Raise, Done, OneChannel
<1>5. CASE MqttTake
  <2>1. topicOf[Head(queue)] \in Topics
    <3>1. Head(queue) \in 1..Len(topicOf)
      BY <1>5, TailFacts DEF MqttTake
    <3> QED
      BY <3>1, ElementOfSeq
  <2>2. asked \in Topics \cup {AnyTopic}
    BY <1>5, <2>1 DEF MqttTake, Matches
  <2> QED
    BY <1>5, <2>1, <2>2, ReturnTypes DEF MqttTake
<1>6. CASE MqttDiscard
  <2>1. queue' \in Seq(1..Len(topicOf))
    BY <1>6, TailFacts DEF MqttDiscard
  <2> QED
    BY <1>6, <2>1 DEF MqttDiscard, Done, OneChannel
<1>7. CASE MqttClose
  <2>1. queue' \in Seq(1..Len(topicOf)) /\ requests' \in Seq(RequestSet)
    BY <1>7, EmptyFacts DEF MqttClose
  <2> QED
    BY <1>7, <2>1 DEF MqttClose, OneChannel, RequestSet
<1> QED
  BY <1>1, <1>2, <1>3, <1>4, <1>5, <1>6, <1>7

LEMMA RedisTypes ==
  ASSUME TypeInv, SubInv,
         \/ \E c \in Topics : RedisBegin(c)
         \/ RedisSubscribe \/ RedisSubscribeFails \/ RedisTake \/ RedisTimesOut \/ RedisRaises
         \/ RedisClose
  PROVE  TypeInv'
<1> USE DEF TypeInv, PubSubTypeOK, serverVars
<1>1. ASSUME NEW c \in Topics, RedisBegin(c)
      PROVE  TypeInv'
  <2>1. /\ channels' = channels \/ channels' = {}
        /\ queue' = queue \/ queue' = <<>>
        /\ requests' = requests \/ requests' = <<>>
        /\ subs' = subs \/ subs' = {}
        /\ due' = due \/ due' = {}
        /\ rx' \in {"subscribe", "wait"} /\ asked' = c
    BY <1>1 DEF RedisBegin
  <2>2. queue' \in Seq(1..Len(topicOf)) /\ requests' \in Seq(RequestSet)
    <3>1. requests \in Seq(RequestSet)
      BY DEF RequestSet
    <3> QED
      BY <2>1, <3>1, EmptyFacts
  <2>3. Cardinality(channels') <= 1 /\ OneChannel'
    <3>1. OneChannel'
      BY <2>1 DEF OneChannel
    <3> QED
      BY <3>1, OneIsOne DEF OneChannel
  <2> QED
    BY <1>1, <2>1, <2>2, <2>3, Names DEF RedisBegin, RequestSet
<1>2. CASE RedisSubscribe
  <2>1. asked \in Topics /\ channels' = {asked}
    BY <1>2 DEF RedisSubscribe, SubInv, RedisInv
  <2>2. requests' \in Seq(RequestSet)
    <3>1. requests \in Seq(RequestSet) /\ [op |-> "sub", topic |-> asked] \in RequestSet
      BY <2>1 DEF RequestSet
    <3> QED
      BY <1>2, <3>1, AppendProperties DEF RedisSubscribe
  <2>3. Cardinality(channels') <= 1 /\ OneChannel'
    <3>1. OneChannel'
      BY <2>1 DEF OneChannel
    <3> QED
      BY <3>1, OneIsOne DEF OneChannel
  <2> QED
    BY <1>2, <2>1, <2>2, <2>3 DEF RedisSubscribe, RequestSet
<1>3. CASE RedisSubscribeFails \/ RedisTimesOut \/ RedisRaises
  BY <1>3 DEF RedisSubscribeFails, RedisTimesOut, RedisRaises, Raise, Done, OneChannel
<1>4. CASE RedisTake
  BY <1>4, ReturnTypes DEF RedisTake, SubInv, RedisInv
<1>5. CASE RedisClose
  <2>1. queue' \in Seq(1..Len(topicOf)) /\ requests' \in Seq(RequestSet)
    BY <1>5, EmptyFacts DEF RedisClose
  <2>2. Cardinality(channels') <= 1 /\ OneChannel'
    <3>1. OneChannel'
      BY <1>5 DEF RedisClose, OneChannel
    <3> QED
      BY <3>1, OneIsOne DEF OneChannel
  <2> QED
    BY <1>5, <2>1, <2>2 DEF RedisClose, RequestSet
<1> QED
  BY <1>1, <1>2, <1>3, <1>4, <1>5

-----------------------------------------------------------------------------
(* A receive waits on a subscription that is there *)

LEMMA SettledSame ==
  ASSUME UNCHANGED <<requests, subs>>
  PROVE  Settled' = Settled
BY DEF Settled

LEMMA SettledNone ==
  ASSUME requests' = <<>>, subs' = {}
  PROVE  Settled' = {}
BY EmptyFacts DEF Settled

LEMMA SubSame ==
  ASSUME SubInv, UNCHANGED <<kind, clientVars, serverVars, harmed>>
  PROVE  SubInv'
BY SettledSame DEF SubInv, MqttInv, RedisInv, clientVars, serverVars, Object

LEMMA ServerSubs ==
  ASSUME TypeInv, SubInv, Serve \/ LinkLost \/ LinkBack \/ \E t \in Topics : Broadcast(t)
  PROVE  SubInv'
<1>1. /\ requests \in Seq(RequestSet) /\ subs \subseteq Topics \cup {AnyTopic}
      /\ channels \subseteq Topics \cup {NoTopic} /\ kind \in Kinds
      /\ up \in BOOLEAN
  BY DEF TypeInv, PubSubTypeOK, RequestSet
<1>2. CASE Serve
  <2>1. Settled' = Settled /\ UNCHANGED <<kind, clientVars, up, harmed, Object>> /\ requests # <<>>
    BY <1>1, <1>2, SettledServe DEF Serve, clientVars, Object
  <2>2. ASSUME kind = "redis"
        PROVE  /\ subs' \subseteq Object
               /\ \A i \in DOMAIN requests' : requests'[i] \in [op : {"sub"}, topic : Object]
    <3>1. \A i \in DOMAIN requests : requests[i] \in [op : {"sub"}, topic : Object]
      BY <2>2 DEF SubInv, RedisInv
    <3>2. /\ Head(requests) = requests[1] /\ 1 \in DOMAIN requests
          /\ \A i \in DOMAIN Tail(requests) : i + 1 \in DOMAIN requests
                                              /\ Tail(requests)[i] = requests[i + 1]
      BY <1>1, <2>1, TailFacts
    <3>3. requests' = Tail(requests) /\ subs' = Applied(Head(requests), subs)
      BY <1>2 DEF Serve
    <3>4. subs' \subseteq Object
      BY <2>2, <3>1, <3>2, <3>3 DEF Applied, SubInv, RedisInv
    <3> QED
      BY <3>1, <3>2, <3>3, <3>4
  <2> QED
    BY <2>1, <2>2 DEF SubInv, MqttInv, RedisInv, clientVars
<1>3. CASE LinkLost
  <2>1. Settled' = {} /\ subs' = {} /\ requests' = <<>> /\ DOMAIN requests' = {}
    BY <1>3, SettledNone, EmptyFacts DEF LinkLost
  <2> QED
    BY <1>3, <2>1 DEF LinkLost, SubInv, MqttInv, RedisInv, clientVars, Object, Kinds
<1>4. CASE LinkBack
  <2>1. PICK order \in [1..Cardinality(Object) -> Object] :
          requests' = [i \in DOMAIN order |-> [op |-> "sub", topic |-> order[i]]]
    BY <1>4 DEF LinkBack, Object
  <2>2. subs' = {} /\ up' /\ ~up /\ UNCHANGED <<kind, clientVars, harmed, Object>>
    BY <1>4 DEF LinkBack, SubInv, clientVars, Object
  <2>3. Object \subseteq Topics /\ (Object = {} \/ \E c : Object = {c})
    BY <1>1 DEF Object, TypeInv, OneChannel
  <2>4. Settled' = Object
    <3>1. CASE Object = {}
      <4>1. Cardinality(Object) = 0
        BY <3>1, FS_EmptySet, Zenon
      <4>2. DOMAIN requests' = {}
        BY <2>1, <4>1
      <4> QED
        BY <2>2, <3>1, <4>2 DEF Settled
    <3>2. ASSUME NEW c, Object = {c}
          PROVE  Settled' = Object
      <4>1. Cardinality(Object) = 1
        BY <3>2, FS_Singleton, Zenon
      <4>2. order \in [1..1 -> {c}] /\ 1..1 = {1}
        BY <2>1, <3>2, <4>1
      <4>3. DOMAIN order = {1} /\ order[1] = c
        BY <4>2
      <4>4. DOMAIN requests' = {1} /\ requests'[1] = [op |-> "sub", topic |-> c]
        BY <2>1, <4>3
      <4> QED
        <5>1. \A j \in DOMAIN requests' : ~(j > 1)
          BY <4>4
        <5> QED
          BY <2>2, <2>3, <3>2, <4>4, <5>1 DEF Settled
    <3> QED
      BY <2>3, <3>1, <3>2
  <2>5. \A i \in DOMAIN requests' : requests'[i] \in [op : {"sub"}, topic : Object]
    BY <2>1
  <2>6. CASE kind = "mqtt"
    <3>1. channels = {NoTopic} /\ harmed
      BY <2>2, <2>6 DEF SubInv, MqttInv
    <3>2. Object = {}
      BY <3>1 DEF Object
    <3> QED
      BY <2>2, <2>4, <2>6, <3>1, <3>2 DEF SubInv, MqttInv, RedisInv, clientVars
  <2>7. CASE kind # "mqtt"
    BY <2>2, <2>4, <2>5, <2>7 DEF SubInv, MqttInv, RedisInv, clientVars
  <2> QED
    BY <2>6, <2>7
<1>5. ASSUME NEW t \in Topics, Broadcast(t)
      PROVE  SubInv'
  BY <1>5, SubSame DEF Broadcast
<1> QED
  BY <1>2, <1>3, <1>4, <1>5

LEMMA MqttSubs ==
  ASSUME TypeInv, SubInv,
         \/ \E f \in Filters : MqttBegin(f) \/ SimBegin(f)
         \/ MqttSubscribe \/ MqttSubscribeFails \/ MqttTake \/ MqttDiscard \/ MqttTimesOut
         \/ MqttClose
  PROVE  SubInv'
<1>1. /\ requests \in Seq(RequestSet) /\ subs \subseteq Topics \cup {AnyTopic}
      /\ believed \in Topics \cup {AnyTopic, NoTopic} /\ asked \in Filters \cup {NoTopic}
  BY DEF TypeInv, PubSubTypeOK, RequestSet
<1>2. ASSUME NEW f \in Filters, MqttBegin(f)
      PROVE  SubInv'
  <2>1. /\ kind = "mqtt" /\ rx = "idle" /\ asked' = f /\ f # NoTopic
        /\ rx' = IF believed = f THEN "wait" ELSE "subscribe"
        /\ UNCHANGED <<kind, believed, channels, subs, up, harmed>>
        /\ requests' = IF believed \notin {f, NoTopic} /\ up
                       THEN Append(requests, Request("unsub", believed)) ELSE requests
    BY <1>2, Names DEF MqttBegin
  <2>2. Settled \subseteq {believed} /\ NoTopic \notin Settled /\ (~up => subs = {} /\ requests = <<>>)
    BY <2>1, Names DEF SubInv, MqttInv, Settled
  <2>3. CASE requests' = requests
    <3>1. Settled' = Settled
      BY <2>1, <2>3, SettledSame
    <3>2. ~up => Settled = {}
      BY <2>2, SettledEmpty
    <3>3. believed # f => Settled = {} \/ requests' # requests
      <4>1. believed # f /\ up /\ believed # NoTopic
               => requests' = Append(requests, Request("unsub", believed))
        BY <2>1
      <4>2. believed # NoTopic => Append(requests, Request("unsub", believed)) # requests
        <5>1. believed # NoTopic => Request("unsub", believed) \in RequestSet
          BY <1>1 DEF Request, RequestSet
        <5>2. \A r \in RequestSet : Len(Append(requests, r)) = Len(requests) + 1 /\ Len(requests) \in Nat
          BY <1>1, AppendFacts
        <5>3. \A r \in RequestSet : Append(requests, r) # requests
          BY <5>2
        <5> QED
          BY <5>1, <5>3
      <4> QED
        BY <2>2, <3>2, <4>1, <4>2
    <3> QED
      BY <2>1, <2>2, <2>3, <3>1, <3>3 DEF SubInv, MqttInv, RedisInv
  <2>4. CASE requests' # requests
    <3>1. /\ believed \notin {f, NoTopic} /\ up
          /\ requests' = Append(requests, Request("unsub", believed))
      BY <2>1, <2>4
    <3>2. Request("unsub", believed) \in RequestSet
      BY <1>1, <3>1 DEF Request, RequestSet
    <3>3. Settled' = Applied(Request("unsub", believed), Settled)
      BY <1>1, <2>1, <3>1, <3>2, SettledAppend
    <3>4. Settled' = {}
      BY <2>2, <3>3 DEF Applied, Request
    <3> QED
      BY <2>1, <3>1, <3>4 DEF SubInv, MqttInv, RedisInv
  <2> QED
    BY <2>3, <2>4
<1>3. ASSUME NEW f \in Filters, SimBegin(f)
      PROVE  SubInv'
  BY <1>3, Names DEF SimBegin, SubInv, MqttInv, RedisInv, serverVars
<1>4. CASE MqttSubscribe
  <2>1. asked \in Topics \cup {AnyTopic} /\ Settled = {} /\ channels = {NoTopic}
    BY <1>1, <1>4, Names DEF MqttSubscribe, SubInv, MqttInv
  <2>2. Request("sub", asked) \in RequestSet
    BY <2>1 DEF Request, RequestSet
  <2>3. Settled' = Applied(Request("sub", asked), Settled)
    BY <1>1, <1>4, <2>2, SettledAppend DEF MqttSubscribe
  <2>4. Settled' = {asked}
    BY <2>1, <2>3 DEF Applied, Request
  <2> QED
    BY <1>4, <2>1, <2>4, Names DEF MqttSubscribe, SubInv, MqttInv, RedisInv
<1>5. CASE MqttSubscribeFails
  BY <1>5, SettledSame DEF MqttSubscribeFails, Done, SubInv, MqttInv, RedisInv, serverVars
<1>6. CASE MqttTake \/ MqttDiscard \/ MqttTimesOut
  <2>1. /\ UNCHANGED <<kind, believed, channels, serverVars, harmed>>
        /\ rx = "wait" /\ kind # "redis"
        /\ (rx' = "wait" /\ asked' = asked) \/ rx' = "idle"
    BY <1>6 DEF MqttTake, MqttDiscard, MqttTimesOut, ReturnOldest, Raise, Done
  <2>2. Settled' = Settled
    BY <2>1, SettledSame DEF serverVars
  <2> QED
    BY <2>1, <2>2 DEF SubInv, MqttInv, RedisInv, serverVars
<1>7. CASE MqttClose
  <2>1. Settled' = {}
    BY <1>7, SettledNone DEF MqttClose
  <2> QED
    BY <1>7, <2>1 DEF MqttClose, SubInv, MqttInv, RedisInv
<1> QED
  BY <1>2, <1>3, <1>4, <1>5, <1>6, <1>7

LEMMA RedisSubs ==
  ASSUME TypeInv, SubInv,
         \/ \E c \in Topics : RedisBegin(c)
         \/ RedisSubscribe \/ RedisSubscribeFails \/ RedisTake \/ RedisTimesOut \/ RedisRaises
         \/ RedisClose
  PROVE  SubInv'
<1>1. /\ requests \in Seq(RequestSet) /\ subs \subseteq Topics \cup {AnyTopic}
      /\ DOMAIN <<>> = {}
  BY EmptyFacts DEF TypeInv, PubSubTypeOK, RequestSet
<1>2. kind = "redis" /\ kind' = kind
  BY DEF RedisBegin, RedisSubscribe, RedisSubscribeFails, RedisTake, RedisTimesOut,
     RedisRaises, RedisClose, ReturnOldest, Raise
<1>3. ASSUME NEW c \in Topics, RedisBegin(c)
      PROVE  SubInv'
  <2>1. c # NoTopic
    BY Names
  <2>2. CASE channels = {NoTopic} \/ believed # c
    <3>1. /\ channels' = {} /\ requests' = <<>> /\ subs' = {} /\ rx' = "subscribe" /\ asked' = c
      BY <1>3, <2>2 DEF RedisBegin
    <3>2. Settled' = {} /\ Object' = {} /\ DOMAIN requests' = {}
      BY <1>1, <3>1, SettledNone DEF Object
    <3> QED
      BY <1>2, <2>1, <3>1, <3>2 DEF SubInv, MqttInv, RedisInv
  <2>3. CASE ~(channels = {NoTopic} \/ believed # c)
    <3>1. /\ UNCHANGED <<channels, requests, subs, believed, up, harmed>>
          /\ rx' = "wait" /\ rx = "idle" /\ asked' = c
      BY <1>3, <2>3 DEF RedisBegin
    <3>2. Settled' = Settled /\ Object' = Object
      BY <3>1, SettledSame DEF Object
    <3> QED
      BY <1>2, <2>1, <2>3, <3>1, <3>2 DEF SubInv, MqttInv, RedisInv
  <2> QED
    BY <2>2, <2>3
<1>4. CASE RedisSubscribe
  <2>1. /\ asked \in Topics /\ asked # NoTopic /\ Object = {} /\ Settled = {} /\ subs = {} /\ up
        /\ \A i \in DOMAIN requests : requests[i] \in [op : {"sub"}, topic : {}]
    BY <1>2, <1>4 DEF RedisSubscribe, SubInv, RedisInv, Object
  <2> DEFINE r == [op |-> "sub", topic |-> asked]
  <2>2. r \in RequestSet /\ r.op = "sub" /\ r.topic = asked /\ r \in [op : {"sub"}, topic : {asked}]
    BY <2>1 DEF RequestSet
  <2>3. /\ channels' = {asked} /\ requests' = Append(requests, r) /\ up' /\ ~harmed'
        /\ subs' = subs /\ believed' = asked /\ rx' = "wait" /\ asked' = asked
    BY <1>2, <1>4, <2>1 DEF RedisSubscribe, SubInv, RedisInv
  <2> HIDE DEF r
  <2>4. Settled' = {asked}
    <3>1. Settled' = Applied(r, Settled)
      BY <1>1, <2>2, <2>3, SettledAppend
    <3> QED
      BY <2>1, <2>2, <3>1 DEF Applied
  <2>5. Object' = {asked}
    BY <2>1, <2>3 DEF Object
  <2>6. ASSUME NEW i \in DOMAIN requests'
        PROVE  requests'[i] \in [op : {"sub"}, topic : {asked}]
    <3>1. i \in DOMAIN requests \/ i = Len(requests) + 1
      BY <1>1, <2>2, <2>3, AppendFacts
    <3>2. i \notin DOMAIN requests
      BY <2>1
    <3>3. requests'[Len(requests) + 1] = r
      BY <1>1, <2>2, <2>3, AppendFacts
    <3> QED
      BY <2>2, <3>1, <3>2, <3>3
  <2> QED
    BY <1>2, <2>1, <2>3, <2>4, <2>5, <2>6 DEF SubInv, MqttInv, RedisInv
<1>5. CASE RedisSubscribeFails \/ RedisTake \/ RedisTimesOut \/ RedisRaises
  <2>1. /\ UNCHANGED <<believed, channels, serverVars>> /\ rx' = "idle" /\ rx # "idle"
        /\ harmed' = harmed \/ harmed'
        /\ rx = "subscribe" => harmed'
    BY <1>5 DEF RedisSubscribeFails, RedisTake, RedisTimesOut, RedisRaises, ReturnOldest,
       Raise, Done
  <2>2. Settled' = Settled /\ Object' = Object
    BY <2>1, SettledSame DEF serverVars, Object
  <2> QED
    BY <1>2, <2>1, <2>2 DEF SubInv, MqttInv, RedisInv, serverVars
<1>6. CASE RedisClose
  <2>1. Settled' = {} /\ Object' = {} /\ DOMAIN requests' = {}
    BY <1>1, <1>6, SettledNone DEF RedisClose, Object
  <2> QED
    BY <1>2, <1>6, <2>1 DEF RedisClose, SubInv, MqttInv, RedisInv
<1> QED
  BY <1>3, <1>4, <1>5, <1>6

-----------------------------------------------------------------------------
(* What is taken off the queue *)

\* The messages that wait are in order, after those returned; in the MQTT
\* client what came for the topic is what matches the one believed, in the
\* Redis client all that waits came through the one channel of the object.
MessageInv ==
  /\ kind # "redis" => \A m \in due : Matches(believed, topicOf[m])
  /\ kind = "redis" => \A i \in DOMAIN queue : topicOf[queue[i]] \in Object
  /\ NothingDropped
  /\ ReturnsItsOwn
  /\ \A i, j \in DOMAIN queue : i < j => queue[i] < queue[j]
  /\ \A i \in DOMAIN returned : \A j \in DOMAIN queue : returned[i].msg < queue[j]

\* A step that takes nothing off the queue, and returns nothing.
LEMMA MessageSame ==
  ASSUME MessageInv, UNCHANGED <<kind, queue, topicOf, returned>>,
         due' = {} \/ (due' = due /\ (kind = "redis" \/ believed' = believed)),
         kind = "redis" => Object \subseteq Object'
  PROVE  MessageInv'
BY DEF MessageInv, NothingDropped, ReturnsItsOwn

\* A step that empties the queue.
LEMMA MessageGone ==
  ASSUME MessageInv, UNCHANGED <<kind, topicOf, returned>>, queue' = <<>>, due' = {}
  PROVE  MessageInv'
<1>1. DOMAIN queue' = {}
  BY EmptyFacts
<1> QED
  BY <1>1 DEF MessageInv, NothingDropped, ReturnsItsOwn

\* What Tail leaves of a queue in order.
LEMMA QueueTail ==
  ASSUME TypeInv, MessageInv, queue # <<>>, queue' = Tail(queue)
  PROVE  /\ Head(queue) \in 1..Len(topicOf) /\ Head(queue) = queue[1] /\ 1 \in DOMAIN queue
         /\ \A j \in DOMAIN queue' : /\ j + 1 \in DOMAIN queue /\ queue'[j] = queue[j + 1]
                                     /\ Head(queue) < queue'[j]
         /\ \A i \in DOMAIN queue : i # 1 => \E j \in DOMAIN queue' : queue'[j] = queue[i]
         /\ \A i, j \in DOMAIN queue' : i < j => queue'[i] < queue'[j]
<1>1. queue \in Seq(1..Len(topicOf))
  BY DEF TypeInv, PubSubTypeOK
<1>2. /\ Head(queue) \in 1..Len(topicOf) /\ Head(queue) = queue[1] /\ 1 \in DOMAIN queue
      /\ queue' \in Seq(1..Len(topicOf))
      /\ \A j \in DOMAIN queue' : /\ j \in Nat /\ j + 1 \in DOMAIN queue
                                  /\ queue'[j] = queue[j + 1]
      /\ \A i \in DOMAIN queue : i # 1 => /\ i \in Nat /\ i > 1 /\ i - 1 \in DOMAIN queue'
                                          /\ queue'[i - 1] = queue[i]
  BY <1>1, TailFacts
<1>3. \A j \in DOMAIN queue' : j \in 1..Len(queue')
  BY <1>2, LenProperties
<1>4. \A j \in DOMAIN queue' : 1 < j + 1
  BY <1>2, <1>3
<1>5. \A i, j \in DOMAIN queue : i < j => queue[i] < queue[j]
  BY DEF MessageInv
<1>6. \A j \in DOMAIN queue' : Head(queue) < queue'[j]
  BY <1>2, <1>4, <1>5
<1>7. \A i, j \in DOMAIN queue' : i < j => i + 1 < j + 1
  BY <1>2
<1>8. \A i, j \in DOMAIN queue' : i < j => queue'[i] < queue'[j]
  BY <1>2, <1>5, <1>7
<1>9. ASSUME NEW i \in DOMAIN queue, i # 1
      PROVE  \E j \in DOMAIN queue' : queue'[j] = queue[i]
  BY <1>2, <1>9
<1>10. \A j \in DOMAIN queue' : j + 1 \in DOMAIN queue /\ queue'[j] = queue[j + 1]
  BY <1>2
<1> QED
  BY <1>2, <1>6, <1>8, <1>9, <1>10

\* The oldest message is returned under its topic to a call that asked for it.
LEMMA MessageReturned ==
  ASSUME TypeInv, MessageInv, queue # <<>>, NEW t, ReturnOldest(t),
         t = topicOf[Head(queue)], Matches(asked, t)
  PROVE  MessageInv'
<1> DEFINE r == [msg |-> Head(queue), topic |-> t, asked |-> asked]
<1>1. /\ returned' = Append(returned, r) /\ queue' = Tail(queue)
      /\ UNCHANGED <<kind, believed, channels, topicOf, due>>
  BY DEF ReturnOldest
<1>2. r.msg = Head(queue) /\ r.topic = t /\ r.asked = asked
  OBVIOUS
<1>3. /\ Head(queue) \in 1..Len(topicOf) /\ Head(queue) = queue[1] /\ 1 \in DOMAIN queue
      /\ \A j \in DOMAIN queue' : /\ j + 1 \in DOMAIN queue /\ queue'[j] = queue[j + 1]
                                  /\ Head(queue) < queue'[j]
      /\ \A i \in DOMAIN queue : i # 1 => \E j \in DOMAIN queue' : queue'[j] = queue[i]
      /\ \A i, j \in DOMAIN queue' : i < j => queue'[i] < queue'[j]
  BY <1>1, QueueTail
<1> DEFINE n == Len(returned) + 1
<1>4. /\ returned \in Seq(Results(Len(topicOf))) /\ r \in Results(Len(topicOf))
  <2>1. asked \in Topics \cup {AnyTopic} /\ t \in Topics
    <3>1. topicOf[Head(queue)] \in Topics
      BY <1>3, ElementOfSeq DEF TypeInv, PubSubTypeOK
    <3> QED
      BY <3>1 DEF Matches
  <2> QED
    BY <1>3, <2>1 DEF TypeInv, PubSubTypeOK, Results
<1> HIDE DEF r
<1>5. /\ DOMAIN returned' = DOMAIN returned \cup {n} /\ returned'[n] = r
      /\ \A i \in DOMAIN returned : i # n /\ i <= Len(returned) /\ returned'[i] = returned[i]
      /\ Len(returned) \in Nat /\ DOMAIN returned = 1..Len(returned)
  BY <1>1, <1>4, AppendFacts
<1>6. \A i \in DOMAIN returned : ~(n < i) /\ i \in Nat
  BY <1>5
<1>7. ~(n < n) /\ n \in Nat
  BY <1>5
<1> HIDE DEF n
<1>8. \A i \in DOMAIN returned : returned[i].msg < Head(queue)
  BY <1>3 DEF MessageInv
<1>9. NothingDropped'
  <2> SUFFICES ASSUME NEW m \in due
               PROVE  \/ \E i \in DOMAIN queue' : queue'[i] = m
                      \/ \E i \in DOMAIN returned' : returned'[i].msg = m
    BY <1>1 DEF NothingDropped
  <2>1. CASE \E i \in DOMAIN queue : queue[i] = m
    BY <1>2, <1>3, <1>5, <2>1
  <2>2. CASE \E i \in DOMAIN returned : returned[i].msg = m
    BY <1>5, <2>2
  <2> QED
    BY <2>1, <2>2 DEF MessageInv, NothingDropped
<1>10. ReturnsItsOwn'
  <2>1. \A i \in DOMAIN returned' : /\ returned'[i].topic = topicOf[returned'[i].msg]
                                    /\ Matches(returned'[i].asked, returned'[i].topic)
    BY <1>2, <1>5 DEF MessageInv, ReturnsItsOwn, Matches
  <2>2. \A i, j \in DOMAIN returned' : i < j => returned'[i].msg < returned'[j].msg
    BY <1>2, <1>5, <1>6, <1>7, <1>8 DEF MessageInv, ReturnsItsOwn
  <2> QED
    BY <1>1, <2>1, <2>2 DEF ReturnsItsOwn, Matches
<1>11. \A i \in DOMAIN returned' : \A j \in DOMAIN queue' : returned'[i].msg < queue'[j]
  <2>1. \A i \in DOMAIN returned : \A j \in DOMAIN queue' : returned[i].msg < queue'[j]
    BY <1>3 DEF MessageInv
  <2> QED
    BY <1>2, <1>3, <1>5, <2>1
<1>12. kind = "redis" => \A i \in DOMAIN queue' : topicOf'[queue'[i]] \in Object'
  BY <1>1, <1>3 DEF MessageInv, Object
<1> QED
  BY <1>1, <1>3, <1>9, <1>10, <1>11, <1>12 DEF MessageInv, Matches

LEMMA ServerMessages ==
  ASSUME TypeInv, SubInv, MessageInv,
         Serve \/ LinkLost \/ LinkBack \/ \E t \in Topics : Broadcast(t)
  PROVE  MessageInv'
<1>1. CASE Serve \/ LinkBack \/ (LinkLost /\ kind # "redis")
  BY <1>1, MessageSame DEF Serve, LinkBack, LinkLost, Object, clientVars
<1>2. CASE LinkLost /\ kind = "redis"
  BY <1>2, MessageGone DEF LinkLost
<1>3. ASSUME NEW t \in Topics, Broadcast(t)
      PROVE  MessageInv'
  <2> DEFINE n == Len(topicOf) + 1
             heard == kind = "sim" \/ \E f \in subs : Matches(f, t)
  <2>1. /\ topicOf' = Append(topicOf, t)
        /\ queue' = IF heard THEN Append(queue, n) ELSE queue
        /\ due' = IF heard /\ Matches(believed, t) THEN due \cup {n} ELSE due
        /\ UNCHANGED <<kind, believed, channels, returned>>
    BY <1>3 DEF Broadcast, clientVars
  <2>2. /\ topicOf \in Seq(Topics) /\ queue \in Seq(1..Len(topicOf)) /\ due \subseteq 1..Len(topicOf)
        /\ Len(topicOf) \in Nat /\ returned \in Seq(Results(Len(topicOf)))
        /\ Len(queue) \in Nat /\ DOMAIN queue = 1..Len(queue)
    BY LenProperties DEF TypeInv, PubSubTypeOK, Results
  <2>3. n \in Nat /\ n \in 1..n /\ queue \in Seq(1..n) /\ \A m \in 1..Len(topicOf) : m < n
    <3>1. n \in Nat /\ n \in 1..n /\ 1..Len(topicOf) \subseteq 1..n /\ \A m \in 1..Len(topicOf) : m < n
      BY <2>2
    <3> HIDE DEF n
    <3> QED
      BY <2>2, <3>1, SeqMonotonic
  <2>4. topicOf'[n] = t /\ \A m \in 1..Len(topicOf) : topicOf'[m] = topicOf[m]
    BY <2>1, <2>2, AppendFacts
  <2>5. /\ \A i \in DOMAIN queue : queue[i] \in 1..Len(topicOf)
        /\ \A i \in DOMAIN returned : returned[i].msg \in 1..Len(topicOf)
    <3>1. \A i \in DOMAIN queue : queue[i] \in 1..Len(topicOf)
      BY <2>2, ElementOfSeq
    <3>2. \A i \in DOMAIN returned : returned[i] \in Results(Len(topicOf))
      BY <2>2, ElementOfSeq, LenProperties
    <3> QED
      BY <3>1, <3>2 DEF Results
  <2> DEFINE k == Len(queue) + 1
  <2>6. /\ DOMAIN Append(queue, n) = DOMAIN queue \cup {k} /\ Append(queue, n)[k] = n
        /\ \A i \in DOMAIN queue : i # k /\ i <= Len(queue) /\ Append(queue, n)[i] = queue[i]
    <3> HIDE DEF n
    <3> QED
      BY <2>3, AppendFacts
  <2>7. ~(k < k) /\ \A i \in DOMAIN queue : ~(k < i)
    BY <2>2
  <2> HIDE DEF n, k, heard
  <2>8. /\ DOMAIN queue \subseteq DOMAIN queue' /\ \A i \in DOMAIN queue : queue'[i] = queue[i]
        /\ \A i \in DOMAIN queue' \ DOMAIN queue : heard /\ i = k /\ queue'[i] = n
        /\ heard => k \in DOMAIN queue' /\ queue'[k] = n
    BY <2>1, <2>6
  <2>9. kind # "redis" => \A m \in due' : Matches(believed, topicOf'[m])
    BY <2>1, <2>2, <2>4 DEF MessageInv, Matches
  <2>10. kind = "redis" => \A i \in DOMAIN queue' : topicOf'[queue'[i]] \in Object'
    <3>1. ASSUME kind = "redis", heard
          PROVE  t \in Object
      <4>1. subs \subseteq Object /\ Object \subseteq Topics
        BY <3>1 DEF SubInv, RedisInv, Object, TypeInv, PubSubTypeOK
      <4>2. PICK f \in subs : Matches(f, t)
        BY <3>1 DEF heard
      <4> QED
        BY <4>1, <4>2, Names DEF Matches
    <3>2. kind = "redis" => \A i \in DOMAIN queue : topicOf[queue[i]] \in Object
      BY DEF MessageInv
    <3>3. Object' = Object
      BY <2>1 DEF Object
    <3> QED
      BY <2>4, <2>5, <2>8, <3>1, <3>2, <3>3
  <2>11. NothingDropped'
    <3> SUFFICES ASSUME NEW m \in due'
                 PROVE  \/ \E i \in DOMAIN queue' : queue'[i] = m
                        \/ \E i \in DOMAIN returned : returned[i].msg = m
      BY <2>1 DEF NothingDropped
    <3>1. m \in due \/ (heard /\ m = n)
      BY <2>1
    <3>2. m \in due => \/ \E i \in DOMAIN queue : queue[i] = m
                       \/ \E i \in DOMAIN returned : returned[i].msg = m
      BY DEF MessageInv, NothingDropped
    <3> QED
      BY <2>8, <3>1, <3>2
  <2>12. ReturnsItsOwn'
    BY <2>1, <2>4, <2>5 DEF MessageInv, ReturnsItsOwn, Matches
  <2>13. \A i, j \in DOMAIN queue' : i < j => queue'[i] < queue'[j]
    <3>1. \A i, j \in DOMAIN queue : i < j => queue[i] < queue[j]
      BY DEF MessageInv
    <3> QED
      BY <2>3, <2>5, <2>7, <2>8, <3>1
  <2>14. \A i \in DOMAIN returned : \A j \in DOMAIN queue' : returned[i].msg < queue'[j]
    <3>1. \A i \in DOMAIN returned : \A j \in DOMAIN queue : returned[i].msg < queue[j]
      BY DEF MessageInv
    <3> QED
      BY <2>3, <2>5, <2>8, <3>1
  <2> QED
    BY <2>1, <2>9, <2>10, <2>11, <2>12, <2>13, <2>14 DEF MessageInv, Matches
<1> QED
  BY <1>1, <1>2, <1>3

LEMMA MqttMessages ==
  ASSUME TypeInv, SubInv, MessageInv,
         \/ \E f \in Filters : MqttBegin(f) \/ SimBegin(f)
         \/ MqttSubscribe \/ MqttSubscribeFails \/ MqttTake \/ MqttDiscard \/ MqttTimesOut
         \/ MqttClose
  PROVE  MessageInv'
<1>1. ASSUME NEW f \in Filters, MqttBegin(f) \/ SimBegin(f)
      PROVE  MessageInv'
  BY <1>1, MessageSame DEF MqttBegin, SimBegin
<1>2. CASE MqttSubscribe \/ MqttSubscribeFails \/ MqttTimesOut
  BY <1>2, MessageSame DEF MqttSubscribe, MqttSubscribeFails, MqttTimesOut, Raise
<1>3. CASE MqttTake
  BY <1>3, MessageReturned DEF MqttTake
<1>4. CASE MqttDiscard
  <2>1. /\ queue # <<>> /\ queue' = Tail(queue) /\ rx = "wait" /\ kind \in {"mqtt", "sim"}
        /\ ~Matches(asked, topicOf[Head(queue)])
        /\ UNCHANGED <<kind, believed, topicOf, returned, due>>
    BY <1>4 DEF MqttDiscard
  <2>2. Head(queue) \notin due
    <3>1. CASE kind = "mqtt"
      BY <2>1, <3>1 DEF SubInv, MqttInv, MessageInv
    <3>2. CASE kind = "sim"
      <4>1. \A m \in due : topicOf[m] \in Topics
        BY ElementOfSeq DEF TypeInv, PubSubTypeOK
      <4> QED
        BY <3>2, <4>1, Names DEF SubInv, MessageInv, Matches
    <3> QED
      BY <2>1, <3>1, <3>2
  <2>3. /\ Head(queue) = queue[1] /\ 1 \in DOMAIN queue
        /\ \A j \in DOMAIN queue' : j + 1 \in DOMAIN queue /\ queue'[j] = queue[j + 1]
        /\ \A i \in DOMAIN queue : i # 1 => \E j \in DOMAIN queue' : queue'[j] = queue[i]
        /\ \A i, j \in DOMAIN queue' : i < j => queue'[i] < queue'[j]
    BY <2>1, QueueTail
  <2>4. NothingDropped'
    BY <2>1, <2>2, <2>3 DEF MessageInv, NothingDropped
  <2> QED
    BY <2>1, <2>3, <2>4 DEF MessageInv, ReturnsItsOwn, Matches
<1>5. CASE MqttClose
  <2>1. CASE kind = "sim"
    BY <1>5, <2>1, MessageGone DEF MqttClose
  <2>2. CASE kind # "sim"
    BY <1>5, <2>2, MessageSame DEF MqttClose, Object
  <2> QED
    BY <2>1, <2>2
<1> QED
  BY <1>1, <1>2, <1>3, <1>4, <1>5

LEMMA RedisMessages ==
  ASSUME TypeInv, SubInv, MessageInv,
         \/ \E c \in Topics : RedisBegin(c)
         \/ RedisSubscribe \/ RedisSubscribeFails \/ RedisTake \/ RedisTimesOut \/ RedisRaises
         \/ RedisClose
  PROVE  MessageInv'
<1>1. ASSUME NEW c \in Topics, RedisBegin(c)
      PROVE  MessageInv'
  <2>1. CASE channels = {NoTopic} \/ believed # c
    BY <1>1, <2>1, MessageGone DEF RedisBegin
  <2>2. CASE ~(channels = {NoTopic} \/ believed # c)
    BY <1>1, <2>2, MessageSame DEF RedisBegin, Object
  <2> QED
    BY <2>1, <2>2
<1>2. CASE RedisSubscribe
  BY <1>2, MessageSame DEF RedisSubscribe, Object
<1>3. CASE RedisSubscribeFails \/ RedisTimesOut \/ RedisRaises
  BY <1>3, MessageSame DEF RedisSubscribeFails, RedisTimesOut, RedisRaises, Raise, Object
<1>4. CASE RedisTake
  <2>1. queue # <<>> /\ kind = "redis" /\ rx = "wait" /\ ReturnOldest(asked)
    BY <1>4 DEF RedisTake
  <2>2. Head(queue) = queue[1] /\ 1 \in DOMAIN queue
    <3>1. queue' = Tail(queue)
      BY <2>1 DEF ReturnOldest
    <3> QED
      BY <2>1, <3>1, QueueTail
  <2>3. topicOf[Head(queue)] \in Object /\ Object \subseteq {asked}
    BY <2>1, <2>2 DEF MessageInv, SubInv, RedisInv, Object
  <2> QED
    BY <2>1, <2>3, MessageReturned DEF Matches
<1>5. CASE RedisClose
  BY <1>5, MessageGone DEF RedisClose
<1> QED
  BY <1>1, <1>2, <1>3, <1>4, <1>5

-----------------------------------------------------------------------------
(* The invariant of a client *)

ClientInv == TypeInv /\ SubInv /\ MessageInv

LEMMA ClientStep ==
  ASSUME ClientInv, ClientNext
  PROVE  ClientInv'
<1>1. CASE \/ \E f \in Filters : MqttBegin(f) \/ SimBegin(f)
           \/ MqttSubscribe \/ MqttSubscribeFails \/ MqttTake \/ MqttDiscard \/ MqttTimesOut
           \/ MqttClose
  BY <1>1, MqttTypes, MqttSubs, MqttMessages DEF ClientInv
<1>2. CASE \/ \E c \in Topics : RedisBegin(c)
           \/ RedisSubscribe \/ RedisSubscribeFails \/ RedisTake \/ RedisTimesOut \/ RedisRaises
           \/ RedisClose
  BY <1>2, RedisTypes, RedisSubs, RedisMessages DEF ClientInv
<1>3. CASE Serve \/ LinkLost \/ LinkBack \/ \E t \in Topics : Broadcast(t)
  BY <1>3, ServerTypes, ServerSubs, ServerMessages DEF ClientInv
<1> QED
  BY <1>1, <1>2, <1>3 DEF ClientNext

LEMMA ClientStutters ==
  ASSUME ClientInv, UNCHANGED pubSubVars
  PROVE  ClientInv'
<1>1. UNCHANGED <<kind, queue, believed, channels, rx, asked, requests, subs, up, losses,
                  topicOf, returned, due, harmed>>
  BY DEF pubSubVars, clientVars, serverVars
<1>2. TypeInv'
  BY <1>1 DEF ClientInv, TypeInv, PubSubTypeOK, OneChannel
<1>3. SubInv'
  BY <1>1, SubSame DEF ClientInv, clientVars, serverVars
<1>4. MessageInv'
  BY <1>1, MessageSame DEF ClientInv, Object
<1> QED
  BY <1>2, <1>3, <1>4 DEF ClientInv

LEMMA ClientInit ==
  ASSUME PubSubInit
  PROVE  ClientInv
<1> USE DEF PubSubInit
<1>1. /\ DOMAIN <<>> = {} /\ Len(<<>>) = 0
      /\ \A S : <<>> \in Seq(S)
  BY EmptySeq
<1>2. TypeInv
  <2>1. Cardinality(channels) <= 1 /\ OneChannel
    <3>1. OneChannel
      BY DEF OneChannel
    <3> QED
      BY <3>1, OneIsOne DEF OneChannel
  <2>2. PubSubTypeOK
    <3>1. /\ kind \in Kinds /\ up \in BOOLEAN /\ harmed \in BOOLEAN
          /\ believed \in Topics \cup {AnyTopic, NoTopic} /\ asked \in Filters \cup {NoTopic}
          /\ channels \in SUBSET (Topics \cup {NoTopic}) /\ rx = "idle"
      OBVIOUS
    <3>2. /\ subs \in SUBSET (Topics \cup {AnyTopic}) /\ due \in SUBSET (1..Len(topicOf))
          /\ losses \in 0..MaxLosses
      BY PubSubAssumption
    <3>3. /\ queue \in Seq(1..Len(topicOf)) /\ topicOf \in Seq(Topics)
          /\ requests \in Seq(RequestSet) /\ returned \in Seq(Results(Len(topicOf)))
      BY <1>1
    <3> QED
      BY <2>1, <3>1, <3>2, <3>3 DEF PubSubTypeOK, RequestSet, Results
  <2> QED
    BY <1>1, <2>1, <2>2, PubSubAssumption DEF TypeInv
<1>3. Settled = {} /\ Object = {}
  BY <1>1 DEF Settled, Object
<1>4. SubInv
  BY <1>1, <1>3 DEF SubInv, MqttInv, RedisInv
<1>5. MessageInv
  BY <1>1 DEF MessageInv, NothingDropped, ReturnsItsOwn
<1> QED
  BY <1>2, <1>4, <1>5 DEF ClientInv

-----------------------------------------------------------------------------
(* The listens, and the invariant of the whole *)

\* A pump polls with its filter, a message in hand is one published, and the
\* thread in _receive is the pump's or the script's.
PumpInv ==
  /\ caller \in {"idle", "join", "drain", "close", "gone", "verify", "judge", "receive"}
  /\ pump \in {"off", "loop", "poll", "deliver", "hook"} /\ stopping \in BOOLEAN
  /\ filter \in Filters \cup {NoTopic} /\ FilterInv
  /\ calls \in 0..MaxCalls /\ listens \in 0..calls
  /\ inHand \in 0..MaxMessages /\ handed \in Seq(Messages)
  /\ pump \in {"deliver", "hook"} => inHand \in Messages
  /\ caller = "receive" => pump = "off"
  /\ rx # "idle" <=> (pump = "poll" \/ caller = "receive")

Rows == [msg : Messages, index : Nat, status : Device \cup {"ERROR"}]

RecorderInv ==
  /\ index \in Nat /\ raised \in 0..MaxHookErrors /\ recording \in {"on", "off", "gaps"}
  /\ writes \in Seq(Rows) /\ table \in Seq(Rows)

ListenInv == ClientInv /\ PumpInv /\ RecorderInv

\* Where a step leaves the thread in _receive.
LEMMA ReceiveSteps ==
  /\ \A f : BeginReceive(f) => rx = "idle" /\ rx' # "idle"
  /\ GoesOn => rx # "idle" /\ rx' # "idle"
  /\ Fails \/ Gets => rx # "idle" /\ rx' = "idle"
  /\ Gets => queue # <<>>
  /\ MqttClose \/ RedisClose \/ Serve \/ LinkLost \/ LinkBack => rx' = rx
  /\ \A t : Broadcast(t) => rx' = rx
  /\ UNCHANGED pubSubVars => rx' = rx
<1>1. \A f : BeginReceive(f) => rx = "idle" /\ rx' # "idle"
  BY DEF BeginReceive, MqttBegin, SimBegin, RedisBegin
<1>2. GoesOn => rx # "idle" /\ rx' # "idle"
  BY DEF GoesOn, MqttSubscribe, RedisSubscribe, MqttDiscard
<1>3. Fails => rx # "idle" /\ rx' = "idle"
  BY DEF Fails, MqttSubscribeFails, RedisSubscribeFails, RedisRaises, MqttTimesOut,
     RedisTimesOut, MqttDiscard, Raise, Done
<1>4. Gets => rx # "idle" /\ rx' = "idle" /\ queue # <<>>
  BY DEF Gets, MqttTake, RedisTake, ReturnOldest, Done
<1>5. MqttClose \/ RedisClose \/ Serve \/ LinkLost \/ LinkBack => rx' = rx
  BY DEF MqttClose, RedisClose, Serve, LinkLost, LinkBack, clientVars
<1>6. \A t : Broadcast(t) => rx' = rx
  BY DEF Broadcast, clientVars
<1>7. UNCHANGED pubSubVars => rx' = rx
  BY DEF pubSubVars, clientVars
<1> QED
  BY <1>1, <1>2, <1>3, <1>4, <1>5, <1>6, <1>7

LEMMA ScriptKeepsPump ==
  ASSUME PumpInv, Script
  PROVE  PumpInv'
<1> USE DEF PumpInv, FilterInv, listenVars, pumpVars
<1>1. MaxCalls \in Nat /\ calls \in Nat /\ listens \in Nat
  BY ListeningAssumption
<1>2. ASSUME NEW f \in Filters, Listen(f)
      PROVE  PumpInv'
  <2>1. /\ caller = "idle" /\ caller' = "idle" /\ pump = "off" /\ pump' = "loop"
        /\ stopping' = FALSE /\ filter' = f /\ UNCHANGED <<inHand, handed>>
        /\ calls < MaxCalls /\ calls' = calls + 1 /\ listens' = listens + 1
    BY <1>2 DEF Listen, Call
  <2>2. calls' \in 0..MaxCalls /\ listens' \in 0..calls'
    BY <1>1, <2>1
  <2>3. rx = "idle" /\ rx' = rx
    BY <1>2, <2>1, ReceiveSteps DEF Listen
  <2>4. stopping' \in BOOLEAN
    BY <2>1
  <2> QED
    BY <2>1, <2>2, <2>3, <2>4
<1>3. CASE MqttListen \/ RedisListen
  <2>1. PICK f \in Filters : Listen(f)
    BY <1>3 DEF MqttListen, RedisListen, Filters
  <2> QED
    BY <1>2, <2>1
<1>4. CASE ListenRefused \/ StopListen \/ CloseCall \/ VerifyCall
  BY <1>4, ReceiveSteps DEF ListenRefused, StopListen, CloseCall, VerifyCall, StopCall, Call
<1>5. CASE StopJoined \/ StopRaises \/ StopReturns \/ VerifyDrained \/ VerifyReturns
  BY <1>5, ReceiveSteps DEF StopJoined, StopRaises, StopReturns, VerifyDrained, VerifyReturns
<1>6. CASE CloseReturns
  BY <1>6, ReceiveSteps DEF CloseReturns
<1>7. ASSUME NEW f \in Filters, Receive(f)
      PROVE  PumpInv'
  BY <1>1, <1>7, ReceiveSteps DEF Receive, Call
<1> QED
  BY <1>3, <1>4, <1>5, <1>6, <1>7 DEF Script

LEMMA PumpKeepsPump ==
  ASSUME ClientInv, PumpInv, Pump
  PROVE  PumpInv'
<1> USE DEF PumpInv, FilterInv, listenVars, pumpVars
<1>1. CASE PumpPolls \/ PumpEnds \/ PollRaises \/ (pump = "poll" /\ ReceiveGoesOn)
  BY <1>1, ReceiveSteps, PubSubAssumption DEF PumpPolls, PumpEnds, PollRaises, ReceiveGoesOn
<1>2. CASE HandlerRecords \/ HandlerRaises \/ HookReturns \/ HookRaises
  BY <1>2, ReceiveSteps, PubSubAssumption DEF HandlerRecords, HandlerRaises, HookReturns, HookRaises
<1>3. CASE PollReturns
  <2>1. Head(queue) \in Messages /\ inHand' = Head(queue) /\ handed' = Append(handed, Head(queue))
    <3>1. queue # <<>> /\ queue \in Seq(1..Len(topicOf))
      BY <1>3, ReceiveSteps DEF PollReturns, ClientInv, TypeInv, PubSubTypeOK
    <3>2. Head(queue) \in 1..Len(topicOf) /\ Len(topicOf) <= MaxMessages /\ Len(topicOf) \in Nat
      BY <3>1, TailFacts, LenProperties DEF ClientInv, TypeInv, PubSubTypeOK
    <3> QED
      BY <1>3, <3>2, PubSubAssumption DEF PollReturns, Messages
  <2>2. handed' \in Seq(Messages) /\ inHand' \in 0..MaxMessages
    BY <2>1, AppendProperties, PubSubAssumption DEF Messages
  <2> QED
    BY <1>3, <2>1, <2>2, ReceiveSteps DEF PollReturns
<1> QED
  BY <1>1, <1>2, <1>3 DEF Pump

LEMMA PumpStep ==
  ASSUME ClientInv, PumpInv, [Next]_vars
  PROVE  PumpInv'
<1>1. CASE ReceiveEnds \/ (caller = "receive" /\ ReceiveGoesOn)
  BY <1>1, ReceiveSteps DEF ReceiveEnds, ReceiveGoesOn, PumpInv, FilterInv, listenVars, pumpVars
<1>2. CASE Outside \/ Writer \/ PublishFails \/ UNCHANGED vars \/ \E t \in Topics : Publish(t)
  BY <1>2, ReceiveSteps DEF Outside, Writer, PublishFails, Publish, vars, PumpInv, FilterInv,
     listenVars, pumpVars
<1> QED
  BY <1>1, <1>2, ScriptKeepsPump, PumpKeepsPump DEF Next

\* A row enqueued, or one stored.
LEMMA RecorderStep ==
  ASSUME PumpInv, RecorderInv, [Next]_vars
  PROVE  RecorderInv'
<1> USE DEF RecorderInv, recorderVars
<1>1. CASE UNCHANGED recorderVars
  BY <1>1
<1>2. CASE MakeHandler
  BY <1>2 DEF MakeHandler
<1>3. ASSUME NEW m \in Messages, NEW s \in Device \cup {"ERROR"}, Enqueue(m, s),
             raised' \in 0..MaxHookErrors
      PROVE  RecorderInv'
  <2>1. [msg |-> m, index |-> index, status |-> s] \in Rows
    BY DEF Rows
  <2>2. writes' \in Seq(Rows)
    BY <1>3, <2>1, AppendProperties DEF Enqueue
  <2> QED
    BY <1>3, <2>2 DEF Enqueue
<1>4. ASSUME EnqueueRaises, raised' \in 0..MaxHookErrors
      PROVE  RecorderInv'
  BY <1>4 DEF EnqueueRaises
<1>9. ASSUME NEW m \in Messages, RecordMessage(m) \/ RecordRaises \/ RecordError(m)
      PROVE  RecorderInv'
  BY <1>3, <1>4, <1>9, RecorderAssumption DEF RecordMessage, RecordRaises, RecordError, Device
<1>5. CASE Store
  <2>1. Head(writes) \in Rows /\ writes' \in Seq(Rows)
    BY <1>5, TailFacts DEF Store
  <2>2. table' \in Seq(Rows)
    BY <1>5, <2>1, AppendProperties DEF Store
  <2> QED
    BY <1>5, <2>1, <2>2 DEF Store
<1>6. CASE Script
  BY <1>1, <1>2, <1>6 DEF Script, MqttListen, RedisListen, Listen, ListenRefused, StopListen,
     CloseCall, StopCall, StopJoined, StopRaises, StopReturns, CloseReturns, VerifyCall,
     VerifyDrained, VerifyReturns, Receive
<1>7. CASE Pump
  <2>1. CASE HandlerRecords
    BY <1>9, <2>1 DEF HandlerRecords, PumpInv
  <2>2. CASE HookRaises
    BY <1>9, <2>2 DEF HookRaises, PumpInv
  <2>3. CASE HandlerRaises
    BY <1>9, <2>3 DEF HandlerRaises, PumpInv
  <2> QED
    BY <1>1, <1>7, <2>1, <2>2, <2>3 DEF Pump, PumpPolls, PumpEnds, HookReturns, PollRaises,
       PollReturns, ReceiveGoesOn
<1>8. CASE \/ ReceiveEnds \/ ReceiveGoesOn \/ Outside \/ PublishFails \/ UNCHANGED vars
           \/ \E t \in Topics : Publish(t)
  BY <1>1, <1>8 DEF ReceiveEnds, ReceiveGoesOn, Outside, PublishFails, Publish, vars
<1> QED
  BY <1>5, <1>6, <1>7, <1>8 DEF Next, Writer

-----------------------------------------------------------------------------
(* The theorems *)

LEMMA ListenInit ==
  ASSUME Init
  PROVE  ListenInv
<1>1. ClientInv
  BY ClientInit DEF Init
<1>2. <<>> \in Seq(Messages) /\ <<>> \in Seq(Rows)
  BY EmptyFacts
<1>3. PumpInv
  <2>1. calls \in 0..MaxCalls /\ listens \in 0..calls /\ inHand \in 0..MaxMessages
    BY PubSubAssumption, ListeningAssumption DEF Init
  <2>2. stopping \in BOOLEAN /\ handed \in Seq(Messages) /\ rx = "idle"
    BY <1>2 DEF Init, PubSubInit
  <2> QED
    BY <2>1, <2>2 DEF Init, PumpInv, FilterInv
<1>4. RecorderInv
  BY <1>2, RecorderAssumption DEF Init, RecorderInit, RecorderInv
<1> QED
  BY <1>1, <1>3, <1>4 DEF ListenInv

LEMMA ListenStep ==
  ASSUME ListenInv, [Next]_vars
  PROVE  ListenInv'
<1>1. ClientNext \/ UNCHANGED pubSubVars
  BY NextIsClients DEF ListenInv, PumpInv
<1>2. ClientInv'
  BY <1>1, ClientStep, ClientStutters DEF ListenInv
<1> QED
  BY <1>2, PumpStep, RecorderStep DEF ListenInv

\* The inductive invariant: the types, what the client believes of its
\* subscriptions, the order of what waits, the pump and the recorder.
THEOREM ListenInvariant == Spec => []ListenInv
<1>1. Init => ListenInv
  BY ListenInit
<1>2. ListenInv /\ [Next]_vars => ListenInv'
  BY ListenStep
<1> QED
  BY <1>1, <1>2, PTL DEF Spec

\* The types of the clients, of the pump and of the rows.
THEOREM ListenTypeCorrect == Spec => []ListenTypeOK
<1>1. ListenInv => ListenTypeOK
  BY DEF ListenInv, ClientInv, TypeInv, PumpInv, RecorderInv, Rows, ListenTypeOK
<1> QED
  BY <1>1, ListenInvariant, PTL

\* MqttClientWrapper._receive and RedisClientWrapper._receive: a receive that
\* waits on a sound connection waits for the one topic the server is, or is
\* about to be, subscribed to for this client, whatever topics were received
\* before, and whatever was lost and restored.
THEOREM ReceivesWaitSubscribed == Spec => []WaitsSubscribed
<1>1. ListenInv => WaitsSubscribed
  <2> SUFFICES ASSUME ListenInv, rx = "wait", kind # "sim", up, ~harmed
               PROVE  Settled = {asked}
    BY DEF WaitsSubscribed
  <2>1. CASE kind = "mqtt"
    BY <2>1 DEF ListenInv, ClientInv, SubInv, MqttInv
  <2>2. CASE kind = "redis"
    BY <2>2, Names DEF ListenInv, ClientInv, SubInv, RedisInv, Object
  <2> QED
    BY <2>1, <2>2 DEF ListenInv, ClientInv, TypeInv, PubSubTypeOK, Kinds
<1> QED
  BY <1>1, ListenInvariant, PTL

\* What came for the topic being received is returned or still waits, through
\* timeouts, other calls for it and failed calls for another topic.
THEOREM NothingIsDropped == Spec => []NothingDropped
<1>1. ListenInv => NothingDropped
  BY DEF ListenInv, ClientInv, MessageInv
<1> QED
  BY <1>1, ListenInvariant, PTL

\* Every message is returned at most once, in the order of publication, under
\* its own topic, to a call that asked for that topic.
THEOREM ReceivesItsOwn == Spec => []ReturnsItsOwn
<1>1. ListenInv => ReturnsItsOwn
  BY DEF ListenInv, ClientInv, MessageInv
<1> QED
  BY <1>1, ListenInvariant, PTL
-----------------------------------------------------------------------------
(* The rows account for the messages taken *)

AllRows == table \o writes

\* How many of the messages taken are recorded: all but the one in hand.
Taken == IF pump = "deliver" THEN Len(handed) - 1 ELSE Len(handed)

TakenBad == {i \in 1..Taken : handed[i] \in Failing}

CountsInv ==
  /\ Cardinality(With(AllRows, Device)) = Taken
  /\ Cardinality(With(AllRows, {"FAIL"})) = Cardinality(TakenBad)
  /\ Cardinality(With(AllRows, {"ERROR"})) = raised
  /\ pump = "deliver" => handed # <<>> /\ inHand = handed[Len(handed)]

\* The rows of one listen are numbered in order, and the last row of a message
\* is that of the last message recorded.
LatestInv ==
  /\ listens = 0 => AllRows = <<>> /\ handed = <<>> /\ pump = "off"
  /\ listens = 1 => index = Len(AllRows) /\ \A i \in DOMAIN AllRows : AllRows[i].index = i - 1
  /\ Taken > 0 => \E i \in With(AllRows, Device) :
       AllRows[i].msg = handed[Taken] /\ \A j \in With(AllRows, Device) : j <= i

\* A verdict that was asked for with no pump running is judged without one.
QuietInv ==
  /\ quiet => caller \in {"verify", "judge"} /\ pump = "off"
  /\ quiet /\ caller = "judge" => writes = <<>>

\* Every row is kept while there is a database and no enqueue has raised.
AccountInv == QuietInv /\ (recording = "on" => CountsInv /\ LatestInv)

LEMMA WithFacts ==
  ASSUME NEW rows \in Seq(Rows), NEW statuses
  PROVE  /\ With(rows, statuses) \subseteq 1..Len(rows) /\ Len(rows) \in Nat
         /\ IsFiniteSet(With(rows, statuses))
         /\ Cardinality(With(rows, statuses)) \in Nat
<1>1. With(rows, statuses) \subseteq 1..Len(rows) /\ Len(rows) \in Nat
  BY LenProperties DEF With
<1>2. IsFiniteSet(1..Len(rows))
  BY <1>1, FS_Interval
<1>3. IsFiniteSet(With(rows, statuses))
  BY <1>1, <1>2, FS_Subset
<1> QED
  BY <1>1, <1>3, FS_CardinalityType

LEMMA WithAppend ==
  ASSUME NEW rows \in Seq(Rows), NEW row \in Rows, NEW statuses
  PROVE  /\ row.status \in statuses =>
              /\ With(Append(rows, row), statuses) = With(rows, statuses) \cup {Len(rows) + 1}
              /\ Cardinality(With(Append(rows, row), statuses)) =
                   Cardinality(With(rows, statuses)) + 1
         /\ row.status \notin statuses =>
              With(Append(rows, row), statuses) = With(rows, statuses)
<1>1. /\ DOMAIN rows = 1..Len(rows) /\ Len(rows) \in Nat
      /\ DOMAIN Append(rows, row) = DOMAIN rows \cup {Len(rows) + 1}
      /\ \A i \in DOMAIN rows : Append(rows, row)[i] = rows[i]
      /\ Append(rows, row)[Len(rows) + 1] = row
  BY AppendFacts
<1>2. row.status \in statuses =>
        With(Append(rows, row), statuses) = With(rows, statuses) \cup {Len(rows) + 1}
  BY <1>1 DEF With
<1>3. row.status \notin statuses => With(Append(rows, row), statuses) = With(rows, statuses)
  BY <1>1 DEF With
<1>4. Len(rows) + 1 \notin With(rows, statuses) /\ IsFiniteSet(With(rows, statuses))
  BY <1>1, WithFacts
<1>5. Cardinality(With(rows, statuses) \cup {Len(rows) + 1}) = Cardinality(With(rows, statuses)) + 1
  BY <1>4, FS_AddElement
<1> QED
  BY <1>2, <1>3, <1>5

\* The database's writer leaves the rows together as they were.
LEMMA StoredRows ==
  ASSUME RecorderInv
  PROVE  /\ AllRows \in Seq(Rows)
         /\ Store => AllRows' = AllRows
         /\ \A m \in Messages, s \in Device \cup {"ERROR"} :
              Enqueue(m, s) /\ recording = "on" =>
                AllRows' = Append(AllRows, [msg |-> m, index |-> index, status |-> s])
<1>1. AllRows \in Seq(Rows)
  BY ConcatProperties DEF RecorderInv, AllRows
<1>2. ASSUME Store
      PROVE  AllRows' = AllRows
  <2>1. Head(writes) \in Rows /\ Tail(writes) \in Seq(Rows)
    BY <1>2, TailFacts DEF Store, RecorderInv
  <2>2. <<Head(writes)>> \in Seq(Rows) /\ writes = <<Head(writes)>> \o Tail(writes)
    BY <1>2, <2>1, HeadTailProperties, ConcatProperties, SeqEqual, LenProperties, EmptySeq
       DEF Store, RecorderInv
  <2>3. AllRows' = (table \o <<Head(writes)>>) \o Tail(writes)
    BY <1>2, <2>1, AppendIsConcat DEF Store, RecorderInv, AllRows
  <2> QED
    BY <2>1, <2>2, <2>3, ConcatAssociative DEF RecorderInv, AllRows
<1>3. ASSUME NEW m \in Messages, NEW s \in Device \cup {"ERROR"}, Enqueue(m, s),
             recording = "on"
      PROVE  AllRows' = Append(AllRows, [msg |-> m, index |-> index, status |-> s])
  <2> DEFINE row == [msg |-> m, index |-> index, status |-> s]
  <2>1. row \in Rows /\ <<row>> \in Seq(Rows)
    BY DEF RecorderInv, Rows
  <2>2. AllRows' = table \o (writes \o <<row>>)
    BY <1>3, <2>1, AppendIsConcat DEF RecorderInv, Enqueue, AllRows
  <2>3. AllRows' = (table \o writes) \o <<row>>
    BY <2>1, <2>2, ConcatAssociative DEF RecorderInv
  <2> QED
    BY <1>1, <2>1, <2>3, AppendIsConcat DEF AllRows
<1> QED
  BY <1>1, <1>2, <1>3

\* A step that records nothing and takes nothing.
LEMMA AccountSame ==
  ASSUME CountsInv, LatestInv, UNCHANGED <<index, raised, listens, handed, AllRows>>,
         pump' = "deliver" <=> pump = "deliver", pump = "deliver" => inHand' = inHand,
         listens = 0 => pump' = "off"
  PROVE  CountsInv' /\ LatestInv'
<1>1. Taken' = Taken /\ TakenBad' = TakenBad
  BY DEF Taken, TakenBad
<1> QED
  BY <1>1 DEF CountsInv, LatestInv, With

LEMMA ListenAccount ==
  ASSUME RecorderInv, PumpInv, CountsInv, LatestInv, NEW f, Listen(f)
  PROVE  CountsInv' /\ LatestInv'
<1>1. /\ pump = "off" /\ pump' = "loop" /\ listens' = listens + 1 /\ listens \in Nat
      /\ index' = 0 /\ UNCHANGED <<writes, table, raised, handed, AllRows>>
  BY ListeningAssumption DEF Listen, MakeHandler, AllRows, PumpInv
<1>2. Taken' = Taken /\ TakenBad' = TakenBad
  BY <1>1 DEF Taken, TakenBad
<1>3. listens' = 1 => AllRows = <<>> /\ Len(AllRows) = 0 /\ DOMAIN AllRows = {}
  BY <1>1 DEF LatestInv
<1> QED
  BY <1>1, <1>2, <1>3 DEF CountsInv, LatestInv, With

LEMMA PollAccount ==
  ASSUME ClientInv, PumpInv, CountsInv, LatestInv, PollReturns
  PROVE  CountsInv' /\ LatestInv'
<1>1. /\ pump = "poll" /\ pump' = "deliver" /\ inHand' = Head(queue)
      /\ handed' = Append(handed, Head(queue))
      /\ UNCHANGED <<index, raised, writes, table, listens, AllRows>>
  BY DEF PollReturns, recorderVars, AllRows
<1>2. handed \in Seq(Messages) /\ handed' \in Seq(Messages)
  BY PumpKeepsPump DEF Pump, PumpInv
<1>3. /\ Len(handed) \in Nat /\ Len(handed') = Len(handed) + 1 /\ handed' # <<>>
      /\ handed'[Len(handed')] = Head(queue)
      /\ \A i \in 1..Len(handed) : handed'[i] = handed[i]
  <2>1. Head(queue) \in Messages
    <3>1. queue # <<>> /\ queue \in Seq(1..Len(topicOf))
      BY ReceiveSteps DEF PollReturns, ClientInv, TypeInv, PubSubTypeOK
    <3>2. Head(queue) \in 1..Len(topicOf) /\ Len(topicOf) <= MaxMessages /\ Len(topicOf) \in Nat
      BY <3>1, TailFacts, LenProperties DEF ClientInv, TypeInv, PubSubTypeOK
    <3> QED
      BY <3>2, PubSubAssumption DEF Messages
  <2> QED
    BY <1>1, <1>2, <2>1, AppendProperties, LenProperties
<1>4. Taken = Len(handed) /\ Taken' = Len(handed) /\ TakenBad' = TakenBad
  BY <1>1, <1>3 DEF Taken, TakenBad
<1>5. listens # 0
  BY <1>1 DEF LatestInv
<1>6. CountsInv'
  BY <1>1, <1>3, <1>4 DEF CountsInv, With
<1>7. Taken > 0 => handed'[Taken] = handed[Taken]
  BY <1>3, <1>4
<1> QED
  BY <1>1, <1>4, <1>5, <1>6, <1>7 DEF LatestInv, With

LEMMA RecordsAccount ==
  ASSUME RecorderInv, PumpInv, CountsInv, LatestInv, HandlerRecords,
         recording = "on", recording' = "on"
  PROVE  CountsInv' /\ LatestInv'
<1> DEFINE s == IF inHand \in Failing THEN "FAIL" ELSE "PASS"
<1> DEFINE row == [msg |-> inHand, index |-> index, status |-> s]
<1>1. /\ pump = "deliver" /\ pump' = "hook" /\ Enqueue(inHand, s) /\ index' = index + 1
      /\ UNCHANGED <<raised, handed, listens, inHand>>
  BY DEF HandlerRecords, RecordMessage, Enqueue
<1>2. inHand \in Messages /\ handed \in Seq(Messages) /\ row \in Rows /\ s \in Device
  BY <1>1 DEF PumpInv, RecorderInv, Rows, Device
<1>3. AllRows \in Seq(Rows) /\ AllRows' = Append(AllRows, row)
  BY <1>1, <1>2, StoredRows
<1>4. /\ Len(handed) \in Nat \ {0} /\ inHand = handed[Len(handed)]
      /\ Taken = Len(handed) - 1 /\ Taken' = Len(handed)
  BY <1>1, <1>2, EmptySeq DEF CountsInv, Taken
<1>5. TakenBad' = TakenBad \cup (IF inHand \in Failing THEN {Len(handed)} ELSE {})
  BY <1>1, <1>4 DEF TakenBad
<1>6. Cardinality(TakenBad') = Cardinality(TakenBad) + (IF inHand \in Failing THEN 1 ELSE 0)
  <2>1. TakenBad \subseteq 1..Len(handed) /\ Len(handed) \notin TakenBad
    BY <1>4 DEF TakenBad
  <2>2. IsFiniteSet(TakenBad)
    <3>1. IsFiniteSet(1..Len(handed))
      BY <1>4, FS_Interval
    <3> QED
      BY <2>1, <3>1, FS_Subset
  <2>3. Cardinality(TakenBad) \in Nat
    BY <2>2, FS_CardinalityType
  <2>4. Cardinality(TakenBad \cup {Len(handed)}) = Cardinality(TakenBad) + 1
    BY <2>1, <2>2, FS_AddElement
  <2>5. CASE inHand \in Failing
    BY <1>5, <2>4, <2>5
  <2>6. CASE inHand \notin Failing
    BY <1>5, <2>3, <2>6
  <2> QED
    BY <2>5, <2>6
<1> HIDE DEF s
<1>7. row.status = s /\ (s = "FAIL" <=> inHand \in Failing) /\ s # "ERROR"
  BY DEF s
<1> HIDE DEF row
<1>8. /\ Cardinality(With(AllRows', Device)) = Cardinality(With(AllRows, Device)) + 1
      /\ Cardinality(With(AllRows', {"FAIL"})) =
           Cardinality(With(AllRows, {"FAIL"})) + (IF inHand \in Failing THEN 1 ELSE 0)
      /\ Cardinality(With(AllRows', {"ERROR"})) = Cardinality(With(AllRows, {"ERROR"}))
  <2>1. row.status \notin {"ERROR"} /\ (row.status \in {"FAIL"} <=> inHand \in Failing)
    BY <1>7
  <2>2. Cardinality(With(AllRows', Device)) = Cardinality(With(AllRows, Device)) + 1
    BY <1>2, <1>3, <1>7, WithAppend
  <2>3. CASE inHand \in Failing
    BY <1>2, <1>3, <2>1, <2>2, <2>3, WithAppend
  <2>4. CASE inHand \notin Failing
    <3>1. Cardinality(With(AllRows, {"FAIL"})) \in Nat
      BY <1>3, WithFacts
    <3> QED
      BY <1>2, <1>3, <2>1, <2>2, <2>4, <3>1, WithAppend
  <2> QED
    BY <2>3, <2>4
<1>9. CountsInv'
  BY <1>1, <1>4, <1>6, <1>8 DEF CountsInv
<1>10. LatestInv'
  <2>1. /\ DOMAIN AllRows' = DOMAIN AllRows \cup {Len(AllRows) + 1} /\ Len(AllRows) \in Nat
        /\ DOMAIN AllRows = 1..Len(AllRows) /\ Len(AllRows') = Len(AllRows) + 1
        /\ \A i \in DOMAIN AllRows : AllRows'[i] = AllRows[i]
        /\ AllRows'[Len(AllRows) + 1] = row
    BY <1>2, <1>3, AppendFacts
  <2>2. listens # 0
    BY <1>1 DEF LatestInv
  <2>3. row.index = index /\ row.msg = inHand
    BY DEF row
  <2>4. listens = 1 =>
          index' = Len(AllRows') /\ \A i \in DOMAIN AllRows' : AllRows'[i].index = i - 1
    BY <1>1, <2>1, <2>3 DEF LatestInv
  <2>5. With(AllRows', Device) = With(AllRows, Device) \cup {Len(AllRows) + 1}
    BY <1>2, <1>3, <1>7, WithAppend
  <2>6. \A j \in With(AllRows', Device) : j <= Len(AllRows) + 1
    BY <2>1, <2>5 DEF With
  <2>7. AllRows'[Len(AllRows) + 1].msg = handed'[Taken']
    BY <1>1, <1>4, <2>1, <2>3
  <2> QED
    BY <1>1, <2>2, <2>4, <2>5, <2>6, <2>7 DEF LatestInv
<1> QED
  BY <1>9, <1>10

LEMMA ErrorAccount ==
  ASSUME RecorderInv, PumpInv, CountsInv, LatestInv, HookRaises,
         recording = "on", recording' = "on"
  PROVE  CountsInv' /\ LatestInv'
<1> DEFINE row == [msg |-> inHand, index |-> index, status |-> "ERROR"]
<1>1. /\ pump = "hook" /\ pump' = "loop" /\ Enqueue(inHand, "ERROR") /\ index' = index + 1
      /\ raised' = raised + 1 /\ UNCHANGED <<handed, listens>>
  BY DEF HookRaises, RecordError, Enqueue, EnqueueRaises
<1>2. row \in Rows
  BY <1>1 DEF PumpInv, RecorderInv, Rows
<1>3. AllRows \in Seq(Rows) /\ AllRows' = Append(AllRows, row)
  BY <1>1, StoredRows DEF PumpInv
<1>4. Taken' = Taken /\ TakenBad' = TakenBad
  BY <1>1 DEF Taken, TakenBad
<1>5. row.status = "ERROR" /\ row.index = index /\ "ERROR" \notin Device /\ "ERROR" \notin {"FAIL"}
  BY DEF Device
<1> HIDE DEF row
<1>6. /\ With(AllRows', Device) = With(AllRows, Device)
      /\ With(AllRows', {"FAIL"}) = With(AllRows, {"FAIL"})
      /\ Cardinality(With(AllRows', {"ERROR"})) = Cardinality(With(AllRows, {"ERROR"})) + 1
  <2>1. row.status \notin Device /\ row.status \notin {"FAIL"} /\ row.status \in {"ERROR"}
    BY <1>5
  <2>2. With(AllRows', Device) = With(AllRows, Device)
    BY <1>2, <1>3, <2>1, WithAppend
  <2>3. With(AllRows', {"FAIL"}) = With(AllRows, {"FAIL"})
    BY <1>2, <1>3, <2>1, WithAppend
  <2>4. Cardinality(With(AllRows', {"ERROR"})) = Cardinality(With(AllRows, {"ERROR"})) + 1
    BY <1>2, <1>3, <2>1, WithAppend
  <2> QED
    BY <2>2, <2>3, <2>4
<1>7. CountsInv'
  BY <1>1, <1>4, <1>6 DEF CountsInv
<1>8. /\ DOMAIN AllRows' = DOMAIN AllRows \cup {Len(AllRows) + 1} /\ Len(AllRows) \in Nat
      /\ DOMAIN AllRows = 1..Len(AllRows) /\ Len(AllRows') = Len(AllRows) + 1
      /\ \A i \in DOMAIN AllRows : AllRows'[i] = AllRows[i]
      /\ AllRows'[Len(AllRows) + 1] = row
  BY <1>2, <1>3, AppendFacts
<1>9. listens # 0
  BY <1>1 DEF LatestInv
<1>10. listens = 1 =>
         index' = Len(AllRows') /\ \A i \in DOMAIN AllRows' : AllRows'[i].index = i - 1
  BY <1>1, <1>5, <1>8 DEF LatestInv
<1>11. \A i \in With(AllRows, Device) : AllRows'[i].msg = AllRows[i].msg
  BY <1>8 DEF With
<1>12. LatestInv'
  BY <1>1, <1>4, <1>6, <1>9, <1>10, <1>11 DEF LatestInv
<1> QED
  BY <1>7, <1>12

LEMMA AccountStep ==
  ASSUME ClientInv, PumpInv, RecorderInv, CountsInv, LatestInv, [Next]_vars,
         recording = "on", recording' = "on"
  PROVE  CountsInv' /\ LatestInv'
<1>1. listens = 0 => pump = "off"
  BY DEF LatestInv
<1>2. CASE UNCHANGED recorderVars /\ UNCHANGED <<pump, inHand, handed, listens>>
  BY <1>1, <1>2, AccountSame DEF recorderVars, AllRows
<1>3. CASE MqttListen \/ RedisListen
  BY <1>3, ListenAccount DEF MqttListen, RedisListen
<1>4. CASE Script
  BY <1>2, <1>3, <1>4 DEF Script, ListenRefused, StopListen, CloseCall, StopCall, StopJoined,
     StopRaises, StopReturns, CloseReturns, VerifyCall, VerifyDrained, VerifyReturns, Receive,
     listenVars, pumpVars
<1>5. CASE PumpPolls \/ PumpEnds \/ HookReturns \/ PollRaises
  <2>1. /\ UNCHANGED <<index, raised, listens, handed, AllRows>>
        /\ pump # "deliver" /\ pump' # "deliver" /\ pump # "off"
    BY <1>5 DEF PumpPolls, PumpEnds, HookReturns, PollRaises, recorderVars, AllRows
  <2> QED
    BY <1>1, <2>1, AccountSame
<1>6. CASE Pump
  BY <1>2, <1>5, <1>6, PollAccount, RecordsAccount, ErrorAccount DEF Pump, ReceiveGoesOn,
     HandlerRaises, RecordRaises, EnqueueRaises, listenVars, pumpVars
<1>7. CASE Writer
  BY <1>1, <1>7, StoredRows, AccountSame DEF Writer, Store, listenVars, pumpVars
<1>8. CASE \/ ReceiveEnds \/ ReceiveGoesOn \/ Outside \/ PublishFails \/ UNCHANGED vars
           \/ \E t \in Topics : Publish(t)
  BY <1>2, <1>8 DEF ReceiveEnds, ReceiveGoesOn, Outside, PublishFails, Publish, vars,
     listenVars, pumpVars
<1> QED
  BY <1>4, <1>6, <1>7, <1>8 DEF Next

\* A database does not come, nor a lost row come back.
LEMMA StaysOff ==
  ASSUME [Next]_vars, recording' = "on"
  PROVE  recording = "on"
<1> USE DEF recorderVars
<1>1. CASE Script
  BY <1>1 DEF Script, MqttListen, RedisListen, Listen, MakeHandler, ListenRefused, StopListen,
     CloseCall, StopCall, StopJoined, StopRaises, StopReturns, CloseReturns, VerifyCall,
     VerifyDrained, VerifyReturns, Receive
<1>2. CASE Pump
  BY <1>2 DEF Pump, PumpPolls, PumpEnds, HandlerRecords, HandlerRaises, HookReturns, HookRaises,
     RecordMessage, RecordRaises, RecordError, Enqueue, EnqueueRaises, PollRaises, PollReturns,
     ReceiveGoesOn
<1>3. CASE \/ ReceiveEnds \/ ReceiveGoesOn \/ Outside \/ Writer \/ PublishFails \/ UNCHANGED vars
           \/ \E t \in Topics : Publish(t)
  BY <1>3 DEF ReceiveEnds, ReceiveGoesOn, Outside, Writer, Store, PublishFails, Publish, vars
<1> QED
  BY <1>1, <1>2, <1>3 DEF Next

\* Nothing starts a pump, or records, between the call of verify and the end.
LEMMA QuietStep ==
  ASSUME PumpInv, QuietInv, [Next]_vars
  PROVE  QuietInv'
<1> USE DEF QuietInv
<1>1. CASE UNCHANGED <<quiet, caller, pump, writes>>
  BY <1>1
<1>2. CASE MqttListen \/ RedisListen
  BY <1>2 DEF MqttListen, RedisListen, Listen, Call
<1>3. CASE \/ ListenRefused \/ StopListen \/ CloseCall \/ VerifyCall
           \/ \E f \in Filters : Receive(f)
  BY <1>3 DEF ListenRefused, StopListen, CloseCall, StopCall, VerifyCall, Receive, Call,
     listenVars, pumpVars
<1>4. CASE StopJoined \/ StopRaises \/ StopReturns \/ CloseReturns \/ VerifyReturns
  BY <1>4 DEF StopJoined, StopRaises, StopReturns, CloseReturns, VerifyReturns, recorderVars,
     listenVars, pumpVars
<1>5. CASE VerifyDrained
  BY <1>5 DEF VerifyDrained, Drained, recorderVars, listenVars, pumpVars
<1>6. CASE Pump
  <2>1. (pump = "off" => pump = "poll" /\ ReceiveGoesOn) /\ UNCHANGED <<quiet, caller>>
    BY <1>6 DEF Pump, PumpPolls, PumpEnds, HandlerRecords, HandlerRaises, HookReturns,
       HookRaises, PollRaises, PollReturns, ReceiveGoesOn
  <2> QED
    BY <2>1
<1>7. CASE Writer
  <2>1. writes # <<>> /\ UNCHANGED <<quiet, caller, pump>>
    BY <1>7 DEF Writer, Store, listenVars, pumpVars
  <2> QED
    BY <2>1
<1>8. CASE Outside \/ PublishFails \/ UNCHANGED vars \/ \E t \in Topics : Publish(t)
  BY <1>1, <1>8 DEF Outside, PublishFails, Publish, vars, recorderVars, listenVars, pumpVars
<1>9. CASE ReceiveEnds \/ (caller = "receive" /\ ReceiveGoesOn)
  BY <1>9 DEF ReceiveEnds, ReceiveGoesOn, recorderVars, listenVars, pumpVars
<1> QED
  BY <1>2, <1>3, <1>4, <1>5, <1>6, <1>7, <1>8, <1>9 DEF Next, Script

LEMMA AccountInit ==
  ASSUME Init
  PROVE  AccountInv
<1>1. /\ AllRows = <<>> /\ handed = <<>> /\ pump = "off" /\ listens = 0 /\ raised = 0 /\ ~quiet
      /\ Len(handed) = 0
  <2>1. table = <<>> /\ writes = <<>>
    BY DEF Init, RecorderInit
  <2>2. <<>> \o <<>> = <<>>
    BY ConcatEmptySeq, EmptySeq
  <2> QED
    BY <2>1, <2>2 DEF Init, RecorderInit, AllRows
<1>2. Taken = 0 /\ TakenBad = {} /\ \A st : With(AllRows, st) = {}
  BY <1>1 DEF Taken, TakenBad, With
<1>3. Cardinality({}) = 0
  BY FS_EmptySet
<1>4. CountsInv
  BY <1>1, <1>2, <1>3 DEF CountsInv
<1>5. LatestInv
  BY <1>1, <1>2 DEF LatestInv
<1> QED
  BY <1>1, <1>4, <1>5 DEF AccountInv, QuietInv

\* The rows in flight and stored always count what was taken and what raised,
\* and with one listen the last message's row is the one with the greatest index.
THEOREM AccountInvariant == Spec => []AccountInv
<1>1. ListenInv /\ AccountInv /\ [Next]_vars => AccountInv'
  BY AccountStep, QuietStep, StaysOff DEF ListenInv, AccountInv
<1> QED
  BY <1>1, AccountInit, ListenInvariant, PTL DEF Spec

\* verify_recorded: asked for when no pump runs, its verdict accounts for every
\* message that pumps took off the client under the key, for those that match
\* and for every hook that raised; after one listen, latest is the last message.
\* Without a database it says missing; an enqueue that raises loses its row.
THEOREM VerdictsAccountForAll == Spec => []AccountsForAll
<1>1. ListenInv /\ AccountInv => AccountsForAll
  <2>0. recording = "off" => Judge.status = "missing"
    BY DEF Judge, Missing
  <2> SUFFICES ASSUME ListenInv, AccountInv, caller = "judge", quiet, recording = "on"
               PROVE  IF Judge.status = "missing" THEN handed = <<>>
                      ELSE /\ Judge.received = Len(handed)
                           /\ Judge.matched = HandedBad
                           /\ Judge.errors = raised
                           /\ listens = 1 /\ handed # <<>> => Judge.latest = handed[Len(handed)]
    BY <2>0 DEF AccountsForAll, ListenInv, RecorderInv
  <2> USE DEF ListenInv, RecorderInv
  <2> DEFINE device == With(table, Device)
  <2>1. writes = <<>> /\ pump = "off" /\ handed \in Seq(Messages)
    BY DEF AccountInv, QuietInv, PumpInv
  <2>2. AllRows = table /\ table \in Seq(Rows)
    BY <2>1, ConcatEmptySeq DEF AllRows
  <2>3. Taken = Len(handed) /\ TakenBad = {i \in DOMAIN handed : handed[i] \in Failing}
    BY <2>1, LenProperties DEF Taken, TakenBad
  <2>4. /\ Cardinality(device) = Len(handed)
        /\ Cardinality(With(table, {"FAIL"})) = HandedBad
        /\ Cardinality(With(table, {"ERROR"})) = raised
    BY <2>2, <2>3 DEF AccountInv, CountsInv, HandedBad
  <2>5. device = {} <=> handed = <<>>
    <3>1. Len(handed) = 0 <=> handed = <<>>
      BY <2>1, EmptySeq
    <3> QED
      BY <2>2, <2>4, <3>1, WithFacts, FS_EmptySet
  <2>6. ASSUME listens = 1, handed # <<>>
        PROVE  Latest(table, device) = handed[Len(handed)]
    <3>1. \A i \in device : i \in Nat /\ table[i].index = i - 1
      BY <2>2, <2>6, LenProperties DEF AccountInv, LatestInv, With
    <3>2. Len(handed) > 0
      BY <2>1, <2>6, EmptySeq
    <3>3. PICK last \in device : table[last].msg = handed[Len(handed)] /\ \A j \in device : j <= last
      BY <2>2, <2>3, <3>2 DEF AccountInv, LatestInv
    <3> DEFINE First(i) == \A j \in device : /\ table[j].index <= table[i].index
                                             /\ j < i => table[j].index < table[i].index
    <3>4. First(last)
      BY <3>1, <3>3
    <3>5. \A i \in device : First(i) => i = last
      BY <3>1, <3>3
    <3>6. (CHOOSE i \in device : First(i)) = last
      BY <3>3, <3>4, <3>5
    <3> QED
      BY <3>3, <3>6 DEF Latest
  <2>7. CASE device = {} /\ MinReceived > 0
    BY <2>5, <2>7 DEF Judge, Missing
  <2>8. CASE ~(device = {} /\ MinReceived > 0)
    <3>1. /\ Judge.status \in {"PASS", "FAIL"}
          /\ Judge.received = Cardinality(device)
          /\ Judge.matched = Cardinality(With(table, {"FAIL"}))
          /\ Judge.errors = Cardinality(With(table, {"ERROR"}))
          /\ Judge.latest = IF device = {} THEN 0 ELSE Latest(table, device)
      BY <2>8 DEF Judge
    <3> QED
      BY <2>4, <2>5, <2>6, <3>1
  <2> QED
    BY <2>7, <2>8
<1> QED
  BY <1>1, ListenInvariant, AccountInvariant, PTL
=============================================================================
