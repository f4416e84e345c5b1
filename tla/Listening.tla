----------------------------- MODULE Listening -----------------------------
(***************************************************************************)
(* A test script's thread listens with a client: the API calls listen,     *)
(* stop_listen, verify_listen, receive and close (mqtt/api.py,             *)
(* redis/api.py), the listen pump that calls _receive in a loop and hands  *)
(* each message to the recorder, and the client's server, all interleaved. *)
(* The pump is seen here through its loop only; MessagePump has the rest   *)
(* of it.  All listens use one key.                                        *)
(***************************************************************************)
EXTENDS MqttReceive, RedisReceive, ListenRecorder

CONSTANTS MaxCalls   \* bound: calls of listen and receive over the run

ASSUME ListeningAssumption == MaxCalls \in Nat

VARIABLES
  caller,    \* where the script's thread is
  calls,     \* calls of listen and receive so far
  listens,   \* those of listen
  pump,      \* where the pump's thread is
  stopping,  \* its stop event
  filter,    \* the topic it listens to
  inHand,    \* the message it has taken off the client
  handed,    \* history: the messages taken off the client by pumps, in order
  quiet      \* history: verify_listen was called with no pump running

pumpVars   == <<pump, stopping, filter, inHand, handed>>
listenVars == <<calls, listens, pumpVars>>
vars == <<pubSubVars, recorderVars, caller, listenVars, quiet>>

Init ==
  /\ PubSubInit /\ RecorderInit
  /\ caller = "idle" /\ calls = 0 /\ listens = 0
  /\ pump = "off" /\ stopping = FALSE /\ filter = NoTopic /\ inHand = 0
  /\ handed = <<>> /\ quiet = FALSE

-----------------------------------------------------------------------------
(* The script's thread *)

Call(to) ==
  /\ caller = "idle" /\ caller' = to
  /\ quiet' = (to = "verify" /\ pump = "off")

\* listen: a new handler, a new pump.
Listen(f) ==
  /\ Call("idle") /\ pump = "off" /\ calls < MaxCalls
  /\ calls' = calls + 1 /\ listens' = listens + 1
  /\ pump' = "loop" /\ stopping' = FALSE /\ filter' = f
  /\ MakeHandler
  /\ UNCHANGED <<pubSubVars, inHand, handed>>

MqttListen  == kind # "redis" /\ \E f \in Filters : Listen(f)
RedisListen == kind = "redis" /\ \E c \in Topics : Listen(c)

ListenRefused ==                         \* raises "already running"
  /\ Call("idle") /\ pump # "off"
  /\ UNCHANGED <<pubSubVars, recorderVars, listenVars>>

\* stop_listen sets the event and joins; close does so first.
StopCall(to) ==
  /\ Call(to)
  /\ stopping' = (pump # "off")
  /\ UNCHANGED <<pubSubVars, recorderVars, calls, listens, pump, filter, inHand, handed>>

StopListen == StopCall("join")
CloseCall  == StopCall("close")

StopJoined ==
  /\ caller = "join" /\ pump = "off" /\ caller' = "drain"
  /\ UNCHANGED <<pubSubVars, recorderVars, listenVars, quiet>>

\* The join times out: stop raises, and neither drain nor close is reached.
StopRaises ==
  /\ caller \in {"join", "close"} /\ pump # "off" /\ caller' = "idle"
  /\ UNCHANGED <<pubSubVars, recorderVars, listenVars, quiet>>

StopReturns ==
  /\ caller = "drain" /\ Drained /\ caller' = "idle"
  /\ UNCHANGED <<pubSubVars, recorderVars, listenVars, quiet>>

CloseReturns ==
  /\ caller = "close" /\ pump = "off" /\ caller' = "gone"
  /\ MqttClose \/ RedisClose
  /\ UNCHANGED <<recorderVars, listenVars, quiet>>

VerifyCall ==
  /\ Call("verify")
  /\ UNCHANGED <<pubSubVars, recorderVars, listenVars>>

VerifyDrained ==
  /\ caller = "verify" /\ Drained /\ caller' = "judge"
  /\ UNCHANGED <<pubSubVars, recorderVars, listenVars, quiet>>

\* The rows are read and judged: the result is Judge.
VerifyReturns ==
  /\ caller = "judge" /\ caller' = "idle" /\ quiet' = FALSE
  /\ UNCHANGED <<pubSubVars, recorderVars, listenVars>>

\* _receive begins, for the pump's poll or for the script's receive.
BeginReceive(f) ==
  \/ MqttBegin(f)
  \/ SimBegin(f)
  \/ f \in Topics /\ RedisBegin(f)

\* receive: refused while a pump runs.
Receive(f) ==
  /\ pump = "off" /\ Call("receive") /\ calls < MaxCalls
  /\ calls' = calls + 1
  /\ BeginReceive(f)
  /\ UNCHANGED <<recorderVars, listens, pumpVars>>

-----------------------------------------------------------------------------
(* The steps of _receive, in the thread that called it *)

GoesOn == MqttSubscribe \/ RedisSubscribe \/ (MqttDiscard /\ rx' = "wait")
Fails  == \/ MqttSubscribeFails \/ RedisSubscribeFails \/ RedisRaises
          \/ MqttTimesOut \/ RedisTimesOut \/ (MqttDiscard /\ rx' = "idle")
Gets   == MqttTake \/ RedisTake

ReceiveGoesOn ==
  /\ GoesOn
  /\ UNCHANGED <<recorderVars, caller, listenVars, quiet>>

ReceiveEnds ==
  /\ caller = "receive" /\ (Gets \/ Fails) /\ caller' = "idle"
  /\ UNCHANGED <<recorderVars, listenVars, quiet>>

\* poll raises: TimeoutError, or an error that is counted.
PollRaises ==
  /\ pump = "poll" /\ Fails /\ pump' = "loop"
  /\ UNCHANGED <<recorderVars, caller, calls, listens, stopping, filter, inHand, handed, quiet>>

PollReturns ==
  /\ pump = "poll" /\ Gets /\ pump' = "deliver"
  /\ inHand' = Head(queue) /\ handed' = Append(handed, Head(queue))
  /\ UNCHANGED <<recorderVars, caller, calls, listens, stopping, filter, quiet>>

-----------------------------------------------------------------------------
(* The pump's loop and the handler *)

PumpPolls ==
  /\ pump = "loop" /\ ~stopping /\ pump' = "poll"
  /\ BeginReceive(filter)
  /\ UNCHANGED <<recorderVars, caller, calls, listens, stopping, filter, inHand, handed, quiet>>

PumpEnds ==
  /\ pump = "loop" /\ stopping
  /\ pump' = "off" /\ stopping' = FALSE /\ filter' = NoTopic
  /\ UNCHANGED <<pubSubVars, recorderVars, caller, calls, listens, inHand, handed, quiet>>

HandlerRecords ==
  /\ pump = "deliver" /\ pump' = "hook"
  /\ RecordMessage(inHand)
  /\ UNCHANGED <<pubSubVars, caller, calls, listens, stopping, filter, inHand, handed, quiet>>

\* The row cannot be enqueued: an error of the pump, which goes on.
HandlerRaises ==
  /\ pump = "deliver" /\ pump' = "loop" /\ inHand' = 0
  /\ RecordRaises
  /\ UNCHANGED <<pubSubVars, caller, calls, listens, stopping, filter, handed, quiet>>

\* The hook returns, or there is none.
HookReturns ==
  /\ pump = "hook" /\ pump' = "loop" /\ inHand' = 0
  /\ UNCHANGED <<pubSubVars, recorderVars, caller, calls, listens, stopping, filter, handed, quiet>>

HookRaises ==
  /\ pump = "hook" /\ pump' = "loop" /\ inHand' = 0
  /\ RecordError(inHand)
  /\ UNCHANGED <<pubSubVars, caller, calls, listens, stopping, filter, handed, quiet>>

-----------------------------------------------------------------------------
(* publish: the client's own, which needs a connection, and the device's *)

Publish(t) ==
  /\ caller # "gone" /\ Broadcast(t)
  /\ UNCHANGED <<recorderVars, caller, listenVars, quiet>>

PublishFails ==
  /\ kind # "sim" /\ ~up /\ caller = "idle" /\ UNCHANGED vars

Outside ==
  /\ \/ Serve \/ LinkLost \/ LinkBack
  /\ UNCHANGED <<recorderVars, caller, listenVars, quiet>>

Writer ==
  /\ Store
  /\ UNCHANGED <<pubSubVars, caller, listenVars, quiet>>

Script ==
  \/ MqttListen \/ RedisListen \/ ListenRefused \/ StopListen \/ StopJoined
  \/ StopRaises \/ StopReturns \/ CloseCall \/ CloseReturns
  \/ VerifyCall \/ VerifyDrained \/ VerifyReturns
  \/ \E f \in Filters : Receive(f)

Pump == \/ PumpPolls \/ PumpEnds \/ HandlerRecords \/ HandlerRaises \/ HookReturns
        \/ HookRaises \/ PollRaises \/ PollReturns \/ (pump = "poll" /\ ReceiveGoesOn)

Next == \/ Script \/ Pump \/ ReceiveEnds \/ (caller = "receive" /\ ReceiveGoesOn)
        \/ Outside \/ Writer \/ PublishFails
        \/ \E t \in Topics : Publish(t)

Spec == Init /\ [][Next]_vars
-----------------------------------------------------------------------------
(* Properties *)

\* The type invariant.
ListenTypeOK ==
  /\ PubSubTypeOK
  /\ index \in Nat /\ raised \in 0..MaxHookErrors /\ recording \in {"on", "off", "gaps"}
  /\ writes \in Seq([msg : Messages, index : Nat, status : Device \cup {"ERROR"}])
  /\ table \in Seq([msg : Messages, index : Nat, status : Device \cup {"ERROR"}])
  /\ caller \in {"idle", "join", "drain", "close", "gone", "verify", "judge", "receive"}
  /\ pump \in {"off", "loop", "poll", "deliver", "hook"} /\ stopping \in BOOLEAN
  /\ filter \in Filters \cup {NoTopic} /\ calls \in 0..MaxCalls /\ listens \in 0..calls
  /\ inHand \in 0..MaxMessages /\ handed \in Seq(Messages)
  /\ rx # "idle" <=> (pump = "poll" \/ caller = "receive")

HandedBad == Cardinality({i \in DOMAIN handed : handed[i] \in Failing})

\* A verdict asked for when no pump runs accounts for every message that pumps
\* have taken off the client under the key, each once, for the ones that
\* match and for every hook that raised; with one listen, "latest" is the
\* last message taken.  The evidence is called missing only if there is none,
\* or no database to keep it.  Nothing is claimed once an enqueue has raised:
\* the row is lost, and only the pump's error count tells.
AccountsForAll ==
  caller = "judge" /\ quiet /\ recording # "gaps" =>
    IF Judge.status = "missing" THEN recording = "off" \/ handed = <<>>
    ELSE
       /\ Judge.received = Len(handed)
       /\ Judge.matched = HandedBad
       /\ Judge.errors = raised
       /\ listens = 1 /\ handed # <<>> => Judge.latest = handed[Len(handed)]
=============================================================================
