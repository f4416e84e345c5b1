----------------------------- MODULE Deadlines -----------------------------
(***************************************************************************)
(* How long the clients wait: the loops of _receive that let messages of   *)
(* other topics pass (zmq/client.py, mqtt/client.py, redis/client.py) over *)
(* the naps of the sim mailbox (sim.py) or one timed wait, called by the   *)
(* script or by a listen pump, and the stop that joins the pump's thread   *)
(* (_pump.py).  Time passes in ticks, between any two steps; it is kept as *)
(* what is left of each wait.  A thread that has something to do does it   *)
(* at once but for MaxLate ticks over the run, which stand for the         *)
(* scheduler and for hooks that take long.  External: when messages come.  *)
(***************************************************************************)
EXTENDS Integers, Sequences

CONSTANTS Timeouts,     \* what the script calls receive with
          PollTimeout,  \* _POLL_TIMEOUT_S
          StopTimeout,  \* _STOP_TIMEOUT_S
          Nap,          \* the mailbox's time.sleep(0.01)
          MaxLate,      \* bound: ticks that a thread is late over the run
          MaxArrivals   \* bound: messages that come over the run

ASSUME DeadlinesAssumption ==
  /\ Timeouts \subseteq Nat /\ PollTimeout \in Nat /\ StopTimeout \in Nat
  /\ Nap \in Nat \ {0} /\ MaxLate \in Nat /\ MaxArrivals \in Nat

VARIABLES
  client,     \* the driver: "zmqSim", "mqttSim" (redis's is the same), "mqtt", "redis"
  script,     \* where the script's thread is: "idle", "receive", "join"
  listener,   \* and the pump's: "off", "loop", "poll", "hook"
  halt,       \* its stop event
  rx,         \* where _receive is: "out", "top", "call", "look", "nap"
  left,       \* time until its deadline
  remaining,  \* its local variable
  wait,       \* time until the deadline of mailbox.receive, get or get_message
  nap,        \* time until the end of a nap
  join,       \* time until the end of stop's join
  inbox,      \* messages that wait; since: how much was left when they came
  arrivals,   \* messages that came
  late,       \* history: ticks that passed while a thread was due
  missed      \* history: a receive timed out over a message that came in time

timers    == <<left, wait, nap, join>>
threads   == <<script, listener, halt>>
delayVars == <<client, threads, rx, timers, remaining, inbox, arrivals, late, missed>>

Clients == {"zmqSim", "mqttSim", "mqtt", "redis"}
Naps    == client \in {"zmqSim", "mqttSim"}

DelayInit ==
  /\ client \in Clients /\ script = "idle" /\ listener = "off" /\ halt = FALSE
  /\ rx = "out" /\ left = 0 /\ remaining = 0 /\ wait = 0 /\ nap = 0 /\ join = 0
  /\ inbox = <<>> /\ arrivals = 0 /\ late = 0 /\ missed = FALSE
-----------------------------------------------------------------------------
(* _receive *)

\* deadline = time.monotonic() + timeout
Enter(timeout) ==
  /\ rx = "out" /\ rx' = "top" /\ left' = timeout
  /\ inbox' = [i \in DOMAIN inbox |-> [inbox[i] EXCEPT !.since = timeout]]
  /\ UNCHANGED <<client, remaining, wait, nap, join, arrivals, late, missed>>

\* The call ends, for the script or for the pump's loop.
Exit(then) ==
  /\ rx' = "out" /\ left' = 0 /\ remaining' = 0 /\ wait' = 0 /\ nap' = 0
  /\ script' = IF script = "receive" THEN "idle" ELSE script
  /\ listener' = IF listener = "poll" THEN then ELSE listener
  /\ UNCHANGED <<client, halt, join, arrivals, late>>

\* A matching message that was there when the call began, or came well before
\* its deadline, and is still waiting.
Overlooked ==
  \E i \in DOMAIN inbox :
    inbox[i].ours /\ inbox[i].since > (IF Naps THEN Nap ELSE 0) + late

TimesOut == Exit("loop") /\ missed' = (missed \/ Overlooked) /\ UNCHANGED inbox

\* Too late for another turn of the loop; the sim drivers of MQTT and Redis
\* look at the mailbox once more in any case.
Overdue == \/ client \in {"zmqSim", "mqtt"} /\ left <= 0
           \/ client = "redis" /\ left < 0

\* Mutant of Compute: each message of another topic buys a whole new wait.
ComputeAfresh ==
  /\ rx = "top" /\ ~Overdue
  /\ rx' = "call" /\ remaining' = PollTimeout
  /\ UNCHANGED <<client, threads, timers, inbox, arrivals, late, missed>>

\* remaining = deadline - time.monotonic()
Compute ==
  /\ rx = "top" /\ ~Overdue
  /\ rx' = "call" /\ remaining' = left
  /\ UNCHANGED <<client, threads, timers, inbox, arrivals, late, missed>>

TopTimesOut == rx = "top" /\ Overdue /\ TimesOut

\* The timed wait is called and makes a deadline of its own.
Wait ==
  /\ rx = "call" /\ rx' = "look"
  /\ wait' = IF remaining < 0 THEN 0 ELSE remaining
  /\ UNCHANGED <<client, threads, left, nap, join, remaining, inbox, arrivals, late, missed>>

Take ==
  /\ rx = "look" /\ inbox # <<>> /\ Head(inbox).ours
  /\ Exit("hook") /\ inbox' = Tail(inbox) /\ UNCHANGED missed

\* After a message of another topic: no time for one more.
LastTry == \/ client = "mqttSim" /\ remaining <= 0
           \/ client = "redis" /\ left <= 0

\* Mutant of PassOver: a message of another topic ends the wait.
PassOverEnds ==
  /\ rx = "look" /\ inbox # <<>> /\ ~Head(inbox).ours
  /\ Exit("loop") /\ inbox' = Tail(inbox) /\ missed' = (missed \/ Overlooked)

\* A message of another topic, or for Redis an answer that is no message.
PassOver ==
  /\ rx = "look" /\ inbox # <<>> /\ ~Head(inbox).ours
  /\ inbox' = Tail(inbox)
  /\ IF LastTry THEN Exit("loop") /\ missed' = (missed \/ Overlooked)
     ELSE rx' = "top" /\ UNCHANGED <<client, threads, timers, remaining, arrivals, late, missed>>

WaitTimesOut == rx = "look" /\ inbox = <<>> /\ wait <= 0 /\ TimesOut

\* mailbox.receive sleeps between two looks; queue and socket wake their waiter.
Sleep ==
  /\ rx = "look" /\ inbox = <<>> /\ wait > 0 /\ Naps
  /\ rx' = "nap" /\ nap' = Nap
  /\ UNCHANGED <<client, threads, left, wait, join, remaining, inbox, arrivals, late, missed>>

Wake ==
  /\ rx = "nap" /\ nap <= 0 /\ rx' = "look" /\ nap' = 0
  /\ UNCHANGED <<client, threads, left, wait, join, remaining, inbox, arrivals, late, missed>>

ReceiveStep == \/ Compute \/ TopTimesOut \/ Wait \/ Take \/ PassOver
               \/ WaitTimesOut \/ Sleep \/ Wake
-----------------------------------------------------------------------------
(* The script and the pump *)

ReceiveCall ==
  /\ script = "idle" /\ listener = "off" /\ script' = "receive"
  /\ \E timeout \in Timeouts : Enter(timeout)
  /\ UNCHANGED <<listener, halt>>

notInCall == <<client, rx, left, wait, nap, remaining, inbox, arrivals, late, missed>>

ListenCall ==
  /\ script = "idle" /\ listener = "off"
  /\ listener' = "loop" /\ halt' = FALSE /\ UNCHANGED <<script, join, notInCall>>

PumpPolls ==
  /\ listener = "loop" /\ ~halt /\ listener' = "poll"
  /\ Enter(PollTimeout) /\ UNCHANGED <<script, halt>>

PumpEnds ==
  /\ listener = "loop" /\ halt /\ listener' = "off"
  /\ UNCHANGED <<script, halt, join, notInCall>>

\* Mutant of HookReturns: the next poll follows without a look at the event.
HookPolls ==
  /\ listener = "hook" /\ listener' = "poll"
  /\ Enter(PollTimeout) /\ UNCHANGED <<script, halt>>

HookReturns ==
  /\ listener = "hook" /\ listener' = "loop"
  /\ UNCHANGED <<script, halt, join, notInCall>>

StopCall ==
  /\ script = "idle" /\ listener # "off"
  /\ halt' = TRUE /\ script' = "join" /\ join' = StopTimeout
  /\ UNCHANGED <<listener, notInCall>>

StopReturns ==
  /\ script = "join" /\ listener = "off" /\ script' = "idle" /\ join' = 0
  /\ UNCHANGED <<listener, halt, notInCall>>

StopRaises ==
  /\ script = "join" /\ listener # "off" /\ join <= 0 /\ script' = "idle" /\ join' = 0
  /\ UNCHANGED <<listener, halt, notInCall>>
-----------------------------------------------------------------------------
(* Messages and time *)

Arrive ==
  /\ arrivals < MaxArrivals /\ arrivals' = arrivals + 1
  /\ \E ours \in BOOLEAN : inbox' = Append(inbox, [ours |-> ours, since |-> left])
  /\ UNCHANGED <<client, threads, rx, timers, remaining, late, missed>>

\* A thread has something to do.
Due ==
  \/ rx \in {"top", "call"} \/ listener \in {"loop", "hook"}
  \/ rx = "look" /\ (inbox # <<>> \/ wait <= 0 \/ Naps)
  \/ rx = "nap" /\ nap <= 0
  \/ script = "join" /\ (listener = "off" \/ join <= 0)

Less(time, running) == IF running THEN time - 1 ELSE time

Tick ==
  /\ rx # "out" \/ listener # "off" \/ script = "join"
  /\ late' = IF Due THEN late + 1 ELSE late
  /\ late' <= MaxLate
  /\ left' = Less(left, rx # "out") /\ wait' = Less(wait, rx \in {"look", "nap"})
  /\ nap' = Less(nap, rx = "nap") /\ join' = Less(join, script = "join")
  /\ UNCHANGED <<client, threads, rx, remaining, inbox, arrivals, missed>>

DelayNext ==
  \/ ReceiveStep \/ ReceiveCall \/ ListenCall \/ PumpPolls \/ PumpEnds \/ HookReturns
  \/ StopCall \/ StopReturns \/ StopRaises \/ Arrive \/ Tick

DelaySpec == DelayInit /\ [][DelayNext]_delayVars
-----------------------------------------------------------------------------
(* Properties *)

\* The type invariant.
DelayTypeOK ==
  /\ client \in Clients /\ script \in {"idle", "receive", "join"}
  /\ listener \in {"off", "loop", "poll", "hook"} /\ halt \in BOOLEAN
  /\ rx \in {"out", "top", "call", "look", "nap"} /\ missed \in BOOLEAN
  /\ {left, remaining, wait, nap, join} \subseteq Int
  /\ inbox \in Seq([ours : BOOLEAN, since : Int])
  /\ arrivals \in 0..MaxArrivals /\ late \in 0..MaxLate

\* How much later than its deadline a receive may end by its own doing: the
\* rest of a nap.
Overshoot == IF Naps THEN Nap - 1 ELSE 0

\* "Wait timeout in seconds": messages of other topics, however many and
\* whenever they come, never make a receive wait longer than its timeout.
WaitsNoLonger == rx # "out" => left + Overshoot + late >= 0

\* A TimeoutError, "an error rather than a fabricated message", is never
\* raised while a message of the topic waits that was there before the call or
\* came before the last nap; a timeout of zero is left out (mqtt and the sim
\* of ZMQ do not look at all then).
TimesOutRightly == ~missed

\* stop_listen's join outlasts the poll that is under way when it is called:
\* it never finds the thread alive unless threads are late by the whole
\* difference of the two timeouts.
StopInTime ==
  script = "join" /\ listener # "off" =>
    join + late + Overshoot >= StopTimeout - PollTimeout
=============================================================================
