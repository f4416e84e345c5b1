---------------------------- MODULE MessagePump ----------------------------
(***************************************************************************)
(* MessagePump and PumpHandle (_pump.py): a handle holds the one pump a    *)
(* client may have for listening or for sending; each start makes a new    *)
(* pump with its own daemon thread, stop event and bounded outbox.  The    *)
(* threads modelled are the pump threads, the controllers (threads that    *)
(* call start and stop) and the submitters (threads that call enqueue).    *)
(* Every point at which another thread can act is a step of its own.       *)
(***************************************************************************)
EXTENDS Naturals, Sequences, FiniteSets

CONSTANTS HasPoll,      \* the pump was built with poll (a listen pump)
          HasOffer,     \* the pump was built with offer (a send pump)
          Capacity,     \* outbox_size
          Controllers,  \* threads that call PumpHandle.start and stop
          Submitters,   \* threads that call PumpHandle.submit
          MaxGen,       \* bound: pumps made over the run
          MaxItems,     \* bound: calls of submit over the run
          MaxErrors     \* bound: exceptions counted per pump

\* MessagePump.__init__ refuses a pump with neither poll nor offer.
ASSUME PumpAssumption ==
  /\ HasPoll \in BOOLEAN /\ HasOffer \in BOOLEAN /\ (HasPoll \/ HasOffer)
  /\ Capacity \in Nat \ {0}
  /\ MaxGen \in Nat /\ MaxItems \in Nat /\ MaxErrors \in Nat

Gens  == 1..MaxGen
Items == 1..MaxItems
None  == 0

VARIABLES
  handle,   \* PumpHandle._pump: the number of a pump, or None
  born,     \* pumps made so far
  ctl,      \* where each controller is in start or stop
  ctlGen,   \* the local variable pump of that call
  sub,      \* where each submitter is in submit
  subGen,   \* the local variable pump of that call
  subItem,  \* the item of that call
  calls,    \* submit calls so far; each brings a fresh item
  pc,       \* where each pump's thread is in _run
  stopEvt,  \* MessagePump._stop
  outbox,   \* MessagePump._outbox
  cur,      \* the local variable item of _drain_outbox
  sent,     \* the local variable sent of _drain_outbox
  errors,   \* MessagePump.errors
  accepted, \* history: items put_nowait took
  offered,  \* history: items whose offer returned or raised
  owed      \* history: Len(accepted) when the stop event was first set

callerVars == <<handle, born, ctl, ctlGen>>
submitVars == <<sub, subGen, subItem, calls>>
threadVars == <<pc, stopEvt, outbox, cur, sent, errors>>
vars == <<callerVars, submitVars, threadVars, accepted, offered, owed>>

Phases == {"unborn", "loop", "drain", "offerDrain", "wait", "offerWait", "poll",
           "deliver", "final", "offerFinal", "exiting", "dead"}

Init ==
  /\ handle = None /\ born = 0 /\ calls = 0
  /\ ctl = [c \in Controllers |-> "idle"] /\ ctlGen = [c \in Controllers |-> None]
  /\ sub = [s \in Submitters |-> "idle"]  /\ subGen = [s \in Submitters |-> None]
  /\ subItem = [s \in Submitters |-> None]
  /\ pc = [g \in Gens |-> "unborn"]
  /\ stopEvt = [g \in Gens |-> FALSE]
  /\ outbox = [g \in Gens |-> <<>>]
  /\ cur = [g \in Gens |-> None]
  /\ sent = [g \in Gens |-> FALSE]
  /\ errors = [g \in Gens |-> 0]
  /\ accepted = [g \in Gens |-> <<>>]
  /\ offered = [g \in Gens |-> <<>>]
  /\ owed = [g \in Gens |-> 0]

\* Thread.is_alive(): from Thread.start until the thread has ended.
Alive(g) == pc[g] \notin {"unborn", "dead"}

\* PumpHandle.running()
Running == handle # None /\ Alive(handle)

\* threading.Event.set(), with the history of what was accepted by then.
SetStop(g) ==
  /\ stopEvt' = [stopEvt EXCEPT ![g] = TRUE]
  /\ owed' = IF stopEvt[g] THEN owed ELSE [owed EXCEPT ![g] = Len(accepted[g])]

-----------------------------------------------------------------------------
(* PumpHandle.start *)

StartRefused(c) ==                       \* raises "already running"
  /\ ctl[c] = "idle" /\ Running
  /\ UNCHANGED vars

StartCheck(c) ==
  /\ ctl[c] = "idle" /\ ~Running /\ born < MaxGen
  /\ born' = born + 1
  /\ ctl' = [ctl EXCEPT ![c] = "spawn"]
  /\ ctlGen' = [ctlGen EXCEPT ![c] = born + 1]
  /\ UNCHANGED <<handle, submitVars, threadVars, accepted, offered, owed>>

\* MessagePump.start on a new pump: clear the event and the errors, start.
StartThread(c) ==
  LET g == ctlGen[c] IN
  /\ ctl[c] = "spawn"
  /\ stopEvt' = [stopEvt EXCEPT ![g] = FALSE]
  /\ errors' = [errors EXCEPT ![g] = 0]
  /\ pc' = [pc EXCEPT ![g] = "loop"]
  /\ ctl' = [ctl EXCEPT ![c] = "publish"]
  /\ UNCHANGED <<handle, born, ctlGen, submitVars, outbox, cur, sent,
                 accepted, offered, owed>>

StartPublish(c) ==
  /\ ctl[c] = "publish"
  /\ handle' = ctlGen[c]
  /\ ctl' = [ctl EXCEPT ![c] = "idle"]
  /\ ctlGen' = [ctlGen EXCEPT ![c] = None]
  /\ UNCHANGED <<born, submitVars, threadVars, accepted, offered, owed>>

-----------------------------------------------------------------------------
(* PumpHandle.stop *)

StopNothing(c) ==
  /\ ctl[c] = "idle" /\ handle = None
  /\ UNCHANGED vars

StopBegin(c) ==
  /\ ctl[c] = "idle" /\ handle # None
  /\ SetStop(handle)
  /\ ctl' = [ctl EXCEPT ![c] = "join"]
  /\ ctlGen' = [ctlGen EXCEPT ![c] = handle]
  /\ UNCHANGED <<handle, born, submitVars, pc, outbox, cur, sent, errors,
                 accepted, offered>>

\* join returns because the thread has ended (or was not alive).
StopJoined(c) ==
  /\ ctl[c] = "join" /\ ~Alive(ctlGen[c])
  /\ ctl' = [ctl EXCEPT ![c] = "joined"]
  /\ UNCHANGED <<handle, born, ctlGen, submitVars, threadVars, accepted, offered, owed>>

\* Mutant of StopTimeout: join without a timeout.
StopWaitsForEver(c) == FALSE /\ c \in Controllers /\ UNCHANGED vars

\* join gives up after _STOP_TIMEOUT_S.
StopTimeout(c) ==
  /\ ctl[c] = "join" /\ Alive(ctlGen[c])
  /\ ctl' = [ctl EXCEPT ![c] = "joined"]
  /\ UNCHANGED <<handle, born, ctlGen, submitVars, threadVars, accepted, offered, owed>>

\* "if pump.running: raise": the handle keeps the pump.
StopRaises(c) ==
  /\ ctl[c] = "joined" /\ Alive(ctlGen[c])
  /\ ctl' = [ctl EXCEPT ![c] = "idle"]
  /\ ctlGen' = [ctlGen EXCEPT ![c] = None]
  /\ UNCHANGED <<handle, born, submitVars, threadVars, accepted, offered, owed>>

\* Mutant of StopForgets: no check that the thread has ended.
StopForgetsAlways(c) ==
  /\ ctl[c] = "joined"
  /\ handle' = None
  /\ ctl' = [ctl EXCEPT ![c] = "idle"]
  /\ ctlGen' = [ctlGen EXCEPT ![c] = None]
  /\ UNCHANGED <<born, submitVars, threadVars, accepted, offered, owed>>

StopForgets(c) ==
  /\ ctl[c] = "joined" /\ ~Alive(ctlGen[c])
  /\ handle' = None
  /\ ctl' = [ctl EXCEPT ![c] = "idle"]
  /\ ctlGen' = [ctlGen EXCEPT ![c] = None]
  /\ UNCHANGED <<born, submitVars, threadVars, accepted, offered, owed>>

-----------------------------------------------------------------------------
(* PumpHandle.submit, then MessagePump.submit *)

SubmitRead(s) ==                         \* pump = self._pump
  /\ sub[s] = "idle" /\ calls < MaxItems
  /\ calls' = calls + 1
  /\ subItem' = [subItem EXCEPT ![s] = calls + 1]
  /\ subGen' = [subGen EXCEPT ![s] = handle]
  /\ sub' = [sub EXCEPT ![s] = "check"]
  /\ UNCHANGED <<callerVars, threadVars, accepted, offered, owed>>

SubmitDone(s) ==
  /\ sub' = [sub EXCEPT ![s] = "idle"]
  /\ subGen' = [subGen EXCEPT ![s] = None]
  /\ subItem' = [subItem EXCEPT ![s] = None]

Sendable(g) == g # None /\ HasOffer /\ Alive(g)

SubmitCheck(s) ==
  /\ sub[s] = "check" /\ Sendable(subGen[s])
  /\ sub' = [sub EXCEPT ![s] = "put"]
  /\ UNCHANGED <<callerVars, subGen, subItem, calls, threadVars, accepted, offered, owed>>

SubmitRefused(s) ==                      \* raises "send pump is not running"
  /\ sub[s] = "check" /\ ~Sendable(subGen[s])
  /\ SubmitDone(s)
  /\ UNCHANGED <<callerVars, calls, threadVars, accepted, offered, owed>>

\* Mutant of SubmitPut: off by one at the outbox's limit.
SubmitPutOneMore(s) ==
  LET g == subGen[s] IN
  /\ sub[s] = "put" /\ Len(outbox[g]) <= Capacity
  /\ outbox' = [outbox EXCEPT ![g] = Append(@, subItem[s])]
  /\ accepted' = [accepted EXCEPT ![g] = Append(@, subItem[s])]
  /\ SubmitDone(s)
  /\ UNCHANGED <<callerVars, calls, pc, stopEvt, cur, sent, errors, offered, owed>>

SubmitPut(s) ==
  LET g == subGen[s] IN
  /\ sub[s] = "put" /\ Len(outbox[g]) < Capacity
  /\ outbox' = [outbox EXCEPT ![g] = Append(@, subItem[s])]
  /\ accepted' = [accepted EXCEPT ![g] = Append(@, subItem[s])]
  /\ SubmitDone(s)
  /\ UNCHANGED <<callerVars, calls, pc, stopEvt, cur, sent, errors, offered, owed>>

SubmitFull(s) ==                         \* put_nowait raises queue.Full
  /\ sub[s] = "put" /\ Len(outbox[subGen[s]]) >= Capacity
  /\ SubmitDone(s)
  /\ UNCHANGED <<callerVars, calls, threadVars, accepted, offered, owed>>

-----------------------------------------------------------------------------
(* The pump's thread: _run and the methods it calls *)

threadOnly == <<callerVars, submitVars, accepted>>

Goto(g, from, to) == pc[g] = from /\ pc' = [pc EXCEPT ![g] = to]

\* _poll_one is called, or falls through when there is no poll.
AfterDrain == IF HasPoll THEN "poll" ELSE "loop"

\* Mutant of LoopTest: no final drain after the stop.
LoopTestNoFinalDrain(g) ==
  /\ IF stopEvt[g]
     THEN Goto(g, "loop", "exiting")
     ELSE Goto(g, "loop", IF HasOffer THEN "drain" ELSE AfterDrain)
  /\ sent' = [sent EXCEPT ![g] = FALSE]
  /\ UNCHANGED <<threadOnly, stopEvt, outbox, cur, errors, offered, owed>>

\* Mutant of LoopTest: the stop is seen only while there is something to drain.
LoopTestBusy(g) ==
  /\ IF stopEvt[g] /\ outbox[g] # <<>>
     THEN Goto(g, "loop", IF HasOffer THEN "final" ELSE "exiting")
     ELSE Goto(g, "loop", IF HasOffer THEN "drain" ELSE AfterDrain)
  /\ sent' = [sent EXCEPT ![g] = FALSE]
  /\ UNCHANGED <<threadOnly, stopEvt, outbox, cur, errors, offered, owed>>

\* while not self._stop.is_set(): _drain_outbox(...), or the final drain;
\* a pump without offer returns from _drain_outbox at once.
LoopTest(g) ==
  /\ IF stopEvt[g]
     THEN Goto(g, "loop", IF HasOffer THEN "final" ELSE "exiting")
     ELSE Goto(g, "loop", IF HasOffer THEN "drain" ELSE AfterDrain)
  /\ sent' = [sent EXCEPT ![g] = FALSE]
  /\ UNCHANGED <<threadOnly, stopEvt, outbox, cur, errors, offered, owed>>

\* Mutant of Take: the newest item first.
TakeNewest(g, from, to) ==
  LET n == Len(outbox[g]) IN
  /\ Goto(g, from, to) /\ outbox[g] # <<>>
  /\ cur' = [cur EXCEPT ![g] = outbox[g][n]]
  /\ outbox' = [outbox EXCEPT ![g] = SubSeq(@, 1, n - 1)]
  /\ UNCHANGED <<threadOnly, stopEvt, sent, errors, offered, owed>>

\* get_nowait (or the timed get) returns the oldest item.
Take(g, from, to) ==
  /\ Goto(g, from, to) /\ outbox[g] # <<>>
  /\ cur' = [cur EXCEPT ![g] = Head(outbox[g])]
  /\ outbox' = [outbox EXCEPT ![g] = Tail(@)]
  /\ UNCHANGED <<threadOnly, stopEvt, sent, errors, offered, owed>>

\* queue.Empty
Empty(g, from, to) ==
  /\ Goto(g, from, to) /\ outbox[g] = <<>>
  /\ UNCHANGED <<threadOnly, stopEvt, outbox, cur, sent, errors, offered, owed>>

\* Mutant of OfferOne: what could not be sent is queued again.
OfferOneRequeues(g, from, to) ==
  /\ Goto(g, from, to)
  /\ \/ /\ offered' = [offered EXCEPT ![g] = Append(@, cur[g])]
        /\ UNCHANGED <<errors, outbox>>
     \/ /\ errors[g] < MaxErrors /\ errors' = [errors EXCEPT ![g] = @ + 1]
        /\ outbox' = [outbox EXCEPT ![g] = Append(@, cur[g])]
        /\ UNCHANGED offered
  /\ cur' = [cur EXCEPT ![g] = None]
  /\ sent' = [sent EXCEPT ![g] = TRUE]
  /\ UNCHANGED <<threadOnly, stopEvt, owed>>

\* _offer_one: offer returns, or raises and the error is counted; either way
\* the item is gone from the outbox and is not tried again.
OfferOne(g, from, to) ==
  /\ Goto(g, from, to)
  /\ \/ UNCHANGED errors
     \/ errors[g] < MaxErrors /\ errors' = [errors EXCEPT ![g] = @ + 1]
  /\ offered' = [offered EXCEPT ![g] = Append(@, cur[g])]
  /\ cur' = [cur EXCEPT ![g] = None]
  /\ sent' = [sent EXCEPT ![g] = TRUE]
  /\ UNCHANGED <<threadOnly, stopEvt, outbox, owed>>

\* The first loop of _drain_outbox, called with a wait only if there is no poll.
AfterEmpty(g) == IF sent[g] \/ HasPoll THEN AfterDrain ELSE "wait"

DrainTake(g)  == Take(g, "drain", "offerDrain")
DrainOffer(g) == OfferOne(g, "offerDrain", "drain")
DrainEmpty(g) == Empty(g, "drain", AfterEmpty(g))
WaitTake(g)   == Take(g, "wait", "offerWait")
WaitOffer(g)  == OfferOne(g, "offerWait", AfterDrain)
WaitEmpty(g)  == Empty(g, "wait", AfterDrain)
FinalTake(g)  == Take(g, "final", "offerFinal")
FinalOffer(g) == OfferOne(g, "offerFinal", "final")
FinalEmpty(g) == Empty(g, "final", "exiting")

\* poll returns a message, or raises TimeoutError.
PollReturns(g) ==
  /\ Goto(g, "poll", "deliver") \/ Goto(g, "poll", "loop")
  /\ UNCHANGED <<threadOnly, stopEvt, outbox, cur, sent, errors, offered, owed>>

\* on_message returns.
HookReturns(g) ==
  /\ Goto(g, "deliver", "loop")
  /\ UNCHANGED <<threadOnly, stopEvt, outbox, cur, sent, errors, offered, owed>>

\* poll or on_message raises; the error is counted and the loop goes on.
ThreadRaises(g) ==
  /\ Goto(g, "poll", "loop") \/ Goto(g, "deliver", "loop")
  /\ errors[g] < MaxErrors
  /\ errors' = [errors EXCEPT ![g] = @ + 1]
  /\ UNCHANGED <<threadOnly, stopEvt, outbox, cur, sent, offered, owed>>

\* on_message calls the handle's own stop: the event is set, joining the
\* current thread raises RuntimeError, and the handle keeps the pump.
HookStops(g) ==
  /\ Goto(g, "deliver", "loop")
  /\ handle = g /\ errors[g] < MaxErrors
  /\ SetStop(g)
  /\ errors' = [errors EXCEPT ![g] = @ + 1]
  /\ UNCHANGED <<threadOnly, outbox, cur, sent, offered>>

\* _run has returned; the thread ends and is_alive() turns false.
ThreadEnds(g) ==
  /\ Goto(g, "exiting", "dead")
  /\ UNCHANGED <<threadOnly, stopEvt, outbox, cur, sent, errors, offered, owed>>

-----------------------------------------------------------------------------
Caller(c) ==
  \/ StartRefused(c) \/ StartCheck(c) \/ StartThread(c) \/ StartPublish(c)
  \/ StopNothing(c) \/ StopBegin(c) \/ StopJoined(c) \/ StopTimeout(c)
  \/ StopRaises(c) \/ StopForgets(c)

Submitter(s) ==
  \/ SubmitRead(s) \/ SubmitCheck(s) \/ SubmitRefused(s)
  \/ SubmitPut(s) \/ SubmitFull(s)

Thread(g) ==
  \/ LoopTest(g)
  \/ DrainTake(g) \/ DrainOffer(g) \/ DrainEmpty(g)
  \/ WaitTake(g) \/ WaitOffer(g) \/ WaitEmpty(g)
  \/ FinalTake(g) \/ FinalOffer(g) \/ FinalEmpty(g)
  \/ PollReturns(g) \/ HookReturns(g) \/ ThreadRaises(g) \/ HookStops(g)
  \/ ThreadEnds(g)

Next == \/ \E c \in Controllers : Caller(c)
        \/ \E s \in Submitters : Submitter(s)
        \/ \E g \in Gens : Thread(g)

Spec == Init /\ [][Next]_vars

\* poll, offer and on_message return in finite time: poll is called with
\* _POLL_TIMEOUT_S, and the clients' sends do not block for ever.
ThreadFairness == \A g \in Gens : WF_vars(Thread(g))
FairSpec == Spec /\ ThreadFairness
-----------------------------------------------------------------------------
(* Properties *)

\* The type invariant; the outbox never outgrows its size.
TypeOK ==
  /\ handle \in Gens \cup {None} /\ born \in 0..MaxGen /\ calls \in 0..MaxItems
  /\ ctl \in [Controllers -> {"idle", "spawn", "publish", "join", "joined"}]
  /\ ctlGen \in [Controllers -> Gens \cup {None}]
  /\ sub \in [Submitters -> {"idle", "check", "put"}]
  /\ subGen \in [Submitters -> Gens \cup {None}]
  /\ subItem \in [Submitters -> Items \cup {None}]
  /\ pc \in [Gens -> Phases]
  /\ stopEvt \in [Gens -> BOOLEAN] /\ sent \in [Gens -> BOOLEAN]
  /\ outbox \in [Gens -> Seq(Items)] /\ \A g \in Gens : Len(outbox[g]) <= Capacity
  /\ cur \in [Gens -> Items \cup {None}]
  /\ errors \in [Gens -> 0..MaxErrors]
  /\ accepted \in [Gens -> Seq(Items)] /\ offered \in [Gens -> Seq(Items)]
  /\ owed \in [Gens -> Nat]

Taken(g) == IF cur[g] = None THEN <<>> ELSE <<cur[g]>>

\* No item is lost, duplicated or reordered between put_nowait and offer,
\* whatever the interleaving, and whether or not an offer raised: what was
\* accepted is what was offered, then the item in hand, then the outbox.
ExactlyOnceInOrder ==
  \A g \in Gens : accepted[g] = offered[g] \o Taken(g) \o outbox[g]

\* Errors in poll, offer or the hook never end the loop: a thread that has
\* left it was asked to stop.
EndsOnlyWhenStopped ==
  \A g \in Gens :
    pc[g] \in {"final", "offerFinal", "exiting", "dead"} => stopEvt[g]

\* Everything accepted before the stop was requested has been offered by the
\* time the thread is gone: the final drain empties the outbox.
StopDrains ==
  \A g \in Gens : pc[g] \in {"exiting", "dead"} => Len(offered[g]) >= owed[g]

\* With one controlling thread, a live pump thread is the one the handle
\* holds (or is about to hold): a failed stop never lets go of its pump, so
\* the next stop can reach it and the next start is refused.
NoOrphan ==
  \A g \in Gens : Alive(g) =>
    handle = g \/ \E c \in Controllers : ctl[c] = "publish" /\ ctlGen[c] = g

\* With one controlling thread there is never more than one live pump thread,
\* so a socket that is only touched by the pump has one owner.
OneLivePump == \A g, h \in Gens : Alive(g) /\ Alive(h) => g = h

\* Once stop has set the event and no more submits come, the thread ends.
StopEnds ==
  \A g \in Gens :
    (stopEvt[g] /\ calls = MaxItems /\ \A s \in Submitters : sub[s] = "idle")
      ~> (pc[g] = "dead")

\* "Stop a ZMQ send thread after it delivers queued payloads": nothing that
\* enqueue accepted is still queued once the thread is gone.
NothingLeftBehind == \A g \in Gens : pc[g] = "dead" => outbox[g] = <<>>

\* The pump implements the delivery service.
PhaseOf(g) == CASE pc[g] = "unborn" -> "new"
                [] pc[g] \in {"exiting", "dead"} -> "down"
                [] OTHER -> IF stopEvt[g] THEN "stopping" ELSE "up"

Service == INSTANCE SendService WITH
  Pumps <- Gens, phase <- [g \in Gens |-> PhaseOf(g)]

ImplementsService == Service!SSafe
DeliversInOrder == Service!SSpec
=============================================================================
