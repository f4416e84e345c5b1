-------------------------- MODULE Deadlines_proofs --------------------------
(* The waits of receive, of a listen pump and of stop_listen, for every      *)
(* timeout, every length of a nap, every lateness of threads and any number  *)
(* of messages.                                                              *)
EXTENDS Deadlines, TLAPS

\* What is left of every wait is known from what is left of the one around it.
Nested ==
  /\ WaitsNoLonger
  /\ rx = "call" => remaining <= left + late
  /\ rx \in {"look", "nap"} => wait <= left + late \/ wait <= 0
  /\ rx = "nap" => Naps /\ nap <= Nap /\ left + late >= 1 - Nap + nap
  /\ rx \in {"call", "look", "nap"} => left <= remaining

\* A poll began before the stop that joins it, or ends with its event set.
Joined ==
  /\ listener = "poll" => rx # "out" /\ left <= PollTimeout
  /\ script = "join" => halt
  /\ script = "join" /\ listener = "poll" => StopTimeout - join <= PollTimeout - left
  /\ script = "join" /\ listener \in {"loop", "hook"} =>
       StopTimeout - join <= PollTimeout + Overshoot + late

\* How long a message may wait for a thread that is never late: the part of
\* its nap that it has slept.
Slept == IF ~Naps THEN 0 ELSE IF rx = "nap" /\ nap > 0 THEN Nap - nap ELSE Nap

\* A message that waits came when not much more was left than now.
Noticed ==
  /\ ~missed
  /\ rx # "out" => \A i \in DOMAIN inbox : inbox[i].since <= left + late + Slept

DelayInv == DelayTypeOK /\ Nested /\ Joined /\ Noticed

Msg == [ours : BOOLEAN, since : Int]

\* What is kept with a message is a time.
LEMMA Since ==
  ASSUME NEW s \in Seq(Msg)
  PROVE  \A i \in DOMAIN s : s[i].since \in Int
<1>1. ASSUME NEW m \in Msg PROVE m.since \in Int
  BY DEF Msg
<1>2. \A i \in DOMAIN s : s[i] \in Msg
  OBVIOUS
<1> QED
  BY <1>1, <1>2

LEMMA TypedInbox ==
  ASSUME DelayTypeOK
  PROVE  inbox \in Seq(Msg)
  BY DEF DelayTypeOK, Msg

\* A receive that begins measures the messages that wait from its own start.
LEMMA Restamped ==
  ASSUME NEW timeout \in Int, inbox \in Seq(Msg),
         inbox' = [i \in DOMAIN inbox |-> [inbox[i] EXCEPT !.since = timeout]]
  PROVE  /\ inbox' \in Seq(Msg)
         /\ \A i \in DOMAIN inbox' : inbox'[i].since = timeout
<1>1. \A i \in 1..Len(inbox) : inbox[i] \in Msg
  OBVIOUS
<1>2. \A i \in 1..Len(inbox) : [inbox[i] EXCEPT !.since = timeout] \in Msg
  BY <1>1 DEF Msg
<1>3. inbox' \in [1..Len(inbox) -> Msg] /\ Len(inbox) \in Nat
  BY <1>2
<1>4. ASSUME NEW i \in DOMAIN inbox'
      PROVE  inbox'[i].since = timeout
  <2>1. i \in 1..Len(inbox) /\ inbox'[i] = [inbox[i] EXCEPT !.since = timeout]
    OBVIOUS
  <2>2. ASSUME NEW m \in Msg
        PROVE  [m EXCEPT !.since = timeout].since = timeout
    BY DEF Msg
  <2> QED
    BY <1>1, <2>1, <2>2
<1> QED
  BY <1>3, <1>4

\* A message that is taken leaves the others as they are.
LEMMA TailOf ==
  ASSUME inbox \in Seq(Msg), inbox # <<>>, inbox' = Tail(inbox)
  PROVE  /\ inbox' \in Seq(Msg)
         /\ \A i \in DOMAIN inbox' : i + 1 \in DOMAIN inbox /\ inbox'[i] = inbox[i + 1]
  OBVIOUS

\* A message that comes is stamped with what is left.
LEMMA Arrived ==
  ASSUME inbox \in Seq(Msg), left \in Int, NEW ours \in BOOLEAN,
         inbox' = Append(inbox, [ours |-> ours, since |-> left])
  PROVE  /\ inbox' \in Seq(Msg)
         /\ \A i \in DOMAIN inbox' :
              inbox'[i].since = left \/ (i \in DOMAIN inbox /\ inbox'[i] = inbox[i])
<1> DEFINE new == [ours |-> ours, since |-> left]
<1>1. new \in Msg /\ new.since = left
  BY DEF Msg
<1>2. inbox' = Append(inbox, new)
  OBVIOUS
<1> HIDE DEF new
<1>3. inbox' \in Seq(Msg) /\ Len(inbox') = Len(inbox) + 1
  BY <1>1, <1>2
<1>4. ASSUME NEW i \in DOMAIN inbox'
      PROVE  inbox'[i] = new \/ (i \in DOMAIN inbox /\ inbox'[i] = inbox[i])
  BY <1>1, <1>2, <1>3, <1>4
<1> QED
  BY <1>1, <1>3, <1>4

\* Exit for each of its callers.
Exits == TopTimesOut \/ Take \/ WaitTimesOut \/ (PassOver /\ LastTry)

\* A call of _receive ends: nothing of it is left, and the pump goes on.
LEMMA ExitsDo ==
  ASSUME Exits
  PROVE  /\ rx \in {"top", "look"} /\ rx' = "out" /\ left' = 0 /\ remaining' = 0
         /\ wait' = 0 /\ nap' = 0 /\ UNCHANGED <<client, halt, join, arrivals, late>>
         /\ script' = IF script = "receive" THEN "idle" ELSE script
         /\ listener' = listener \/ (listener = "poll" /\ listener' \in {"loop", "hook"})
         /\ listener' # "poll"
         /\ inbox' = inbox \/ (inbox # <<>> /\ inbox' = Tail(inbox))
         /\ missed' = missed \/ (missed' = (missed \/ Overlooked))
  BY DEF Exits, TopTimesOut, TimesOut, Take, WaitTimesOut, PassOver, Exit

\* The actions of DelayNext, with the two ways PassOver goes on told apart.
LEMMA Cases ==
  ASSUME DelayNext
  PROVE  \/ Exits \/ Compute \/ Wait \/ (PassOver /\ ~LastTry) \/ Sleep \/ Wake
         \/ ReceiveCall \/ ListenCall \/ PumpPolls \/ PumpEnds \/ HookReturns
         \/ StopCall \/ StopReturns \/ StopRaises \/ Arrive \/ Tick
  BY DEF DelayNext, ReceiveStep, Exits

LEMMA TypeStep ==
  ASSUME DelayTypeOK, [DelayNext]_delayVars
  PROVE  DelayTypeOK'
<1> USE DeadlinesAssumption DEF DelayTypeOK, threads, timers, notInCall, Msg
<1>1. CASE Exits
  <2>1. inbox' \in Seq(Msg)
    BY <1>1, ExitsDo, TailOf
  <2>2. missed' \in BOOLEAN
    BY <1>1, ExitsDo, Zenon
  <2> QED
    BY <1>1, <2>1, <2>2, ExitsDo
<1>2. CASE Compute \/ Wait \/ Sleep \/ Wake
  BY <1>2 DEF Compute, Wait, Sleep, Wake
<1>3. CASE PassOver /\ ~LastTry
  BY <1>3, TailOf DEF PassOver
<1>4. ASSUME NEW timeout \in Int, Enter(timeout)
      PROVE  /\ inbox' \in Seq(Msg) /\ rx' = "top" /\ left' = timeout
             /\ UNCHANGED <<client, remaining, wait, nap, join, arrivals, late, missed>>
  BY <1>4, Restamped DEF Enter
<1>5. CASE ReceiveCall
  BY <1>4, <1>5 DEF ReceiveCall
<1>6. CASE PumpPolls
  BY <1>4, <1>6 DEF PumpPolls
<1>7. CASE ListenCall \/ PumpEnds \/ HookReturns \/ StopCall \/ StopReturns \/ StopRaises
  <2>1. CASE ListenCall
    BY <2>1 DEF ListenCall
  <2>2. CASE PumpEnds
    BY <2>2 DEF PumpEnds
  <2>3. CASE HookReturns
    BY <2>3 DEF HookReturns
  <2>4. CASE StopCall
    BY <2>4 DEF StopCall
  <2>5. CASE StopReturns
    BY <2>5 DEF StopReturns
  <2>6. CASE StopRaises
    BY <2>6 DEF StopRaises
  <2> QED
    BY <1>7, <2>1, <2>2, <2>3, <2>4, <2>5, <2>6
<1>8. CASE Arrive
  BY <1>8, Arrived DEF Arrive
<1>9. CASE Tick
  <2>1. left' \in Int /\ wait' \in Int /\ nap' \in Int /\ join' \in Int
    BY <1>9 DEF Tick, Less
  <2>2. late' \in 0..MaxLate
    <3>1. late' \in {late, late + 1} /\ late' <= MaxLate
      BY <1>9, Zenon DEF Tick
    <3> QED
      BY <3>1
  <2>3. UNCHANGED <<client, threads, rx, remaining, inbox, arrivals, missed>>
    BY <1>9, Zenon DEF Tick
  <2>4. {left, remaining, wait, nap, join}' \subseteq Int
    BY <2>1, <2>3
  <2> QED
    BY <2>2, <2>3, <2>4, Zenon
<1>10. CASE UNCHANGED delayVars
  BY <1>10 DEF delayVars
<1> QED
  BY <1>1, <1>2, <1>3, <1>5, <1>6, <1>7, <1>8, <1>9, <1>10, Cases

LEMMA DelayTypesInitial ==
  ASSUME DelayInit
  PROVE  DelayTypeOK
<1>1. 0 \in 0..MaxLate /\ 0 \in 0..MaxArrivals
  BY DeadlinesAssumption
<1>2. inbox \in Seq([ours : BOOLEAN, since : Int])
  BY DEF DelayInit
<1>3. {left, remaining, wait, nap, join} \subseteq Int
  BY DEF DelayInit
<1> QED
  BY <1>1, <1>2, <1>3, Zenon DEF DelayInit, DelayTypeOK

\* The type invariant.
THEOREM DelayTypeCorrect == DelaySpec => []DelayTypeOK
<1>1. DelayInit => DelayTypeOK
  BY DelayTypesInitial
<1> QED
  BY <1>1, TypeStep, PTL DEF DelaySpec

\* The times that are kept are numbers.
Numbers ==
  /\ left \in Int /\ remaining \in Int /\ wait \in Int /\ nap \in Int /\ join \in Int
  /\ late \in Nat /\ Nap \in Nat /\ Nap >= 1 /\ PollTimeout \in Nat /\ StopTimeout \in Nat

LEMMA TypedNumbers ==
  ASSUME DelayTypeOK, DelayTypeOK'
  PROVE  Numbers /\ Numbers'
  BY DeadlinesAssumption DEF DelayTypeOK, Numbers

LEMMA NestedStep ==
  ASSUME DelayTypeOK, DelayTypeOK', Nested, [DelayNext]_delayVars
  PROVE  Nested'
<1> USE TypedNumbers DEF Numbers, Nested, WaitsNoLonger, Overshoot, Naps,
                         threads, timers, notInCall
<1>1. CASE Exits
  BY <1>1, ExitsDo
<1>2. CASE Compute
  BY <1>2 DEF Compute
<1>3. CASE Wait
  BY <1>3 DEF Wait
<1>4. CASE PassOver /\ ~LastTry
  BY <1>4 DEF PassOver
<1>5. CASE Sleep
  <2>1. /\ rx = "look" /\ rx' = "nap" /\ nap' = Nap /\ wait > 0 /\ Naps
        /\ UNCHANGED <<client, left, remaining, wait, late>>
    BY <1>5 DEF Sleep
  <2>2. wait <= left + late
    BY <2>1
  <2> QED
    BY <2>1, <2>2
<1>6. CASE Wake
  BY <1>6 DEF Wake
<1>7. CASE ReceiveCall \/ PumpPolls
  <2>1. rx' = "top" /\ left' \in Nat
    BY <1>7, DeadlinesAssumption DEF ReceiveCall, PumpPolls, Enter
  <2> QED
    BY <2>1
<1>8. CASE ListenCall \/ PumpEnds \/ HookReturns \/ StopCall \/ StopReturns \/ StopRaises
  <2>1. CASE ListenCall
    BY <2>1 DEF ListenCall
  <2>2. CASE PumpEnds
    BY <2>2 DEF PumpEnds
  <2>3. CASE HookReturns
    BY <2>3 DEF HookReturns
  <2>4. CASE StopCall
    BY <2>4 DEF StopCall
  <2>5. CASE StopReturns
    BY <2>5 DEF StopReturns
  <2>6. CASE StopRaises
    BY <2>6 DEF StopRaises
  <2> QED
    BY <1>8, <2>1, <2>2, <2>3, <2>4, <2>5, <2>6
<1>9. CASE Arrive
  BY <1>9 DEF Arrive
<1>10. CASE Tick
  <2>1. /\ UNCHANGED <<client, rx, remaining>> /\ late' >= late
        /\ Due => late' = late + 1
        /\ rx # "out" => left' = left - 1
        /\ rx \in {"look", "nap"} => wait' = wait - 1
        /\ rx = "nap" => nap' = nap - 1
    BY <1>10 DEF Tick, Less
  <2>2. CASE Due
    BY <2>1, <2>2
  <2>3. CASE ~Due
    <3>1. rx \notin {"top", "call"}
      BY <2>3 DEF Due
    <3>2. CASE rx = "look"
      <4>1. wait > 0 /\ ~Naps
        BY <2>3, <3>2 DEF Due
      <4>2. left + late >= 1
        BY <4>1, <3>2
      <4> QED
        BY <2>1, <3>2, <4>1, <4>2
    <3>3. CASE rx = "nap"
      <4>1. nap > 0
        BY <2>3, <3>3 DEF Due
      <4> QED
        BY <2>1, <3>3, <4>1
    <3> QED
      BY <2>1, <3>1, <3>2, <3>3, DelayTypeOK DEF DelayTypeOK
  <2> QED
    BY <2>2, <2>3
<1>11. CASE UNCHANGED delayVars
  BY <1>11 DEF delayVars
<1> QED
  BY <1>1, <1>2, <1>3, <1>4, <1>5, <1>6, <1>7, <1>8, <1>9, <1>10, <1>11, Cases

LEMMA JoinedStep ==
  ASSUME DelayTypeOK, DelayTypeOK', Nested, Joined, [DelayNext]_delayVars
  PROVE  Joined'
<1> USE TypedNumbers DEF Numbers, Joined, Overshoot, Naps, threads, timers, notInCall
<1>1. CASE Exits
  BY <1>1, ExitsDo DEF Nested, WaitsNoLonger
<1>2. CASE Compute \/ Wait \/ (PassOver /\ ~LastTry) \/ Sleep \/ Wake
  BY <1>2 DEF Compute, Wait, PassOver, Sleep, Wake
<1>3. CASE ReceiveCall \/ PumpPolls
  BY <1>3 DEF ReceiveCall, PumpPolls, Enter
<1>4. CASE ListenCall \/ PumpEnds \/ HookReturns \/ StopCall \/ StopReturns \/ StopRaises
  <2>1. CASE ListenCall
    BY <2>1 DEF ListenCall
  <2>2. CASE PumpEnds
    BY <2>2 DEF PumpEnds
  <2>3. CASE HookReturns
    BY <2>3 DEF HookReturns
  <2>4. CASE StopCall
    BY <2>4 DEF StopCall
  <2>5. CASE StopReturns
    BY <2>5 DEF StopReturns
  <2>6. CASE StopRaises
    BY <2>6 DEF StopRaises
  <2> QED
    BY <1>4, <2>1, <2>2, <2>3, <2>4, <2>5, <2>6
<1>5. CASE Arrive
  BY <1>5 DEF Arrive
<1>6. CASE Tick
  <2>1. /\ UNCHANGED <<client, rx, script, listener, halt>> /\ late' >= late
        /\ listener \in {"loop", "hook"} => late' = late + 1
        /\ rx # "out" => left' = left - 1
        /\ script = "join" => join' = join - 1
    <3>1. listener \in {"loop", "hook"} => Due
      BY DEF Due
    <3> QED
      BY <1>6, <3>1 DEF Tick, Less
  <2> QED
    BY <2>1
<1>7. CASE UNCHANGED delayVars
  BY <1>7 DEF delayVars
<1> QED
  BY <1>1, <1>2, <1>3, <1>4, <1>5, <1>6, <1>7, Cases

\* Nobody is overlooked when the time is up.
LEMMA NoneOverlooked ==
  ASSUME DelayTypeOK, DelayTypeOK', Noticed, rx \in {"top", "look"}, left <= 0
  PROVE  ~Overlooked
<1>1. ASSUME NEW i \in DOMAIN inbox
      PROVE  inbox[i].since <= (IF Naps THEN Nap ELSE 0) + late
  <2>1. inbox[i].since <= left + late + Slept /\ Slept = IF Naps THEN Nap ELSE 0
    BY DEF Noticed, Slept
  <2>2. inbox[i].since \in Int
    BY TypedInbox, Since
  <2> QED
    BY <2>1, <2>2, TypedNumbers DEF Numbers
<1>2. \A i \in DOMAIN inbox : inbox[i].since \in Int
  BY TypedInbox, Since
<1> QED
  BY <1>1, <1>2, TypedNumbers DEF Overlooked, Numbers

\* What a tick takes from the deadline is made up for by sleep or lateness.
LEMMA LaterStill ==
  ASSUME NEW s, \A i \in DOMAIN s : s[i].since \in Int,
         NEW then \in Int, NEW now \in Int, then <= now,
         \A i \in DOMAIN s : s[i].since <= then
  PROVE  \A i \in DOMAIN s : s[i].since <= now
  OBVIOUS

LEMMA NoticedStep ==
  ASSUME DelayTypeOK, DelayTypeOK', Nested, Noticed, [DelayNext]_delayVars
  PROVE  Noticed'
<1>0. inbox \in Seq(Msg) /\ \A i \in DOMAIN inbox : inbox[i].since \in Int
  BY TypedInbox, Since
<1> USE TypedNumbers DEF Numbers, Noticed, Slept, Naps, threads, timers, notInCall
<1>1. CASE Exits
  <2>1. CASE TopTimesOut
    <3>1. left <= 0 /\ rx = "top"
      BY <2>1 DEF TopTimesOut, Overdue
    <3> QED
      BY <2>1, <3>1, NoneOverlooked DEF TopTimesOut, TimesOut, Exit
  <2>2. CASE Take
    BY <2>2 DEF Take, Exit
  <2>3. CASE WaitTimesOut
    <3>1. DOMAIN inbox = {}
      BY <2>3 DEF WaitTimesOut
    <3>2. ~Overlooked
      BY <3>1 DEF Overlooked
    <3> QED
      BY <2>3, <3>2 DEF WaitTimesOut, TimesOut, Exit
  <2>4. CASE PassOver /\ LastTry
    <3>1. left <= 0 /\ rx = "look"
      BY <2>4 DEF PassOver, LastTry, Nested
    <3> QED
      BY <2>4, <3>1, NoneOverlooked DEF PassOver, Exit
  <2> QED
    BY <1>1, <2>1, <2>2, <2>3, <2>4 DEF Exits
<1>2. CASE Compute \/ Wait
  BY <1>2 DEF Compute, Wait
<1>3. CASE PassOver /\ ~LastTry
  <2>1. /\ UNCHANGED <<client, left, late, missed>> /\ rx = "look" /\ rx' = "top"
        /\ inbox # <<>> /\ inbox' = Tail(inbox)
    BY <1>3 DEF PassOver
  <2> QED
    BY <1>0, <2>1, TailOf
<1>4. CASE Sleep \/ Wake
  <2>1. CASE Sleep
    BY <2>1 DEF Sleep
  <2>2. CASE Wake
    <3>1. /\ UNCHANGED <<client, inbox, left, late, missed>> /\ rx = "nap" /\ nap <= 0
          /\ rx' = "look"
      BY <2>2 DEF Wake
    <3>2. Slept' = Slept
      BY <3>1
    <3> HIDE DEF Slept
    <3> QED
      BY <3>1, <3>2
  <2> QED
    BY <1>4, <2>1, <2>2
<1>5. CASE ReceiveCall \/ PumpPolls
  <2>1. PICK timeout \in Nat : Enter(timeout)
    BY <1>5, DeadlinesAssumption DEF ReceiveCall, PumpPolls
  <2>2. /\ UNCHANGED <<client, late, missed>> /\ rx' = "top" /\ left' = timeout
        /\ \A i \in DOMAIN inbox' : inbox'[i].since = timeout
    BY <1>0, <2>1, Restamped DEF Enter
  <2> QED
    BY <2>2
<1>6. CASE ListenCall \/ PumpEnds \/ HookReturns \/ StopCall \/ StopReturns \/ StopRaises
  BY <1>6 DEF ListenCall, PumpEnds, HookReturns, StopCall, StopReturns, StopRaises
<1>7. CASE Arrive
  <2>1. PICK ours \in BOOLEAN : inbox' = Append(inbox, [ours |-> ours, since |-> left])
    BY <1>7 DEF Arrive
  <2>2. \A i \in DOMAIN inbox' :
          inbox'[i].since = left \/ (i \in DOMAIN inbox /\ inbox'[i] = inbox[i])
    BY <1>0, <2>1, Arrived
  <2>3. UNCHANGED <<client, rx, left, nap, late, missed>>
    BY <1>7 DEF Arrive
  <2>4. rx # "out" => Slept \in Nat /\ Slept' = Slept
    BY <2>3 DEF Nested
  <2> HIDE DEF Slept
  <2>5. ASSUME rx # "out", NEW i \in DOMAIN inbox'
        PROVE  inbox'[i].since <= left + late + Slept
    <3>1. CASE inbox'[i].since = left
      BY <2>4, <2>5, <3>1
    <3>2. CASE i \in DOMAIN inbox /\ inbox'[i] = inbox[i]
      BY <2>5, <3>2
    <3> QED
      BY <2>2, <3>1, <3>2
  <2> QED
    BY <2>3, <2>4, <2>5
<1>8. CASE Tick
  <2>1. /\ UNCHANGED <<client, rx, inbox, missed>> /\ late' >= late
        /\ Due => late' = late + 1
        /\ rx # "out" => left' = left - 1
        /\ rx = "nap" => nap' = nap - 1
    BY <1>8 DEF Tick, Less
  <2>2. CASE rx = "nap" /\ nap > 0
    <3>1. Naps /\ Naps' /\ Slept = Nap - nap /\ Slept' = Slept + 1 /\ left' = left - 1
          /\ Slept \in Int
      BY <2>1, <2>2 DEF Nested
    <3>2. /\ left + late + Slept \in Int /\ left' + late' + Slept' \in Int
          /\ left + late + Slept <= left' + late' + Slept'
      BY <2>1, <3>1
    <3>3. \A i \in DOMAIN inbox : inbox[i].since <= left + late + Slept
      BY <2>2
    <3> HIDE DEF Slept
    <3>4. \A i \in DOMAIN inbox : inbox[i].since <= left' + late' + Slept'
      BY <1>0, <3>2, <3>3, LaterStill
    <3> QED
      BY <2>1, <3>4
  <2>3. CASE rx # "out" /\ inbox # <<>> /\ ~(rx = "nap" /\ nap > 0)
    <3>1. Due
      <4>1. rx \in {"top", "call", "look", "nap"}
        BY <2>3, Zenon DEF DelayTypeOK
      <4>2. CASE rx \in {"top", "call", "look"}
        BY <2>3, <4>2, Zenon DEF Due
      <4>3. CASE rx = "nap"
        <5>1. nap <= 0
          BY <2>3, <4>3, TypedNumbers DEF Numbers
        <5> QED
          BY <4>3, <5>1, Zenon DEF Due
      <4> QED
        BY <4>1, <4>2, <4>3, Zenon
    <3>2. Slept' = Slept /\ left' = left - 1 /\ late' = late + 1 /\ Slept \in Int
      BY <2>1, <2>3, <3>1 DEF Nested
    <3>3. /\ left + late + Slept \in Int /\ left' + late' + Slept' \in Int
          /\ left + late + Slept <= left' + late' + Slept'
      BY <3>2
    <3> QED
      BY <1>0, <2>1, <2>3, <3>3, LaterStill
  <2>4. CASE rx = "out" \/ inbox = <<>>
    BY <2>1, <2>4
  <2> QED
    BY <2>2, <2>3, <2>4
<1>9. CASE UNCHANGED delayVars
  BY <1>9 DEF delayVars
<1> QED
  BY <1>1, <1>2, <1>3, <1>4, <1>5, <1>6, <1>7, <1>8, <1>9, Cases

\* However receives, polls and stops follow each other, the waits nest.
THEOREM DelayInvariant == DelaySpec => []DelayInv
<1>1. DelayInit => Nested /\ Joined /\ Noticed
  BY DEF DelayInit, Nested, Joined, Noticed, WaitsNoLonger
<1>2. DelayInv /\ DelayTypeOK' /\ [DelayNext]_delayVars => DelayInv'
  BY NestedStep, JoinedStep, NoticedStep DEF DelayInv
<1>3. DelayTypeOK /\ Nested /\ Joined /\ Noticed <=> DelayInv
  BY DEF DelayInv
<1> QED
  BY <1>1, <1>2, <1>3, DelayTypeCorrect, PTL DEF DelaySpec

\* No call of _receive waits longer than its timeout, however many messages of
\* other topics pass it and however late a wait in it is entered.
THEOREM NeverWaitsLonger == DelaySpec => []WaitsNoLonger
<1>1. DelayInv => WaitsNoLonger
  BY DEF DelayInv, Nested
<1> QED
  BY <1>1, DelayInvariant, PTL

\* No call of _receive times out over a message that it had time to return.
THEOREM NeverMissesInTime == DelaySpec => []TimesOutRightly
<1>1. DelayInv => TimesOutRightly
  BY DEF DelayInv, Noticed, TimesOutRightly
<1> QED
  BY <1>1, DelayInvariant, PTL

\* What stop_listen's join has left covers the poll that is under way, whatever
\* the two timeouts of _pump.py are: by their difference less the lateness.
THEOREM StopsInTime == DelaySpec => []StopInTime
<1>1. DelayInv => StopInTime
  <2> SUFFICES ASSUME DelayInv, script = "join", listener # "off"
               PROVE  join + late + Overshoot >= StopTimeout - PollTimeout
    BY DEF StopInTime
  <2>1. /\ left \in Int /\ join \in Int /\ late \in Nat /\ Overshoot \in Nat
        /\ PollTimeout \in Nat /\ StopTimeout \in Nat
    BY DeadlinesAssumption DEF DelayInv, DelayTypeOK, Overshoot
  <2>2. CASE listener = "poll"
    <3>1. StopTimeout - join <= PollTimeout - left /\ left + Overshoot + late >= 0
      BY <2>2 DEF DelayInv, Joined, Nested, WaitsNoLonger
    <3> QED
      BY <2>1, <3>1
  <2>3. CASE listener \in {"loop", "hook"}
    BY <2>1, <2>3 DEF DelayInv, Joined
  <2> QED
    BY <2>2, <2>3 DEF DelayInv, DelayTypeOK
<1> QED
  BY <1>1, DelayInvariant, PTL
=============================================================================
