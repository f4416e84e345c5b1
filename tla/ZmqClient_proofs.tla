-------------------------- MODULE ZmqClient_proofs --------------------------
(***************************************************************************)
(* Theorems about MessagePump, for every number of pumps, items, threads,  *)
(* and every outbox size, and about ZmqClient: its pump behaves as         *)
(* MessagePump says, so what is proved of the pump carries over, and with  *)
(* one controlling thread the socket never has two users.                  *)
(***************************************************************************)
EXTENDS ZmqClient, SequenceTheorems, TLAPS

Offering == {"offerDrain", "offerWait", "offerFinal"}

\* The local variables hold what the place in the code says they hold.
LocalsOK ==
  /\ \A g \in Gens : cur[g] # None <=> pc[g] \in Offering
  /\ \A s \in Submitters : sub[s] # "idle" => subItem[s] \in Items
  /\ \A s \in Submitters : sub[s] = "put" => HasOffer /\ subGen[s] \in Gens

\* A pump nobody has started has no history, and only the controller that
\* made it can name it; every other name is of a pump that was started.
NewbornOK ==
  /\ \A g \in Gens : g > born => pc[g] = "unborn"
  /\ \A g \in Gens : pc[g] = "unborn" =>
       ~stopEvt[g] /\ accepted[g] = <<>> /\ offered[g] = <<>> /\ owed[g] = 0
  /\ handle # None => pc[handle] # "unborn"
  /\ \A c \in Controllers : ctl[c] = "spawn" =>
       ctlGen[c] \in Gens /\ ctlGen[c] <= born /\ pc[ctlGen[c]] = "unborn"
  /\ \A c \in Controllers : ctl[c] \in {"publish", "join", "joined"} =>
       ctlGen[c] \in Gens /\ pc[ctlGen[c]] # "unborn"
  /\ \A c, d \in Controllers :
       ctl[c] = "spawn" /\ ctl[d] = "spawn" /\ c # d => ctlGen[c] # ctlGen[d]
  /\ \A s \in Submitters : subGen[s] # None => pc[subGen[s]] # "unborn"

\* What a stop owes was accepted; a pump without offer accepts nothing.
OwedOK ==
  /\ \A g \in Gens : owed[g] <= Len(accepted[g])
  /\ ~HasOffer => \A g \in Gens : accepted[g] = <<>>

IInv == /\ TypeOK /\ LocalsOK /\ NewbornOK /\ OwedOK
        /\ ExactlyOnceInOrder /\ EndsOnlyWhenStopped /\ StopDrains

-----------------------------------------------------------------------------
(* Sequences: an item moves from the outbox to the hand to the offered.     *)

\* Taking the head of the outbox into the hand changes nothing overall.
LEMMA MoveToHand ==
  ASSUME NEW S, NEW s \in Seq(S), NEW t \in Seq(S), t # <<>>
  PROVE  s \o <<Head(t)>> \o Tail(t) = s \o <<>> \o t
<1> DEFINE h == <<Head(t)>>
<1>1. Head(t) \in S /\ Tail(t) \in Seq(S)
  BY HeadTailProperties
<1>2. h \in Seq(S)
  BY <1>1
<1>3. h \o Tail(t) = t
  <2>1. /\ h \o Tail(t) \in Seq(S) /\ Len(h \o Tail(t)) = Len(h) + Len(Tail(t))
        /\ \A i \in 1..Len(h) + Len(Tail(t)) : (h \o Tail(t))[i] =
              IF i <= Len(h) THEN h[i] ELSE Tail(t)[i - Len(h)]
    BY <1>1, <1>2, ConcatProperties
  <2>2. Len(h) = 1 /\ h[1] = Head(t) /\ Head(t) = t[1]
    OBVIOUS
  <2>3. /\ Len(Tail(t)) = Len(t) - 1 /\ Len(t) \in Nat
        /\ \A i \in 1..Len(Tail(t)) : Tail(t)[i] = t[i + 1]
    BY HeadTailProperties, LenProperties
  <2> HIDE DEF h
  <2>4. \A i \in 1..Len(t) : (h \o Tail(t))[i] = t[i]
    BY <2>1, <2>2, <2>3
  <2>5. Len(h \o Tail(t)) = Len(t)
    BY <2>1, <2>2, <2>3
  <2> QED BY <2>1, <2>4, <2>5, SeqEqual
<1>4. (s \o h) \o Tail(t) = s \o (h \o Tail(t))
  BY <1>1, <1>2, ConcatAssociative
<1>5. s \o <<>> = s
  BY ConcatEmptySeq
<1> QED BY <1>3, <1>4, <1>5

\* Offering the item in hand changes nothing overall.
LEMMA MoveToOffered ==
  ASSUME NEW S, NEW s \in Seq(S), NEW t \in Seq(S), NEW e \in S
  PROVE  Append(s, e) \o <<>> \o t = s \o <<e>> \o t
<1>1. Append(s, e) = s \o <<e>>
  BY AppendIsConcat
<1>2. Append(s, e) \in Seq(S)
  BY AppendProperties
<1>3. Append(s, e) \o <<>> = Append(s, e)
  BY <1>2, ConcatEmptySeq
<1> QED BY <1>1, <1>3

\* Appending to the outbox appends to the whole.
LEMMA AppendAtEnd ==
  \A s, u, t \in Seq(Items), e \in Items :
    Append(s \o u \o t, e) = s \o u \o Append(t, e)
<1> SUFFICES ASSUME NEW s \in Seq(Items), NEW u \in Seq(Items),
                    NEW t \in Seq(Items), NEW e \in Items
             PROVE  Append(s \o u \o t, e) = s \o u \o Append(t, e)
  OBVIOUS
<1>1. s \o u \in Seq(Items) /\ s \o u \o t \in Seq(Items) /\ <<e>> \in Seq(Items)
  BY ConcatProperties
<1>2. Append(s \o u \o t, e) = (s \o u \o t) \o <<e>>
  BY <1>1, AppendIsConcat
<1>3. Append(t, e) = t \o <<e>>
  BY AppendIsConcat
<1> QED BY <1>1, <1>2, <1>3, ConcatAssociative

\* The lengths of the three parts add up.
LEMMA PartsLength ==
  \A s, u, t \in Seq(Items) : Len(s \o u \o t) = Len(s) + Len(u) + Len(t)
<1> SUFFICES ASSUME NEW s \in Seq(Items), NEW u \in Seq(Items), NEW t \in Seq(Items)
             PROVE  Len(s \o u \o t) = Len(s) + Len(u) + Len(t)
  OBVIOUS
<1>1. s \o u \in Seq(Items) /\ Len(s \o u) = Len(s) + Len(u)
  BY ConcatProperties
<1> QED BY <1>1, ConcatProperties

\* The item in hand is the one that follows the offered ones.
LEMMA HandIsNext ==
  \A s, t \in Seq(Items), e \in Items :
    /\ Len(s \o <<e>> \o t) > Len(s)
    /\ (s \o <<e>> \o t)[Len(s) + 1] = e
<1> SUFFICES ASSUME NEW s \in Seq(Items), NEW t \in Seq(Items), NEW e \in Items
             PROVE  /\ Len(s \o <<e>> \o t) > Len(s)
                    /\ (s \o <<e>> \o t)[Len(s) + 1] = e
  OBVIOUS
<1>1. <<e>> \in Seq(Items) /\ Len(<<e>>) = 1 /\ <<e>>[1] = e
  OBVIOUS
<1>2. /\ s \o <<e>> \in Seq(Items) /\ Len(s \o <<e>>) = Len(s) + 1
      /\ (s \o <<e>>)[Len(s) + 1] = e
  BY <1>1, ConcatProperties, LenProperties
<1>3. Len(s) \in Nat /\ Len(t) \in Nat
  BY LenProperties
<1> QED BY <1>2, <1>3, ConcatProperties

-----------------------------------------------------------------------------
(* Initial states *)

LEMMA InitIInv == Init => IInv
<1> SUFFICES ASSUME Init PROVE IInv
  OBVIOUS
<1> USE PumpAssumption DEF Init
<1>1. TypeOK
  <2>1. <<>> \in Seq(Items) /\ Len(<<>>) <= Capacity
    BY EmptySeq
  <2> QED BY <2>1 DEF TypeOK, Phases, Gens, Items, None
<1>2. LocalsOK /\ NewbornOK
  BY DEF LocalsOK, NewbornOK, Offering, Gens, None
<1>3. OwedOK /\ EndsOnlyWhenStopped /\ StopDrains
  BY EmptySeq DEF OwedOK, EndsOnlyWhenStopped, StopDrains
<1>4. ExactlyOnceInOrder
  BY ConcatEmptySeq, EmptySeq DEF ExactlyOnceInOrder, Taken
<1> QED BY <1>1, <1>2, <1>3, <1>4 DEF IInv

-----------------------------------------------------------------------------
(* Type correctness *)

LEMMA TypeStep ==
  TypeOK /\ LocalsOK /\ NewbornOK /\ [Next]_vars => TypeOK'
<1> SUFFICES ASSUME TypeOK, LocalsOK, NewbornOK, [Next]_vars PROVE TypeOK'
  OBVIOUS
<1> USE PumpAssumption
<1>1. CASE UNCHANGED vars
  BY <1>1 DEF TypeOK, vars, callerVars, submitVars, threadVars
<1>2. ASSUME NEW c \in Controllers, Caller(c) PROVE TypeOK'
  <2> USE DEF TypeOK, vars, callerVars, submitVars, threadVars
  <2>1. CASE StartRefused(c) \/ StopNothing(c)
    BY <2>1 DEF StartRefused, StopNothing
  <2>2. CASE StartCheck(c)
    <3>1. born + 1 \in Gens /\ born' \in 0..MaxGen
      BY <2>2 DEF StartCheck, Gens
    <3> QED BY <2>2, <3>1 DEF StartCheck
  <2>3. CASE StartThread(c)
    <3>1. 0 \in 0..MaxErrors
      OBVIOUS
    <3>4. errors' \in [Gens -> 0..MaxErrors]
      BY <2>3, <3>1 DEF StartThread
    <3>5. stopEvt' \in [Gens -> BOOLEAN]
      BY <2>3 DEF StartThread
    <3>2. ctl' \in [Controllers -> {"idle", "spawn", "publish", "join", "joined"}]
      BY <2>3 DEF StartThread
    <3>3. pc' \in [Gens -> Phases]
      BY <2>3 DEF StartThread, Phases
    <3> QED BY <2>3, <3>2, <3>3, <3>4, <3>5 DEF StartThread
  <2>4. CASE StartPublish(c)
    BY <2>4 DEF StartPublish, None
  <2>5. CASE StopBegin(c)
    <3>1. handle \in Gens /\ accepted[handle] \in Seq(Items)
      BY <2>5 DEF StopBegin, None
    <3>2. owed' \in [Gens -> Nat]
      BY <2>5, <3>1, LenProperties DEF StopBegin, SetStop
    <3> QED BY <2>5, <3>1, <3>2 DEF StopBegin, SetStop
  <2>6. CASE StopJoined(c) \/ StopTimeout(c)
    BY <2>6 DEF StopJoined, StopTimeout
  <2>7. CASE StopRaises(c) \/ StopForgets(c)
    BY <2>7 DEF StopRaises, StopForgets, None
  <2> QED BY <1>2, <2>1, <2>2, <2>3, <2>4, <2>5, <2>6, <2>7 DEF Caller
<1>3. ASSUME NEW s \in Submitters, Submitter(s) PROVE TypeOK'
  <2> USE DEF TypeOK, vars, callerVars, submitVars, threadVars
  <2>1. CASE SubmitRead(s)
    BY <2>1 DEF SubmitRead, Items
  <2>2. CASE SubmitCheck(s)
    BY <2>2 DEF SubmitCheck
  <2>3. CASE SubmitRefused(s) \/ SubmitFull(s)
    BY <2>3 DEF SubmitRefused, SubmitFull, SubmitDone
  <2>4. CASE SubmitPut(s)
    <3>1. PICK g \in Gens : g = subGen[s] /\ subItem[s] \in Items
      BY <2>4 DEF SubmitPut, LocalsOK
    <3>2. /\ Append(outbox[g], subItem[s]) \in Seq(Items)
          /\ Append(accepted[g], subItem[s]) \in Seq(Items)
      BY <3>1, AppendProperties
    <3>3. Len(Append(outbox[g], subItem[s])) <= Capacity
      BY <2>4, <3>1, AppendProperties, LenProperties DEF SubmitPut
    <3> QED BY <2>4, <3>1, <3>2, <3>3 DEF SubmitPut, SubmitDone
  <2> QED BY <1>3, <2>1, <2>2, <2>3, <2>4 DEF Submitter
<1>4. ASSUME NEW g \in Gens, Thread(g) PROVE TypeOK'
  <2> USE DEF TypeOK, vars, callerVars, submitVars, threadVars, threadOnly
  <2>1. CASE LoopTest(g)
    BY <2>1 DEF LoopTest, Goto, AfterDrain, Phases
  <2>2. ASSUME NEW from, NEW to \in Phases, Take(g, from, to) PROVE TypeOK'
    <3>1. Head(outbox[g]) \in Items /\ Tail(outbox[g]) \in Seq(Items)
      BY <2>2, HeadTailProperties DEF Take
    <3>2. Len(Tail(outbox[g])) <= Capacity
      BY <2>2, HeadTailProperties, LenProperties DEF Take
    <3> QED BY <2>2, <3>1, <3>2 DEF Take, Goto
  <2>3. ASSUME NEW from, NEW to \in Phases, Empty(g, from, to) PROVE TypeOK'
    BY <2>3 DEF Empty, Goto
  <2>4. ASSUME NEW from \in Offering, NEW to \in Phases, OfferOne(g, from, to)
        PROVE  TypeOK'
    <3>1. cur[g] \in Items
      BY <2>4 DEF OfferOne, Goto, LocalsOK, Offering
    <3>2. Append(offered[g], cur[g]) \in Seq(Items)
      BY <3>1, AppendProperties
    <3>3. errors' \in [Gens -> 0..MaxErrors]
      <4>1. CASE UNCHANGED errors
        BY <4>1
      <4>2. CASE errors[g] < MaxErrors /\ errors' = [errors EXCEPT ![g] = @ + 1]
        <5>1. errors[g] + 1 \in 0..MaxErrors
          BY <4>2
        <5> QED BY <4>2, <5>1
      <4> QED BY <2>4, <4>1, <4>2 DEF OfferOne
    <3> QED BY <2>4, <3>1, <3>2, <3>3 DEF OfferOne, Goto
  <2>5. CASE PollReturns(g) \/ HookReturns(g) \/ ThreadEnds(g)
    BY <2>5 DEF PollReturns, HookReturns, ThreadEnds, Goto, Phases
  <2>6. CASE ThreadRaises(g)
    <3>1. errors[g] + 1 \in 0..MaxErrors
      BY <2>6 DEF ThreadRaises
    <3>2. pc' \in [Gens -> Phases]
      BY <2>6 DEF ThreadRaises, Goto, Phases
    <3> QED BY <2>6, <3>1, <3>2 DEF ThreadRaises
  <2>7. CASE HookStops(g)
    <3>1. Len(accepted[g]) \in Nat
      BY LenProperties
    <3>2. errors[g] + 1 \in 0..MaxErrors
      BY <2>7 DEF HookStops
    <3>3. pc' \in [Gens -> Phases]
      BY <2>7 DEF HookStops, Goto, Phases
    <3> QED BY <2>7, <3>1, <3>2, <3>3 DEF HookStops, SetStop
  <2> QED BY <1>4, <2>1, <2>2, <2>3, <2>4, <2>5, <2>6, <2>7
          DEF Thread, DrainTake, DrainOffer, DrainEmpty, WaitTake, WaitOffer,
              WaitEmpty, FinalTake, FinalOffer, FinalEmpty, AfterEmpty,
              AfterDrain, Phases, Offering
<1> QED BY <1>1, <1>2, <1>3, <1>4 DEF Next

-----------------------------------------------------------------------------
(* Frames: what a step of each kind of thread can touch *)

\* A pump's thread moves its own program counter, never back to "unborn",
\* and touches no other pump and no caller.
LEMMA ThreadFrame ==
  ASSUME TypeOK, NEW g \in Gens, Thread(g)
  PROVE  /\ pc[g] # "unborn" /\ pc'[g] # "unborn"
         /\ UNCHANGED threadOnly
         /\ \A h \in Gens \ {g} :
              /\ pc'[h] = pc[h] /\ stopEvt'[h] = stopEvt[h] /\ cur'[h] = cur[h]
              /\ outbox'[h] = outbox[h] /\ offered'[h] = offered[h]
              /\ owed'[h] = owed[h]
<1> USE DEF TypeOK, threadOnly, Goto
<1>1. ASSUME NEW from \in Phases \ {"unborn"}, NEW to \in Phases \ {"unborn"},
             Take(g, from, to) \/ Empty(g, from, to) \/ OfferOne(g, from, to)
      PROVE  /\ pc[g] # "unborn" /\ pc'[g] # "unborn"
             /\ UNCHANGED threadOnly
             /\ \A h \in Gens \ {g} :
                  /\ pc'[h] = pc[h] /\ stopEvt'[h] = stopEvt[h] /\ cur'[h] = cur[h]
                  /\ outbox'[h] = outbox[h] /\ offered'[h] = offered[h]
                  /\ owed'[h] = owed[h]
  <2>1. CASE Take(g, from, to)
    BY <2>1 DEF Take
  <2>2. CASE Empty(g, from, to)
    BY <2>2 DEF Empty
  <2>3. CASE OfferOne(g, from, to)
    BY <2>3 DEF OfferOne
  <2> QED BY <1>1, <2>1, <2>2, <2>3
<1>2. CASE LoopTest(g)
  BY <1>2 DEF LoopTest, AfterDrain
<1>3. CASE PollReturns(g) \/ HookReturns(g) \/ ThreadEnds(g)
  BY <1>3 DEF PollReturns, HookReturns, ThreadEnds
<1>4. CASE ThreadRaises(g)
  BY <1>4 DEF ThreadRaises
<1>5. CASE HookStops(g)
  BY <1>5 DEF HookStops, SetStop
<1>6. CASE DrainTake(g) \/ DrainOffer(g) \/ DrainEmpty(g)
  BY <1>1, <1>6 DEF DrainTake, DrainOffer, DrainEmpty, AfterEmpty, AfterDrain, Phases
<1>7. CASE WaitTake(g) \/ WaitOffer(g) \/ WaitEmpty(g)
  BY <1>1, <1>7 DEF WaitTake, WaitOffer, WaitEmpty, AfterDrain, Phases
<1>8. CASE FinalTake(g) \/ FinalOffer(g) \/ FinalEmpty(g)
  BY <1>1, <1>8 DEF FinalTake, FinalOffer, FinalEmpty, Phases
<1> QED BY <1>2, <1>3, <1>4, <1>5, <1>6, <1>7, <1>8 DEF Thread

\* A controller moves only itself; the only thread it starts is the newborn
\* it made, and the only event it sets is that of the pump it is stopping.
LEMMA CallerFrame ==
  ASSUME TypeOK, NewbornOK, NEW c \in Controllers, Caller(c)
  PROVE  /\ UNCHANGED <<submitVars, outbox, cur, accepted, offered>>
         /\ \A d \in Controllers \ {c} : ctl'[d] = ctl[d] /\ ctlGen'[d] = ctlGen[d]
         /\ \A g \in Gens : pc'[g] = pc[g] \/ (pc[g] = "unborn" /\ pc'[g] = "loop")
         /\ \A g \in Gens : pc'[g] # pc[g] =>
              ctl[c] = "spawn" /\ ctlGen[c] = g /\ ~stopEvt'[g] /\ owed'[g] = owed[g]
         /\ \A g \in Gens : pc'[g] = pc[g] =>
              \/ stopEvt'[g] = stopEvt[g] /\ owed'[g] = owed[g]
              \/ /\ pc[g] # "unborn" /\ stopEvt'[g]
                 /\ owed'[g] = IF stopEvt[g] THEN owed[g] ELSE Len(accepted[g])
<1> USE DEF TypeOK, callerVars, submitVars, threadVars
<1>1. CASE StartRefused(c) \/ StopNothing(c)
  BY <1>1 DEF StartRefused, StopNothing, vars
<1>2. CASE StartCheck(c) \/ StartPublish(c)
  BY <1>2 DEF StartCheck, StartPublish
<1>3. CASE StartThread(c)
  <2>1. ctlGen[c] \in Gens /\ pc[ctlGen[c]] = "unborn" /\ ctl[c] = "spawn"
    BY <1>3 DEF StartThread, NewbornOK
  <2> QED BY <1>3, <2>1 DEF StartThread
<1>4. CASE StopBegin(c)
  <2>1. handle \in Gens /\ pc[handle] # "unborn"
    BY <1>4 DEF StopBegin, NewbornOK, None
  <2> QED BY <1>4, <2>1 DEF StopBegin, SetStop
<1>5. CASE StopJoined(c) \/ StopTimeout(c)
  BY <1>5 DEF StopJoined, StopTimeout
<1>6. CASE StopRaises(c) \/ StopForgets(c)
  BY <1>6 DEF StopRaises, StopForgets
<1> QED BY <1>1, <1>2, <1>3, <1>4, <1>5, <1>6 DEF Caller

\* A submitter moves only itself, and changes a pump only by accepting an
\* item, which then is both last in the outbox and last accepted.
LEMMA SubmitterFrame ==
  ASSUME TypeOK, LocalsOK, NewbornOK, NEW s \in Submitters, Submitter(s)
  PROVE  /\ UNCHANGED <<callerVars, pc, stopEvt, cur, sent, errors, offered, owed>>
         /\ \A t \in Submitters \ {s} :
              sub'[t] = sub[t] /\ subGen'[t] = subGen[t] /\ subItem'[t] = subItem[t]
         /\ \A g \in Gens :
              \/ outbox'[g] = outbox[g] /\ accepted'[g] = accepted[g]
              \/ /\ HasOffer /\ pc[g] # "unborn"
                 /\ \E i \in Items : /\ outbox'[g] = Append(outbox[g], i)
                                     /\ accepted'[g] = Append(accepted[g], i)
<1> USE DEF TypeOK, callerVars, submitVars, threadVars
<1>1. CASE SubmitRead(s)
  BY <1>1 DEF SubmitRead
<1>2. CASE SubmitCheck(s)
  BY <1>2 DEF SubmitCheck
<1>3. CASE SubmitRefused(s) \/ SubmitFull(s)
  BY <1>3 DEF SubmitRefused, SubmitFull, SubmitDone
<1>4. CASE SubmitPut(s)
  <2>1. /\ HasOffer /\ subGen[s] \in Gens /\ subItem[s] \in Items
        /\ pc[subGen[s]] # "unborn"
    BY <1>4 DEF SubmitPut, LocalsOK, NewbornOK, Gens, None
  <2> QED BY <1>4, <2>1 DEF SubmitPut, SubmitDone
<1> QED BY <1>1, <1>2, <1>3, <1>4 DEF Submitter

-----------------------------------------------------------------------------
(* The invariant is preserved, one conjunct at a time *)

LEMMA LocalsStep ==
  TypeOK /\ LocalsOK /\ NewbornOK /\ [Next]_vars => LocalsOK'
<1> SUFFICES ASSUME TypeOK, LocalsOK, NewbornOK, [Next]_vars PROVE LocalsOK'
  OBVIOUS
<1>1. CASE UNCHANGED vars
  BY <1>1 DEF LocalsOK, vars, submitVars, threadVars
<1>2. ASSUME NEW c \in Controllers, Caller(c) PROVE LocalsOK'
  BY <1>2, CallerFrame DEF LocalsOK, Offering, submitVars
<1>3. ASSUME NEW s \in Submitters, Submitter(s) PROVE LocalsOK'
  <2>1. /\ UNCHANGED <<pc, cur>>
        /\ \A t \in Submitters \ {s} :
             sub'[t] = sub[t] /\ subGen'[t] = subGen[t] /\ subItem'[t] = subItem[t]
    BY <1>3, SubmitterFrame
  <2>2. /\ sub'[s] # "idle" => subItem'[s] \in Items
        /\ sub'[s] = "put" => HasOffer /\ subGen'[s] \in Gens
    <3> USE DEF TypeOK, LocalsOK, submitVars
    <3>1. CASE SubmitRead(s)
      <4>1. calls + 1 \in Items
        BY <3>1, PumpAssumption DEF SubmitRead, Items
      <4> QED BY <3>1, <4>1 DEF SubmitRead
    <3>2. CASE SubmitCheck(s)
      BY <3>2 DEF SubmitCheck, Sendable
    <3>3. CASE SubmitRefused(s) \/ SubmitFull(s) \/ SubmitPut(s)
      BY <3>3 DEF SubmitRefused, SubmitFull, SubmitPut, SubmitDone
    <3> QED BY <1>3, <3>1, <3>2, <3>3 DEF Submitter
  <2> QED BY <2>1, <2>2 DEF LocalsOK
<1>4. ASSUME NEW g \in Gens, Thread(g) PROVE LocalsOK'
  <2>1. /\ UNCHANGED <<sub, subGen, subItem>>
        /\ \A h \in Gens \ {g} : pc'[h] = pc[h] /\ cur'[h] = cur[h]
    BY <1>4, ThreadFrame DEF threadOnly, submitVars
  <2>2. cur'[g] # None <=> pc'[g] \in Offering
    <3> USE DEF TypeOK, LocalsOK, Offering, Goto
    <3>1. CASE DrainTake(g) \/ WaitTake(g) \/ FinalTake(g)
      <4>1. outbox[g] # <<>> /\ outbox[g] \in Seq(Items)
        BY <3>1 DEF DrainTake, WaitTake, FinalTake, Take
      <4>2. Head(outbox[g]) \in Items
        BY <4>1, HeadTailProperties
      <4>3. Head(outbox[g]) # None
        BY <4>2 DEF Items, None
      <4> QED BY <3>1, <4>3 DEF DrainTake, WaitTake, FinalTake, Take
    <3>2. CASE DrainOffer(g) \/ WaitOffer(g) \/ FinalOffer(g)
      BY <3>2 DEF DrainOffer, WaitOffer, FinalOffer, OfferOne, AfterDrain
    <3>3. CASE DrainEmpty(g) \/ WaitEmpty(g) \/ FinalEmpty(g)
      BY <3>3 DEF DrainEmpty, WaitEmpty, FinalEmpty, Empty, AfterEmpty, AfterDrain
    <3>4. CASE LoopTest(g)
      BY <3>4 DEF LoopTest, AfterDrain
    <3>5. CASE PollReturns(g) \/ HookReturns(g)
      BY <3>5 DEF PollReturns, HookReturns
    <3>6. CASE ThreadEnds(g)
      BY <3>6 DEF ThreadEnds
    <3>7. CASE ThreadRaises(g)
      BY <3>7 DEF ThreadRaises
    <3>8. CASE HookStops(g)
      BY <3>8 DEF HookStops
    <3> QED BY <1>4, <3>1, <3>2, <3>3, <3>4, <3>5, <3>6, <3>7, <3>8 DEF Thread
  <2> QED BY <2>1, <2>2 DEF LocalsOK
<1> QED BY <1>1, <1>2, <1>3, <1>4 DEF Next

LEMMA NewbornStep ==
  TypeOK /\ LocalsOK /\ NewbornOK /\ [Next]_vars => NewbornOK'
<1> SUFFICES ASSUME TypeOK, LocalsOK, NewbornOK, [Next]_vars PROVE NewbornOK'
  OBVIOUS
<1>1. CASE UNCHANGED vars
  BY <1>1 DEF NewbornOK, vars, callerVars, submitVars, threadVars
<1>2. ASSUME NEW c \in Controllers, Caller(c) PROVE NewbornOK'
  <2> USE DEF NewbornOK, callerVars, submitVars, threadVars
  <2>1. CASE StartRefused(c) \/ StopNothing(c)
    BY <2>1 DEF StartRefused, StopNothing, vars
  <2>2. CASE StartCheck(c)
    <3>1. born + 1 \in Gens /\ born \in Nat /\ pc[born + 1] = "unborn"
      BY <2>2, PumpAssumption DEF StartCheck, Gens, TypeOK
    <3>2. \A d \in Controllers : ctl[d] = "spawn" => ctlGen[d] # born + 1
      BY <3>1 DEF Gens
    <3>3. /\ \A d \in Controllers \ {c} : ctl'[d] = ctl[d] /\ ctlGen'[d] = ctlGen[d]
          /\ ctl'[c] = "spawn" /\ ctlGen'[c] = born + 1 /\ born' = born + 1
          /\ UNCHANGED <<handle, subGen, pc, stopEvt, accepted, offered, owed>>
      BY <2>2 DEF StartCheck, TypeOK
    <3>4. \A d \in Controllers : ctl'[d] = "spawn" =>
            ctlGen'[d] \in Gens /\ ctlGen'[d] <= born' /\ pc'[ctlGen'[d]] = "unborn"
      <4>1. \A n \in Gens : n <= born => n <= born + 1
        BY <3>1 DEF Gens
      <4> QED BY <3>1, <3>3, <4>1
    <3>5. \A d, e \in Controllers :
            ctl'[d] = "spawn" /\ ctl'[e] = "spawn" /\ d # e => ctlGen'[d] # ctlGen'[e]
      BY <3>2, <3>3
    <3>6. \A g \in Gens : g > born' => pc'[g] = "unborn"
      BY <3>1, <3>3 DEF Gens
    <3> QED BY <3>3, <3>4, <3>5, <3>6
  <2>3. CASE StartThread(c)
    <3>1. ctlGen[c] \in Gens /\ ctlGen[c] <= born /\ pc[ctlGen[c]] = "unborn"
      BY <2>3 DEF StartThread
    <3>2. /\ \A g \in Gens \ {ctlGen[c]} : pc'[g] = pc[g] /\ stopEvt'[g] = stopEvt[g]
          /\ pc'[ctlGen[c]] = "loop" /\ ctl'[c] = "publish"
          /\ \A d \in Controllers \ {c} : ctl'[d] = ctl[d]
          /\ UNCHANGED <<handle, born, ctlGen, subGen, accepted, offered, owed>>
      BY <2>3, <3>1 DEF StartThread, TypeOK
    <3>3. ctl[c] = "spawn"
      BY <2>3 DEF StartThread
    <3>4. \A g \in Gens : g > born' => pc'[g] = "unborn"
      BY <3>1, <3>2 DEF Gens, TypeOK
    <3>5. \A d \in Controllers : ctl'[d] = "spawn" =>
            ctlGen'[d] \in Gens /\ ctlGen'[d] <= born' /\ pc'[ctlGen'[d]] = "unborn"
      BY <3>1, <3>2, <3>3
    <3>6. \A d \in Controllers : ctl'[d] \in {"publish", "join", "joined"} =>
            ctlGen'[d] \in Gens /\ pc'[ctlGen'[d]] # "unborn"
      BY <3>1, <3>2, <3>3
    <3>7. /\ handle' # None => pc'[handle'] # "unborn"
          /\ \A s \in Submitters : subGen'[s] # None => pc'[subGen'[s]] # "unborn"
      BY <3>1, <3>2 DEF TypeOK
    <3>8. \A g \in Gens : pc'[g] = "unborn" =>
       ~stopEvt'[g] /\ accepted'[g] = <<>> /\ offered'[g] = <<>> /\ owed'[g] = 0
      BY <3>1, <3>2
    <3>9. \A d, e \in Controllers :
            ctl'[d] = "spawn" /\ ctl'[e] = "spawn" /\ d # e => ctlGen'[d] # ctlGen'[e]
      BY <3>2, <3>3
    <3> QED BY <3>4, <3>5, <3>6, <3>7, <3>8, <3>9
  <2>4. CASE StartPublish(c)
    BY <2>4 DEF StartPublish, TypeOK, Gens, None
  <2>5. CASE StopBegin(c)
    <3>1. handle \in Gens /\ pc[handle] # "unborn"
      BY <2>5 DEF StopBegin, TypeOK
    <3>2. \A g \in Gens \ {handle} : stopEvt'[g] = stopEvt[g] /\ owed'[g] = owed[g]
      BY <2>5, <3>1 DEF StopBegin, SetStop, TypeOK
    <3>3. /\ \A d \in Controllers \ {c} : ctl'[d] = ctl[d] /\ ctlGen'[d] = ctlGen[d]
          /\ ctl'[c] = "join" /\ ctlGen'[c] = handle
          /\ UNCHANGED <<handle, born, subGen, pc, accepted, offered>>
      BY <2>5 DEF StopBegin, TypeOK
    <3> QED BY <3>1, <3>2, <3>3
  <2>6. CASE StopJoined(c) \/ StopTimeout(c)
    <3>1. /\ ctl[c] = "join" /\ ctl'[c] = "joined"
          /\ \A d \in Controllers \ {c} : ctl'[d] = ctl[d]
          /\ UNCHANGED <<handle, born, ctlGen, subGen, pc, stopEvt,
                         accepted, offered, owed>>
      BY <2>6 DEF StopJoined, StopTimeout, TypeOK
    <3> QED BY <3>1
  <2>7. CASE StopRaises(c) \/ StopForgets(c)
    <3>1. /\ ctl'[c] = "idle" /\ handle' \in {handle, None}
          /\ \A d \in Controllers \ {c} : ctl'[d] = ctl[d] /\ ctlGen'[d] = ctlGen[d]
          /\ UNCHANGED <<born, subGen, pc, stopEvt, accepted, offered, owed>>
      BY <2>7 DEF StopRaises, StopForgets, TypeOK
    <3> QED BY <3>1
  <2> QED BY <1>2, <2>1, <2>2, <2>3, <2>4, <2>5, <2>6, <2>7 DEF Caller
<1>3. ASSUME NEW s \in Submitters, Submitter(s) PROVE NewbornOK'
  <2>1. /\ UNCHANGED <<callerVars, pc, stopEvt, offered, owed>>
        /\ \A t \in Submitters \ {s} : subGen'[t] = subGen[t]
        /\ \A g \in Gens : pc[g] = "unborn" => accepted'[g] = accepted[g]
    BY <1>3, SubmitterFrame
  <2>2. subGen'[s] \in {subGen[s], handle, None}
    <3> USE DEF TypeOK, submitVars
    <3>1. CASE SubmitRead(s)
      BY <3>1 DEF SubmitRead
    <3>2. CASE SubmitCheck(s)
      BY <3>2 DEF SubmitCheck
    <3>3. CASE SubmitRefused(s) \/ SubmitFull(s)
      BY <3>3 DEF SubmitRefused, SubmitFull, SubmitDone
    <3>4. CASE SubmitPut(s)
      BY <3>4 DEF SubmitPut, SubmitDone
    <3> QED BY <1>3, <3>1, <3>2, <3>3, <3>4 DEF Submitter
  <2>3. \A t \in Submitters : subGen'[t] # None => pc'[subGen'[t]] # "unborn"
    BY <2>1, <2>2 DEF NewbornOK
  <2>4. \A g \in Gens : pc'[g] = "unborn" =>
          ~stopEvt'[g] /\ accepted'[g] = <<>> /\ offered'[g] = <<>> /\ owed'[g] = 0
    BY <2>1 DEF NewbornOK
  <2>5. UNCHANGED <<handle, born, ctl, ctlGen, pc>>
    BY <2>1 DEF callerVars
  <2> QED BY <2>3, <2>4, <2>5 DEF NewbornOK
<1>4. ASSUME NEW g \in Gens, Thread(g) PROVE NewbornOK'
  <2>1. /\ pc[g] # "unborn" /\ pc'[g] # "unborn"
        /\ UNCHANGED <<handle, born, ctl, ctlGen, subGen, accepted>>
        /\ \A h \in Gens \ {g} : /\ pc'[h] = pc[h] /\ stopEvt'[h] = stopEvt[h]
                                  /\ offered'[h] = offered[h] /\ owed'[h] = owed[h]
    BY <1>4, ThreadFrame DEF threadOnly, callerVars, submitVars
  <2>2. \A h \in Gens : pc'[h] = "unborn" <=> pc[h] = "unborn"
    BY <2>1
  <2>3. \A h \in Gens : pc[h] = "unborn" =>
          ~stopEvt'[h] /\ accepted'[h] = <<>> /\ offered'[h] = <<>> /\ owed'[h] = 0
    BY <2>1 DEF NewbornOK
  <2>4. handle \in Gens \cup {None}
        /\ \A s \in Submitters : subGen[s] \in Gens \cup {None}
    BY DEF TypeOK
  <2> QED BY <2>1, <2>2, <2>3, <2>4 DEF NewbornOK
<1> QED BY <1>1, <1>2, <1>3, <1>4 DEF Next

LEMMA ExactlyOnceStep ==
  TypeOK /\ LocalsOK /\ NewbornOK /\ ExactlyOnceInOrder /\ [Next]_vars
    => ExactlyOnceInOrder'
<1> SUFFICES ASSUME TypeOK, LocalsOK, NewbornOK, ExactlyOnceInOrder, [Next]_vars
             PROVE  ExactlyOnceInOrder'
  OBVIOUS
<1>1. CASE UNCHANGED vars
  BY <1>1 DEF ExactlyOnceInOrder, Taken, vars, threadVars
<1>2. ASSUME NEW c \in Controllers, Caller(c) PROVE ExactlyOnceInOrder'
  <2>1. UNCHANGED <<outbox, cur, accepted, offered>>
    BY <1>2, CallerFrame
  <2> QED BY <2>1 DEF ExactlyOnceInOrder, Taken
<1>3. ASSUME NEW s \in Submitters, Submitter(s) PROVE ExactlyOnceInOrder'
  <2> SUFFICES ASSUME NEW g \in Gens
               PROVE  accepted'[g] = offered'[g] \o Taken(g)' \o outbox'[g]
    BY DEF ExactlyOnceInOrder
  <2>1. UNCHANGED <<cur, offered>>
    BY <1>3, SubmitterFrame
  <2>2. CASE outbox'[g] = outbox[g] /\ accepted'[g] = accepted[g]
    BY <2>1, <2>2 DEF ExactlyOnceInOrder, Taken
  <2>3. ASSUME NEW i \in Items, outbox'[g] = Append(outbox[g], i),
               accepted'[g] = Append(accepted[g], i)
        PROVE  accepted'[g] = offered'[g] \o Taken(g)' \o outbox'[g]
    <3>1. /\ offered[g] \in Seq(Items) /\ outbox[g] \in Seq(Items)
          /\ Taken(g) \in Seq(Items)
      BY EmptySeq DEF TypeOK, Taken
    <3>2. accepted[g] = offered[g] \o Taken(g) \o outbox[g]
      BY DEF ExactlyOnceInOrder
    <3>3. Taken(g)' = Taken(g)
      BY <2>1 DEF Taken
    <3>4. accepted'[g] = offered[g] \o Taken(g) \o outbox'[g]
      <4>1. Append(offered[g] \o Taken(g) \o outbox[g], i)
              = offered[g] \o Taken(g) \o Append(outbox[g], i)
        BY <3>1, AppendAtEnd, Zenon
      <4> QED BY <2>3, <3>2, <4>1
    <3> QED BY <2>1, <3>3, <3>4
  <2> QED BY <1>3, <2>2, <2>3, SubmitterFrame
<1>4. ASSUME NEW g \in Gens, Thread(g) PROVE ExactlyOnceInOrder'
  <2>1. /\ UNCHANGED accepted
        /\ \A h \in Gens \ {g} : /\ cur'[h] = cur[h] /\ outbox'[h] = outbox[h]
                                  /\ offered'[h] = offered[h]
    BY <1>4, ThreadFrame DEF threadOnly
  <2>2. accepted[g] = offered[g] \o Taken(g) \o outbox[g]
    BY DEF ExactlyOnceInOrder
  <2>3. offered[g] \in Seq(Items) /\ outbox[g] \in Seq(Items)
    BY DEF TypeOK
  <2>4. offered'[g] \o Taken(g)' \o outbox'[g] = offered[g] \o Taken(g) \o outbox[g]
    <3>1. ASSUME NEW from \in Phases \ Offering, NEW to, Take(g, from, to)
          PROVE  offered'[g] \o Taken(g)' \o outbox'[g]
                   = offered[g] \o Taken(g) \o outbox[g]
      <4>1. /\ outbox[g] # <<>> /\ offered'[g] = offered[g]
            /\ cur'[g] = Head(outbox[g]) /\ outbox'[g] = Tail(outbox[g])
            /\ cur[g] = None
        BY <3>1 DEF Take, Goto, TypeOK, LocalsOK
      <4>2. Head(outbox[g]) \in Items
        BY <4>1, <2>3, HeadTailProperties
      <4>3. Taken(g) = <<>> /\ Taken(g)' = <<Head(outbox[g])>>
        BY <4>1, <4>2 DEF Taken, Items, None
      <4> QED BY <4>1, <4>3, <2>3, MoveToHand
    <3>2. ASSUME NEW from \in Offering, NEW to, OfferOne(g, from, to)
          PROVE  offered'[g] \o Taken(g)' \o outbox'[g]
                   = offered[g] \o Taken(g) \o outbox[g]
      <4>1. /\ cur[g] \in Items /\ cur[g] # None
            /\ offered'[g] = Append(offered[g], cur[g])
            /\ cur'[g] = None /\ outbox'[g] = outbox[g]
        BY <3>2 DEF OfferOne, Goto, TypeOK, LocalsOK
      <4>2. Taken(g) = <<cur[g]>> /\ Taken(g)' = <<>>
        BY <4>1 DEF Taken
      <4>3. Append(offered[g], cur[g]) \o <<>> \o outbox[g]
              = offered[g] \o <<cur[g]>> \o outbox[g]
        BY <4>1, <2>3, MoveToOffered
      <4> QED BY <4>1, <4>2, <4>3
    <3>3. ASSUME UNCHANGED <<outbox, cur, offered>>
          PROVE  offered'[g] \o Taken(g)' \o outbox'[g]
                   = offered[g] \o Taken(g) \o outbox[g]
      BY <3>3 DEF Taken
    <3>4. CASE DrainTake(g) \/ WaitTake(g) \/ FinalTake(g)
      BY <3>1, <3>4 DEF DrainTake, WaitTake, FinalTake, Phases, Offering
    <3>5. CASE DrainOffer(g) \/ WaitOffer(g) \/ FinalOffer(g)
      BY <3>2, <3>5 DEF DrainOffer, WaitOffer, FinalOffer, Offering
    <3>6. CASE DrainEmpty(g) \/ WaitEmpty(g) \/ FinalEmpty(g)
      BY <3>3, <3>6 DEF DrainEmpty, WaitEmpty, FinalEmpty, Empty
    <3>7. CASE LoopTest(g) \/ PollReturns(g) \/ HookReturns(g) \/ ThreadEnds(g)
      BY <3>3, <3>7 DEF LoopTest, PollReturns, HookReturns, ThreadEnds
    <3>8. CASE ThreadRaises(g) \/ HookStops(g)
      BY <3>3, <3>8 DEF ThreadRaises, HookStops
    <3> QED BY <1>4, <3>4, <3>5, <3>6, <3>7, <3>8 DEF Thread
  <2>5. ASSUME NEW h \in Gens \ {g}
        PROVE  accepted'[h] = offered'[h] \o Taken(h)' \o outbox'[h]
    <3>1. Taken(h)' = Taken(h)
      BY <2>1 DEF Taken
    <3>2. accepted[h] = offered[h] \o Taken(h) \o outbox[h]
      BY DEF ExactlyOnceInOrder
    <3> QED BY <2>1, <3>1, <3>2
  <2>6. accepted'[g] = offered'[g] \o Taken(g)' \o outbox'[g]
    BY <2>1, <2>2, <2>4
  <2> QED BY <2>5, <2>6 DEF ExactlyOnceInOrder
<1> QED BY <1>1, <1>2, <1>3, <1>4 DEF Next

LEMMA EndsStep ==
  TypeOK /\ LocalsOK /\ NewbornOK /\ EndsOnlyWhenStopped /\ [Next]_vars
    => EndsOnlyWhenStopped'
<1> SUFFICES ASSUME TypeOK, LocalsOK, NewbornOK, EndsOnlyWhenStopped, [Next]_vars
             PROVE  EndsOnlyWhenStopped'
  OBVIOUS
<1> USE DEF EndsOnlyWhenStopped
<1>1. CASE UNCHANGED vars
  BY <1>1 DEF vars, threadVars
<1>2. ASSUME NEW c \in Controllers, Caller(c) PROVE EndsOnlyWhenStopped'
  BY <1>2, CallerFrame
<1>3. ASSUME NEW s \in Submitters, Submitter(s) PROVE EndsOnlyWhenStopped'
  BY <1>3, SubmitterFrame
<1>4. ASSUME NEW g \in Gens, Thread(g) PROVE EndsOnlyWhenStopped'
  <2>1. \A h \in Gens \ {g} : pc'[h] = pc[h] /\ stopEvt'[h] = stopEvt[h]
    BY <1>4, ThreadFrame
  <2>2. pc'[g] \in {"final", "offerFinal", "exiting", "dead"} => stopEvt'[g]
    <3> USE DEF TypeOK, Goto
    <3>1. CASE LoopTest(g)
      BY <3>1 DEF LoopTest, AfterDrain
    <3>2. CASE DrainTake(g) \/ WaitTake(g) \/ FinalTake(g)
      BY <3>2 DEF DrainTake, WaitTake, FinalTake, Take
    <3>3. CASE DrainOffer(g) \/ WaitOffer(g) \/ FinalOffer(g)
      BY <3>3 DEF DrainOffer, WaitOffer, FinalOffer, OfferOne, AfterDrain
    <3>4. CASE DrainEmpty(g) \/ WaitEmpty(g) \/ FinalEmpty(g)
      BY <3>4 DEF DrainEmpty, WaitEmpty, FinalEmpty, Empty, AfterEmpty, AfterDrain
    <3>5. CASE PollReturns(g) \/ HookReturns(g)
      BY <3>5 DEF PollReturns, HookReturns
    <3>6. CASE ThreadEnds(g)
      BY <3>6 DEF ThreadEnds
    <3>7. CASE ThreadRaises(g) \/ HookStops(g)
      BY <3>7 DEF ThreadRaises, HookStops
    <3> QED BY <1>4, <3>1, <3>2, <3>3, <3>4, <3>5, <3>6, <3>7 DEF Thread
  <2> QED BY <2>1, <2>2
<1> QED BY <1>1, <1>2, <1>3, <1>4 DEF Next

LEMMA OwedStep ==
  TypeOK /\ LocalsOK /\ NewbornOK /\ OwedOK /\ [Next]_vars => OwedOK'
<1> SUFFICES ASSUME TypeOK, LocalsOK, NewbornOK, OwedOK, [Next]_vars PROVE OwedOK'
  OBVIOUS
<1>1. CASE UNCHANGED vars
  BY <1>1 DEF OwedOK, vars
<1>2. ASSUME NEW c \in Controllers, Caller(c) PROVE OwedOK'
  <2>1. UNCHANGED accepted
    BY <1>2, CallerFrame
  <2>2. \A g \in Gens : owed'[g] = owed[g] \/ owed'[g] = Len(accepted[g])
    BY <1>2, CallerFrame
  <2>3. \A g \in Gens : Len(accepted[g]) \in Nat
    BY LenProperties DEF TypeOK
  <2> QED BY <2>1, <2>2, <2>3 DEF OwedOK
<1>3. ASSUME NEW s \in Submitters, Submitter(s) PROVE OwedOK'
  <2>1. UNCHANGED owed
    BY <1>3, SubmitterFrame
  <2>2. ASSUME NEW g \in Gens
        PROVE  /\ owed'[g] <= Len(accepted'[g])
               /\ ~HasOffer => accepted'[g] = <<>>
    <3>1. accepted[g] \in Seq(Items) /\ owed[g] \in Nat /\ Len(accepted[g]) \in Nat
      BY LenProperties DEF TypeOK
    <3>2. CASE accepted'[g] = accepted[g]
      BY <2>1, <3>2 DEF OwedOK
    <3>3. ASSUME NEW i \in Items, HasOffer, accepted'[g] = Append(accepted[g], i)
          PROVE  /\ owed'[g] <= Len(accepted'[g])
                 /\ ~HasOffer => accepted'[g] = <<>>
      <4>1. Len(accepted'[g]) = Len(accepted[g]) + 1
        BY <3>1, <3>3, AppendProperties
      <4> QED BY <2>1, <3>1, <3>3, <4>1 DEF OwedOK
    <3> QED BY <1>3, <3>2, <3>3, SubmitterFrame
  <2> QED BY <2>2 DEF OwedOK
<1>4. ASSUME NEW g \in Gens, Thread(g) PROVE OwedOK'
  <2>1. UNCHANGED accepted /\ \A h \in Gens \ {g} : owed'[h] = owed[h]
    BY <1>4, ThreadFrame DEF threadOnly
  <2>2. owed'[g] = owed[g] \/ owed'[g] = Len(accepted[g])
    <3>1. CASE HookStops(g)
      BY <3>1 DEF HookStops, SetStop, TypeOK
    <3>2. CASE ~HookStops(g)
      BY <1>4, <3>2 DEF Thread, LoopTest, DrainTake, DrainOffer, DrainEmpty, WaitTake,
         WaitOffer, WaitEmpty, FinalTake, FinalOffer, FinalEmpty, Take, Empty,
         OfferOne, PollReturns, HookReturns, ThreadRaises, ThreadEnds
    <3> QED BY <3>1, <3>2
  <2>3. Len(accepted[g]) \in Nat
    BY LenProperties DEF TypeOK
  <2> QED BY <2>1, <2>2, <2>3 DEF OwedOK
<1> QED BY <1>1, <1>2, <1>3, <1>4 DEF Next

LEMMA StopDrainsStep ==
  IInv /\ [Next]_vars => StopDrains'
<1> SUFFICES ASSUME IInv, [Next]_vars PROVE StopDrains'
  OBVIOUS
<1> USE DEF IInv
<1>1. CASE UNCHANGED vars
  BY <1>1 DEF StopDrains, vars, threadVars
<1>2. ASSUME NEW c \in Controllers, Caller(c) PROVE StopDrains'
  <2> SUFFICES ASSUME NEW g \in Gens, pc'[g] \in {"exiting", "dead"}
               PROVE  Len(offered'[g]) >= owed'[g]
    BY DEF StopDrains
  <2>1. pc'[g] = pc[g] /\ UNCHANGED offered
    BY <1>2, CallerFrame
  <2>2. stopEvt[g]
    BY <2>1 DEF EndsOnlyWhenStopped
  <2>3. owed'[g] = owed[g]
    BY <1>2, <2>1, <2>2, CallerFrame
  <2> QED BY <2>1, <2>3 DEF StopDrains
<1>3. ASSUME NEW s \in Submitters, Submitter(s) PROVE StopDrains'
  BY <1>3, SubmitterFrame DEF StopDrains
<1>4. ASSUME NEW g \in Gens, Thread(g) PROVE StopDrains'
  <2>1. \A h \in Gens \ {g} :
          pc'[h] = pc[h] /\ offered'[h] = offered[h] /\ owed'[h] = owed[h]
    BY <1>4, ThreadFrame
  <2>2. pc'[g] \in {"exiting", "dead"} => Len(offered'[g]) >= owed'[g]
    <3> USE DEF TypeOK, Goto
    <3>1. CASE LoopTest(g)
      <4>1. CASE HasOffer
        BY <3>1, <4>1 DEF LoopTest, AfterDrain
      <4>2. CASE ~HasOffer
        <5>1. accepted[g] = <<>> /\ owed[g] <= Len(accepted[g])
          BY <4>2 DEF OwedOK
        <5>2. offered'[g] = offered[g] /\ owed'[g] = owed[g]
          BY <3>1 DEF LoopTest
        <5>3. Len(offered[g]) \in Nat
          BY LenProperties
        <5> QED BY <5>1, <5>2, <5>3
      <4> QED BY <4>1, <4>2
    <3>2. CASE FinalEmpty(g)
      <4>1. /\ outbox[g] = <<>> /\ pc[g] = "final"
            /\ offered'[g] = offered[g] /\ owed'[g] = owed[g]
        BY <3>2 DEF FinalEmpty, Empty
      <4>2. Taken(g) = <<>>
        BY <4>1 DEF LocalsOK, Offering, Taken
      <4>3. accepted[g] = offered[g] \o <<>> \o <<>>
        BY <4>1, <4>2 DEF ExactlyOnceInOrder
      <4>4. Len(offered[g] \o <<>> \o <<>>) = Len(offered[g]) + Len(<<>>) + Len(<<>>)
        <5>1. offered[g] \in Seq(Items) /\ <<>> \in Seq(Items)
          BY EmptySeq
        <5> QED BY <5>1, PartsLength, Zenon
      <4>5. Len(<<>>) = 0 /\ Len(offered[g]) \in Nat
        BY LenProperties
      <4>6. owed[g] <= Len(accepted[g])
        BY DEF OwedOK
      <4> QED BY <4>1, <4>3, <4>4, <4>5, <4>6
    <3>3. CASE ThreadEnds(g)
      BY <3>3 DEF ThreadEnds, StopDrains
    <3>4. CASE DrainTake(g) \/ WaitTake(g) \/ FinalTake(g)
      BY <3>4 DEF DrainTake, WaitTake, FinalTake, Take
    <3>5. CASE DrainOffer(g) \/ WaitOffer(g) \/ FinalOffer(g)
      BY <3>5 DEF DrainOffer, WaitOffer, FinalOffer, OfferOne, AfterDrain
    <3>6. CASE DrainEmpty(g) \/ WaitEmpty(g)
      BY <3>6 DEF DrainEmpty, WaitEmpty, Empty, AfterEmpty, AfterDrain
    <3>7. CASE PollReturns(g) \/ HookReturns(g)
      BY <3>7 DEF PollReturns, HookReturns
    <3>8. CASE ThreadRaises(g) \/ HookStops(g)
      BY <3>8 DEF ThreadRaises, HookStops
    <3> QED BY <1>4, <3>1, <3>2, <3>3, <3>4, <3>5, <3>6, <3>7, <3>8 DEF Thread
  <2> QED BY <2>1, <2>2 DEF StopDrains
<1> QED BY <1>1, <1>2, <1>3, <1>4 DEF Next

-----------------------------------------------------------------------------
(* The theorems *)

LEMMA IInvStep == IInv /\ [Next]_vars => IInv'
BY TypeStep, LocalsStep, NewbornStep, OwedStep, ExactlyOnceStep, EndsStep,
   StopDrainsStep DEF IInv

\* The inductive invariant holds in every reachable state of PumpHandle and
\* MessagePump, whatever the number of threads and the size of the outbox.
THEOREM Inductive == Spec => []IInv
BY InitIInv, IInvStep, PTL DEF Spec

\* Every variable of the handle, its callers and the pump threads keeps its type.
THEOREM TypeCorrect == Spec => []TypeOK
BY Inductive, PTL DEF IInv

\* PumpHandle.submit and _drain_outbox deliver every accepted item at most
\* once and in order, for every number of submitters, pumps and errors.
THEOREM ExactlyOnce == Spec => []ExactlyOnceInOrder
BY Inductive, PTL DEF IInv

\* Exceptions in poll, offer or on_message never end MessagePump._run.
THEOREM OnlyStopEnds == Spec => []EndsOnlyWhenStopped
BY Inductive, PTL DEF IInv

\* What was accepted before MessagePump.stop set the event has been offered
\* when the thread leaves _run.
THEOREM StopDelivers == Spec => []StopDrains
BY Inductive, PTL DEF IInv

-----------------------------------------------------------------------------
(* Refinement: the pump implements SendService *)

LEMMA ServiceInit == Init => Service!SInit
<1> SUFFICES ASSUME Init PROVE Service!SInit
  OBVIOUS
<1>1. \A g \in Gens : PhaseOf(g) = "new"
  BY DEF Init, PhaseOf
<1> QED BY <1>1 DEF Init, Service!SInit

\* A step that leaves the history, the stop events and the three coarse
\* regions of the program counters alone is invisible to the service.
LEMMA ServiceStutter ==
  ASSUME UNCHANGED <<accepted, offered, owed>>,
         \A g \in Gens : PhaseOf(g)' = PhaseOf(g)
  PROVE  UNCHANGED Service!svars
BY DEF Service!svars

LEMMA ServiceStep == IInv /\ [Next]_vars => [Service!SNext]_(Service!svars)
<1> SUFFICES ASSUME IInv, [Next]_vars
             PROVE  Service!SNext \/ UNCHANGED Service!svars
  OBVIOUS
<1> USE DEF IInv
<1> DEFINE phase == [g \in Gens |-> PhaseOf(g)]
<1>1. CASE UNCHANGED vars
  BY <1>1, ServiceStutter DEF vars, threadVars, PhaseOf
<1>2. ASSUME NEW c \in Controllers, Caller(c)
      PROVE  Service!SNext \/ UNCHANGED Service!svars
  <2> USE DEF callerVars, submitVars, threadVars
  <2>1. CASE StartThread(c)
    <3>1. PICK g \in Gens : g = ctlGen[c] /\ pc[g] = "unborn"
      BY <2>1 DEF StartThread, NewbornOK
    <3>2. UNCHANGED <<accepted, offered, owed>>
      BY <2>1 DEF StartThread
    <3>3. /\ pc'[g] = "loop" /\ ~stopEvt'[g]
          /\ \A h \in Gens \ {g} : pc'[h] = pc[h] /\ stopEvt'[h] = stopEvt[h]
      BY <2>1, <3>1 DEF StartThread, TypeOK
    <3>4. /\ PhaseOf(g) = "new" /\ PhaseOf(g)' = "up"
          /\ \A h \in Gens \ {g} : PhaseOf(h)' = PhaseOf(h)
      BY <3>1, <3>3 DEF PhaseOf
    <3>5. phase' = [phase EXCEPT ![g] = "up"] /\ phase[g] = "new"
      BY <3>1, <3>4
    <3>6. Service!SStart(g)
      BY <3>2, <3>5 DEF Service!SStart
    <3> QED BY <3>1, <3>6 DEF Service!SNext
  <2>2. CASE StopBegin(c)
    <3>1. PICK g \in Gens : g = handle /\ pc[g] # "unborn"
      BY <2>2 DEF StopBegin, NewbornOK, TypeOK
    <3>2. /\ UNCHANGED <<accepted, offered, pc>> /\ stopEvt'[g]
          /\ \A h \in Gens \ {g} : stopEvt'[h] = stopEvt[h]
          /\ owed' = IF stopEvt[g] THEN owed ELSE [owed EXCEPT ![g] = Len(accepted[g])]
      BY <2>2, <3>1 DEF StopBegin, SetStop, TypeOK
    <3>3. \A h \in Gens \ {g} : PhaseOf(h)' = PhaseOf(h)
      BY <3>2 DEF PhaseOf
    <3>4. CASE stopEvt[g]
      <4>1. PhaseOf(g)' = PhaseOf(g)
        BY <3>2, <3>4 DEF PhaseOf
      <4> QED BY <3>2, <3>3, <3>4, <4>1, ServiceStutter
    <3>5. CASE ~stopEvt[g]
      <4>1. pc[g] \notin {"exiting", "dead"}
        BY <3>1, <3>5 DEF EndsOnlyWhenStopped
      <4>2. PhaseOf(g) = "up" /\ PhaseOf(g)' = "stopping"
        BY <3>1, <3>2, <3>5, <4>1 DEF PhaseOf
      <4>3. phase' = [phase EXCEPT ![g] = "stopping"] /\ phase[g] = "up"
        BY <3>1, <3>3, <4>2
      <4>4. Service!SStop(g)
        BY <3>2, <3>5, <4>3 DEF Service!SStop
      <4> QED BY <3>1, <4>4 DEF Service!SNext
    <3> QED BY <3>4, <3>5
  <2>3. CASE ~StartThread(c) /\ ~StopBegin(c)
    <3>1. UNCHANGED <<accepted, offered, owed, pc, stopEvt>>
      BY <1>2, <2>3 DEF Caller, StartRefused, StartCheck, StartPublish, StopNothing,
         StopJoined, StopTimeout, StopRaises, StopForgets, vars
    <3> QED BY <3>1, ServiceStutter DEF PhaseOf
  <2> QED BY <2>1, <2>2, <2>3
<1>3. ASSUME NEW s \in Submitters, Submitter(s)
      PROVE  Service!SNext \/ UNCHANGED Service!svars
  <2>1. UNCHANGED <<pc, stopEvt, offered, owed>>
    BY <1>3, SubmitterFrame
  <2>2. \A g \in Gens : PhaseOf(g)' = PhaseOf(g)
    BY <2>1 DEF PhaseOf
  <2>3. CASE SubmitPut(s)
    <3>1. PICK g \in Gens : g = subGen[s] /\ subItem[s] \in Items /\ pc[g] # "unborn"
      BY <2>3 DEF SubmitPut, LocalsOK, NewbornOK, Gens, None
    <3>2. accepted' = [accepted EXCEPT ![g] = Append(@, subItem[s])]
      BY <2>3, <3>1 DEF SubmitPut
    <3>3. PhaseOf(g) # "new"
      BY <3>1 DEF PhaseOf
    <3>4. phase[g] # "new" /\ phase' = phase
      BY <3>1, <3>3, <2>2
    <3>5. Service!SAccept(g, subItem[s])
      BY <2>1, <3>2, <3>4 DEF Service!SAccept
    <3> QED BY <3>1, <3>5 DEF Service!SNext
  <2>4. CASE ~SubmitPut(s)
    <3>1. UNCHANGED accepted
      BY <1>3, <2>4 DEF Submitter, SubmitRead, SubmitCheck, SubmitRefused, SubmitFull
    <3> QED BY <2>1, <2>2, <3>1, ServiceStutter
  <2> QED BY <2>3, <2>4
<1>4. ASSUME NEW g \in Gens, Thread(g)
      PROVE  Service!SNext \/ UNCHANGED Service!svars
  <2>1. /\ UNCHANGED accepted
        /\ \A h \in Gens \ {g} : pc'[h] = pc[h] /\ stopEvt'[h] = stopEvt[h]
    BY <1>4, ThreadFrame DEF threadOnly
  <2>2. \A h \in Gens \ {g} : PhaseOf(h)' = PhaseOf(h)
    BY <2>1 DEF PhaseOf
  <2>3. ASSUME UNCHANGED <<offered, owed, stopEvt>>, pc[g] = "unborn" <=> pc'[g] = "unborn",
               pc[g] \in {"exiting", "dead"} <=> pc'[g] \in {"exiting", "dead"}
        PROVE  UNCHANGED Service!svars
    <3>1. PhaseOf(g)' = PhaseOf(g)
      BY <2>3 DEF PhaseOf
    <3> QED BY <2>1, <2>2, <2>3, <3>1, ServiceStutter
  <2>4. ASSUME UNCHANGED <<offered, owed, stopEvt>>, stopEvt[g], pc'[g] = "exiting",
               pc[g] \in {"loop", "final"}, Len(offered[g]) >= owed[g]
        PROVE  Service!SNext
    <3>1. PhaseOf(g) = "stopping" /\ PhaseOf(g)' = "down"
      BY <2>4 DEF PhaseOf
    <3>2. phase' = [phase EXCEPT ![g] = "down"] /\ phase[g] = "stopping"
      BY <2>2, <3>1
    <3>3. Service!SDown(g)
      BY <2>1, <2>4, <3>2 DEF Service!SDown
    <3> QED BY <3>3 DEF Service!SNext
  <2>5. ASSUME NEW from \in Offering, NEW to \in {"drain", "poll", "loop", "final"},
               OfferOne(g, from, to)
        PROVE  Service!SNext
    <3>1. /\ pc[g] = from /\ pc'[g] = to /\ UNCHANGED <<stopEvt, owed>>
          /\ offered' = [offered EXCEPT ![g] = Append(@, cur[g])]
      BY <2>5 DEF OfferOne, Goto, TypeOK
    <3>2. cur[g] \in Items /\ cur[g] # None
      BY <3>1 DEF LocalsOK, TypeOK
    <3>3. accepted[g] = offered[g] \o <<cur[g]>> \o outbox[g]
      BY <3>2 DEF ExactlyOnceInOrder, Taken
    <3>4. offered[g] \in Seq(Items) /\ outbox[g] \in Seq(Items)
      BY DEF TypeOK
    <3>5. /\ Len(offered[g] \o <<cur[g]>> \o outbox[g]) > Len(offered[g])
          /\ (offered[g] \o <<cur[g]>> \o outbox[g])[Len(offered[g]) + 1] = cur[g]
      BY <3>2, <3>4, HandIsNext, Zenon
    <3>6. /\ Len(accepted[g]) > Len(offered[g])
          /\ accepted[g][Len(offered[g]) + 1] = cur[g]
      BY <3>3, <3>5
    <3>7. PhaseOf(g) \in {"up", "stopping"} /\ PhaseOf(g)' = PhaseOf(g)
      BY <3>1 DEF PhaseOf, Offering
    <3>8. phase[g] \in {"up", "stopping"} /\ phase' = phase
      BY <2>2, <3>7
    <3>9. Len(offered[g]) < Len(accepted[g])
      BY <3>4, <3>6, LenProperties DEF TypeOK
    <3>10. Service!SOffer(g)
      BY <2>1, <3>1, <3>6, <3>8, <3>9 DEF Service!SOffer
    <3> QED BY <3>10 DEF Service!SNext
  <2> USE DEF TypeOK, Goto
  <2>6. CASE LoopTest(g)
    <3>1. UNCHANGED <<offered, owed, stopEvt>> /\ pc[g] = "loop"
      BY <2>6 DEF LoopTest
    <3>2. CASE pc'[g] = "exiting"
      <4>1. stopEvt[g] /\ ~HasOffer
        BY <2>6, <3>2 DEF LoopTest, AfterDrain
      <4>2. accepted[g] = <<>> /\ owed[g] <= Len(accepted[g])
        BY <4>1 DEF OwedOK
      <4>3. Len(offered[g]) >= owed[g]
        BY <4>2, LenProperties
      <4> QED BY <2>4, <3>1, <3>2, <4>1, <4>3
    <3>3. CASE pc'[g] # "exiting"
      <4>1. pc'[g] \in {"final", "drain", "poll", "loop"}
        BY <2>6, <3>3 DEF LoopTest, AfterDrain
      <4> QED BY <2>3, <3>1, <4>1
    <3> QED BY <3>2, <3>3
  <2>7. CASE FinalEmpty(g)
    <3>1. /\ UNCHANGED <<offered, owed, stopEvt>>
          /\ pc[g] = "final" /\ pc'[g] = "exiting"
      BY <2>7 DEF FinalEmpty, Empty
    <3>2. Len(offered'[g]) >= owed'[g]
      BY <3>1, StopDrainsStep DEF StopDrains
    <3>3. stopEvt[g]
      BY <3>1 DEF EndsOnlyWhenStopped
    <3> QED BY <2>4, <3>1, <3>2, <3>3
  <2>8. CASE HookStops(g)
    <3>1. /\ UNCHANGED offered /\ pc[g] = "deliver" /\ pc'[g] = "loop" /\ stopEvt'[g]
          /\ owed' = IF stopEvt[g] THEN owed ELSE [owed EXCEPT ![g] = Len(accepted[g])]
      BY <2>8 DEF HookStops, SetStop
    <3>2. CASE stopEvt[g]
      <4>1. PhaseOf(g)' = PhaseOf(g)
        BY <3>1, <3>2 DEF PhaseOf
      <4> QED BY <2>1, <2>2, <3>1, <3>2, <4>1, ServiceStutter
    <3>3. CASE ~stopEvt[g]
      <4>1. PhaseOf(g) = "up" /\ PhaseOf(g)' = "stopping"
        BY <3>1, <3>3 DEF PhaseOf
      <4>2. phase' = [phase EXCEPT ![g] = "stopping"] /\ phase[g] = "up"
        BY <2>2, <4>1
      <4>3. Service!SStop(g)
        BY <2>1, <3>1, <3>3, <4>2 DEF Service!SStop
      <4> QED BY <4>3 DEF Service!SNext
    <3> QED BY <3>2, <3>3
  <2>9. CASE DrainOffer(g) \/ WaitOffer(g) \/ FinalOffer(g)
    BY <2>5, <2>9 DEF DrainOffer, WaitOffer, FinalOffer, AfterDrain, Offering
  <2>10. CASE DrainTake(g) \/ WaitTake(g) \/ FinalTake(g)
    BY <2>3, <2>10 DEF DrainTake, WaitTake, FinalTake, Take
  <2>11. CASE DrainEmpty(g) \/ WaitEmpty(g)
    BY <2>3, <2>11 DEF DrainEmpty, WaitEmpty, Empty, AfterEmpty, AfterDrain
  <2>12. CASE PollReturns(g) \/ HookReturns(g)
    BY <2>3, <2>12 DEF PollReturns, HookReturns
  <2>13. CASE ThreadRaises(g)
    BY <2>3, <2>13 DEF ThreadRaises
  <2>14. CASE ThreadEnds(g)
    BY <2>3, <2>14 DEF ThreadEnds
  <2> QED BY <1>4, <2>6, <2>7, <2>8, <2>9, <2>10, <2>11, <2>12, <2>13, <2>14 DEF Thread
<1> QED BY <1>1, <1>2, <1>3, <1>4 DEF Next

\* PumpHandle and its threads implement the in-order, at-most-once delivery
\* service whose stop first lets out what was accepted.
THEOREM Implements == Spec => ImplementsService
BY ServiceInit, ServiceStep, Inductive, PTL DEF Spec, ImplementsService, Service!SSafe

-----------------------------------------------------------------------------
(* One controlling thread: the handle and the live thread never part *)

OneController == \A c, d \in Controllers : c = d

\* A stop in progress works on the pump the handle holds; a start in progress
\* found no live pump.
OwnerOK ==
  /\ \A c \in Controllers : ctl[c] \in {"join", "joined"} => ctlGen[c] = handle
  /\ \A c \in Controllers : ctl[c] \in {"spawn", "publish"} => ~Running
  /\ NoOrphan

LEMMA OwnerStep ==
  ASSUME OneController, IInv, OwnerOK, [Next]_vars
  PROVE  OwnerOK'
<1> USE DEF IInv
<1>1. CASE UNCHANGED vars
  BY <1>1 DEF OwnerOK, NoOrphan, Running, Alive, vars, callerVars, threadVars
<1>2. ASSUME NEW c \in Controllers, Caller(c) PROVE OwnerOK'
  <2> USE DEF callerVars, submitVars, threadVars
  <2>0. \A d \in Controllers : d = c
    BY DEF OneController
  <2>1. CASE StartRefused(c) \/ StopNothing(c)
    BY <2>1 DEF StartRefused, StopNothing, OwnerOK, NoOrphan, Running, Alive, vars
  <2>2. CASE StartCheck(c)
    <3>1. /\ ctl[c] = "idle" /\ ctl'[c] = "spawn" /\ ~Running
          /\ UNCHANGED <<handle, pc>>
      BY <2>2 DEF StartCheck, TypeOK
    <3>2. \A g \in Gens : ~Alive(g)
      BY <2>0, <3>1, PumpAssumption DEF OwnerOK, NoOrphan, Running, Gens, None
    <3> QED BY <2>0, <3>1, <3>2 DEF OwnerOK, NoOrphan, Running, Alive
  <2>3. CASE StartThread(c)
    <3>1. PICK g \in Gens : g = ctlGen[c] /\ pc[g] = "unborn"
      BY <2>3 DEF StartThread, NewbornOK
    <3>2. /\ ctl[c] = "spawn" /\ ctl'[c] = "publish" /\ ctlGen'[c] = g
          /\ UNCHANGED handle /\ \A h \in Gens \ {g} : pc'[h] = pc[h]
      BY <2>3, <3>1 DEF StartThread, TypeOK
    <3>3. ~Running
      BY <3>2 DEF OwnerOK
    <3>4. \A h \in Gens \ {g} : ~Alive(h)
      BY <2>0, <3>2, <3>3, PumpAssumption DEF OwnerOK, NoOrphan, Running, Gens, None
    <3>5. handle = None \/ (handle \in Gens \ {g} /\ ~Alive(handle))
      BY <3>1, <3>3 DEF Running, TypeOK, NewbornOK
    <3>6. ~Running'
      BY <3>2, <3>5 DEF Running, Alive
    <3>7. \A h \in Gens \ {g} : ~Alive(h)'
      BY <3>2, <3>4 DEF Alive
    <3>8. NoOrphan'
      BY <3>2, <3>7 DEF NoOrphan
    <3> QED BY <2>0, <3>2, <3>6, <3>8 DEF OwnerOK
  <2>4. CASE StartPublish(c)
    <3>1. /\ ctl[c] = "publish" /\ ctl'[c] = "idle" /\ handle' = ctlGen[c]
          /\ UNCHANGED pc
      BY <2>4 DEF StartPublish, TypeOK
    <3>2. ~Running
      BY <3>1 DEF OwnerOK
    <3>3. \A h \in Gens : Alive(h) => h = ctlGen[c]
      BY <2>0, <3>1, <3>2, PumpAssumption DEF OwnerOK, NoOrphan, Running, Gens, None
    <3> QED BY <2>0, <3>1, <3>3 DEF OwnerOK, NoOrphan, Alive
  <2>5. CASE StopBegin(c)
    BY <2>0, <2>5 DEF StopBegin, OwnerOK, NoOrphan, Alive, TypeOK
  <2>6. CASE StopJoined(c) \/ StopTimeout(c)
    BY <2>0, <2>6 DEF StopJoined, StopTimeout, OwnerOK, NoOrphan, Alive, TypeOK
  <2>7. CASE StopRaises(c)
    BY <2>0, <2>7 DEF StopRaises, OwnerOK, NoOrphan, Alive, TypeOK
  <2>8. CASE StopForgets(c)
    <3>1. /\ ctl[c] = "joined" /\ ctl'[c] = "idle" /\ ~Alive(ctlGen[c])
          /\ handle' = None /\ UNCHANGED pc
      BY <2>8 DEF StopForgets, TypeOK
    <3>2. ctlGen[c] = handle
      BY <3>1 DEF OwnerOK
    <3>3. \A h \in Gens : ~Alive(h)
      BY <2>0, <3>1, <3>2 DEF OwnerOK, NoOrphan
    <3> QED BY <2>0, <3>1, <3>3 DEF OwnerOK, NoOrphan, Alive
  <2> QED BY <1>2, <2>1, <2>2, <2>3, <2>4, <2>5, <2>6, <2>7, <2>8 DEF Caller
<1>3. ASSUME NEW s \in Submitters, Submitter(s) PROVE OwnerOK'
  <2>1. UNCHANGED <<handle, ctl, ctlGen, pc>>
    BY <1>3, SubmitterFrame DEF callerVars
  <2> QED BY <2>1 DEF OwnerOK, NoOrphan, Running, Alive
<1>4. ASSUME NEW g \in Gens, Thread(g) PROVE OwnerOK'
  <2>1. UNCHANGED <<handle, ctl, ctlGen>>
    BY <1>4, ThreadFrame DEF threadOnly, callerVars
  <2>2. \A h \in Gens : Alive(h)' => Alive(h)
    <3>1. \A h \in Gens \ {g} : pc'[h] = pc[h]
      BY <1>4, ThreadFrame
    <3>2. pc[g] # "unborn"
      BY <1>4, ThreadFrame
    <3>3. pc[g] # "dead"
      BY <1>4 DEF Thread, LoopTest, DrainTake, DrainOffer, DrainEmpty, WaitTake,
         WaitOffer, WaitEmpty, FinalTake, FinalOffer, FinalEmpty, Take, Empty,
         OfferOne, PollReturns, HookReturns, ThreadRaises, HookStops, ThreadEnds, Goto
    <3> QED BY <3>1, <3>2, <3>3 DEF Alive
  <2>3. Running' => Running
    BY <2>1, <2>2 DEF Running, TypeOK, Alive
  <2> QED BY <2>1, <2>2, <2>3 DEF OwnerOK, NoOrphan
<1> QED BY <1>1, <1>2, <1>3, <1>4 DEF Next

\* With one thread calling start and stop, PumpHandle never lets go of a pump
\* whose thread still runs: a stop that timed out can be repeated.
THEOREM NeverOrphaned ==
  ASSUME OneController
  PROVE  Spec => []NoOrphan
<1>1. Init => OwnerOK
  BY DEF Init, OwnerOK, NoOrphan, Running, Alive
<1>2. IInv /\ OwnerOK /\ [Next]_vars => OwnerOK'
  BY OwnerStep
<1>3. OwnerOK => NoOrphan
  BY DEF OwnerOK
<1> QED BY <1>1, <1>2, <1>3, Inductive, PTL DEF Spec

\* With one thread calling start and stop, at most one pump thread of a handle
\* is alive, so nothing else touches what the pump owns.
THEOREM SingleOwner ==
  ASSUME OneController
  PROVE  Spec => []OneLivePump
<1>1. Init => OwnerOK
  BY DEF Init, OwnerOK, NoOrphan, Running, Alive
<1>2. IInv /\ OwnerOK /\ [Next]_vars => OwnerOK'
  BY OwnerStep
<1>3. ASSUME IInv, OwnerOK PROVE OneLivePump
  <2> SUFFICES ASSUME NEW g \in Gens, NEW h \in Gens, Alive(g), Alive(h)
               PROVE  g = h
    BY DEF OneLivePump
  <2>1. \A k \in Gens : Alive(k) /\ k = handle =>
          \A c \in Controllers : ctl[c] # "publish"
    BY <1>3, PumpAssumption DEF OwnerOK, Running, Gens, None
  <2>2. /\ g = handle \/ \E c \in Controllers : ctl[c] = "publish" /\ ctlGen[c] = g
        /\ h = handle \/ \E c \in Controllers : ctl[c] = "publish" /\ ctlGen[c] = h
    BY <1>3 DEF OwnerOK, NoOrphan
  <2> QED BY <2>1, <2>2 DEF OneController
<1> QED BY <1>1, <1>2, <1>3, Inductive, PTL DEF Spec
-----------------------------------------------------------------------------
(* The ZMQ client *)

\* A client's steps are steps of its pump, or leave the pump alone.
LEMMA ClientStepIsPumpStep == [ClientNext]_allVars => [Next]_vars
<1> SUFFICES ASSUME [ClientNext]_allVars PROVE [Next]_vars
  OBVIOUS
<1>1. CASE UNCHANGED allVars
  BY <1>1 DEF allVars
<1>2. ASSUME NEW c \in Controllers, Client(c) PROVE [Next]_vars
  <2>1. CASE UseRefused(c) \/ UseCheck(c) \/ UseSocket(c) \/ UseReturns(c) \/ CloseSocket(c)
    BY <2>1 DEF UseRefused, UseCheck, UseSocket, UseReturns, CloseSocket, allVars
  <2>2. CASE CloseStopsNothing(c) \/ CloseStops(c) \/ CloseJoins(c)
             \/ CloseRaises(c) \/ CloseForgets(c)
    <3>1. Caller(c)
      BY <2>2 DEF CloseStopsNothing, CloseStops, CloseJoins, CloseRaises, CloseForgets,
                  Caller
    <3> QED BY <3>1 DEF Next
  <2> QED BY <1>2, <2>1, <2>2 DEF Client
<1>3. ASSUME NEW c \in Controllers, StartStop(c) PROVE [Next]_vars
  BY <1>3 DEF StartStop, Next
<1>4. ASSUME NEW s \in Submitters, Submitter(s) PROVE [Next]_vars
  BY <1>4 DEF Next
<1>5. ASSUME NEW g \in Gens, Thread(g) PROVE [Next]_vars
  BY <1>5 DEF Next
<1> QED BY <1>1, <1>2, <1>3, <1>4, <1>5 DEF ClientNext

\* Every behaviour of a client is one of its pump.
THEOREM ClientIsPump == ClientSpec => Spec
<1>1. ClientInit => Init
  BY DEF ClientInit
<1> QED BY <1>1, ClientStepIsPumpStep, PTL DEF ClientSpec, Spec

\* Only a live thread takes steps.
LEMMA ThreadIsAlive ==
  ASSUME NEW g \in Gens, Thread(g)
  PROVE  Alive(g)
<1> USE DEF Goto, Alive
<1>1. CASE DrainTake(g) \/ WaitTake(g) \/ FinalTake(g)
  BY <1>1 DEF DrainTake, WaitTake, FinalTake, Take
<1>2. CASE DrainOffer(g) \/ WaitOffer(g) \/ FinalOffer(g)
  BY <1>2 DEF DrainOffer, WaitOffer, FinalOffer, OfferOne
<1>3. CASE DrainEmpty(g) \/ WaitEmpty(g) \/ FinalEmpty(g)
  BY <1>3 DEF DrainEmpty, WaitEmpty, FinalEmpty, Empty
<1>4. CASE LoopTest(g) \/ PollReturns(g) \/ HookReturns(g) \/ ThreadRaises(g)
           \/ HookStops(g) \/ ThreadEnds(g)
  BY <1>4 DEF LoopTest, PollReturns, HookReturns, ThreadRaises, HookStops, ThreadEnds
<1> QED BY <1>1, <1>2, <1>3, <1>4 DEF Thread

-----------------------------------------------------------------------------
(* The socket has one user *)

\* A controller on its way into the socket, or about to close it, is in no
\* start or stop and has no live pump beside it.
ClientOK ==
  /\ ClientTypeOK
  /\ \A c \in Controllers : use[c] \in {"checked", "inside", "closeSocket"} =>
       ctl[c] = "idle" /\ \A g \in Gens : ~Alive(g)

\* The handle is the whole truth about live pumps when its only controller
\* is idle.
LEMMA IdleMeansNoneAlive ==
  ASSUME OneController, NoOrphan, NEW c \in Controllers, ctl[c] = "idle", ~Running
  PROVE  \A g \in Gens : ~Alive(g)
BY PumpAssumption DEF OneController, NoOrphan, Running, Gens, None

LEMMA ClientStep ==
  ASSUME OneController, IInv, OwnerOK, ClientOK, [ClientNext]_allVars
  PROVE  ClientOK'
<1> USE DEF IInv, TypeOK
<1>0. \A c, d \in Controllers : c = d
  BY DEF OneController
<1>1. CASE UNCHANGED allVars
  BY <1>1 DEF allVars, vars, callerVars, threadVars, clientVars, ClientOK, ClientTypeOK, Alive
<1>2. ASSUME NEW c \in Controllers, Client(c) PROVE ClientOK'
  <2> USE DEF Enter
  <2>1. CASE UseRefused(c)
    BY <1>1, <2>1 DEF UseRefused
  <2>2. CASE UseCheck(c)
    <3>1. ctl[c] = "idle" /\ \A g \in Gens : ~Alive(g)
      BY <2>2, IdleMeansNoneAlive DEF UseCheck, Free, OwnerOK
    <3> QED BY <1>0, <2>2, <3>1 DEF UseCheck, ClientOK, ClientTypeOK, Alive, vars,
                                    callerVars, threadVars
  <2>3. CASE UseSocket(c) \/ UseReturns(c) \/ CloseSocket(c)
    BY <1>0, <2>3 DEF UseSocket, UseReturns, CloseSocket, ClientOK, ClientTypeOK, Alive,
                      vars, callerVars, threadVars
  <2>4. CASE CloseStopsNothing(c)
    <3>1. ctl[c] = "idle" /\ \A g \in Gens : ~Alive(g)
      BY <2>4, IdleMeansNoneAlive DEF CloseStopsNothing, StopNothing, OwnerOK, Running
    <3> QED BY <1>0, <2>4, <3>1 DEF CloseStopsNothing, StopNothing, ClientOK, ClientTypeOK,
                                    Alive, vars, callerVars, threadVars
  <2>5. CASE CloseStops(c)
    BY <1>0, <2>5 DEF CloseStops, StopBegin, ClientOK, ClientTypeOK, Alive
  <2>7. CASE CloseJoins(c)
    BY <1>0, <2>7 DEF CloseJoins, StopJoined, StopTimeout, ClientOK, ClientTypeOK,
                      clientVars, threadVars, Alive
  <2>8. CASE CloseRaises(c)
    BY <1>0, <2>8 DEF CloseRaises, StopRaises, ClientOK, ClientTypeOK, threadVars, Alive
  <2>6. CASE CloseForgets(c)
    <3>1. ctlGen[c] = handle /\ ~Alive(ctlGen[c]) /\ ctl[c] = "joined"
      BY <2>6 DEF CloseForgets, StopForgets, OwnerOK
    <3>2. \A g \in Gens : ~Alive(g)
      BY <1>0, <3>1 DEF OwnerOK, NoOrphan
    <3> QED BY <1>0, <2>6, <3>2 DEF CloseForgets, StopForgets, ClientOK, ClientTypeOK,
                                    Alive, threadVars
  <2> QED BY <1>2, <2>1, <2>2, <2>3, <2>4, <2>5, <2>6, <2>7, <2>8 DEF Client
<1>3. ASSUME NEW c \in Controllers, StartStop(c) PROVE ClientOK'
  <2>1. \A d \in Controllers : use'[d] = "idle"
    BY <1>0, <1>3 DEF StartStop, clientVars
  <2> QED BY <1>3, <2>1 DEF StartStop, clientVars, ClientOK, ClientTypeOK
<1>4. ASSUME NEW s \in Submitters, Submitter(s), UNCHANGED clientVars PROVE ClientOK'
  <2>1. ctl' = ctl /\ pc' = pc
    BY <1>4, SubmitterFrame DEF callerVars
  <2> QED BY <1>4, <2>1 DEF clientVars, ClientOK, ClientTypeOK, Alive
<1>5. ASSUME NEW g \in Gens, Thread(g), UNCHANGED clientVars PROVE ClientOK'
  <2>1. Alive(g)
    BY <1>5, ThreadIsAlive
  <2>2. ctl' = ctl /\ \A h \in Gens \ {g} : pc'[h] = pc[h]
    BY <1>5, ThreadFrame DEF threadOnly, callerVars
  <2> QED BY <1>5, <2>1, <2>2 DEF clientVars, ClientOK, ClientTypeOK
<1> QED BY <1>1, <1>2, <1>3, <1>4, <1>5 DEF ClientNext

\* The three invariants together, for a client with one controlling thread.
LEMMA ClientInvariants ==
  ASSUME OneController
  PROVE  ClientSpec => [](IInv /\ OwnerOK /\ ClientOK)
<1>1. ClientInit => OwnerOK /\ ClientOK
  BY DEF ClientInit, Init, OwnerOK, NoOrphan, Running, ClientOK, ClientTypeOK, Alive
<1>2. IInv /\ OwnerOK /\ [Next]_vars => OwnerOK'
  BY OwnerStep
<1>3. IInv /\ OwnerOK /\ ClientOK /\ [ClientNext]_allVars => ClientOK'
  BY ClientStep
<1> QED BY <1>1, <1>2, <1>3, ClientStepIsPumpStep, ClientIsPump, Inductive, PTL
        DEF ClientSpec

\* With one controlling thread, no two threads are ever inside one socket:
\* not two pumps, not a pump and the caller (send, receive, _pump_owns_socket).
THEOREM SocketHasOneUser ==
  ASSUME OneController
  PROVE  ClientSpec => []OneThreadInSocket
<1>1. ASSUME ClientOK, OneLivePump PROVE OneThreadInSocket
  <2>1. \A g \in Gens : PumpInside(g) => Alive(g)
    BY DEF PumpInside, Alive
  <2> QED BY <1>1, <2>1 DEF OneThreadInSocket, PumpOwnsSocket, CallerInside, ClientOK,
                            OneLivePump, OneController
<1> QED BY <1>1, ClientInvariants, SingleOwner, ClientIsPump, PTL

\* With one controlling thread, close never closes the socket under a thread
\* that is inside it (close: stop_listen and stop_sender come first).
THEOREM CloseIsLast ==
  ASSUME OneController
  PROVE  ClientSpec => NeverClosedUnderUse
<1>1. ASSUME ClientOK, [ClientNext]_allVars, socket' # socket
      PROVE  /\ \A c \in Controllers : ~CallerInside(c)
             /\ \A g \in Gens : ~PumpInside(g)
  <2>1. PICK c \in Controllers : CloseSocket(c)
    BY <1>1 DEF ClientNext, Client, UseRefused, UseCheck, UseSocket, UseReturns,
                CloseStopsNothing, CloseStops, CloseJoins, CloseRaises, CloseForgets,
                StartStop, allVars, clientVars
  <2>2. use[c] = "closeSocket"
    BY <2>1 DEF CloseSocket, Enter
  <2> QED BY <1>1, <2>2 DEF ClientOK, CallerInside, PumpInside, Alive, OneController
<1> QED BY <1>1, ClientInvariants, PTL DEF ClientSpec, NeverClosedUnderUse
=============================================================================
