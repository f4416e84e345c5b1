--------------------------- MODULE SshExec_proofs ---------------------------
(* What exec returns, for every command, exit code, length of the input and  *)
(* size of the windows and of a chunk.                                       *)
EXTENDS SshExec, FiniteSetTheorems, FunctionTheorems, SequenceTheorems, TLAPS

Sent == {"out", "err", "status", "eof", "close"}
Steps == {"out", "err", "in"}

\* Where a sequence has a kind.
Places(kind, seq) == {i \in 1..Len(seq) : seq[i] = kind}

LEMMA CountNat ==
  ASSUME NEW S, NEW seq \in Seq(S), NEW kind
  PROVE  IsFiniteSet(Places(kind, seq)) /\ Count(kind, seq) \in Nat
<1>1. IsFiniteSet(1..Len(seq))
  BY FS_Interval
<1>2. IsFiniteSet(Places(kind, seq))
  BY <1>1, FS_Subset DEF Places
<1> QED
  BY <1>2, FS_CardinalityType DEF Count, Places

LEMMA CountEmpty ==
  ASSUME NEW kind
  PROVE  Count(kind, <<>>) = 0
<1>1. {i \in 1..Len(<<>>) : <<>>[i] = kind} = {}
  OBVIOUS
<1> QED
  BY <1>1, FS_EmptySet DEF Count

LEMMA CountAppend ==
  ASSUME NEW S, NEW seq \in Seq(S), NEW e \in S, NEW kind
  PROVE  Count(kind, Append(seq, e)) = Count(kind, seq) + (IF e = kind THEN 1 ELSE 0)
<1> DEFINE n == Len(seq) + 1
<1>1. IsFiniteSet(Places(kind, seq)) /\ n \notin Places(kind, seq) /\ Count(kind, seq) \in Nat
  BY CountNat DEF Places
<1>2. Places(kind, Append(seq, e)) = IF e = kind THEN Places(kind, seq) \cup {n}
                                     ELSE Places(kind, seq)
  BY DEF Places
<1>3. Cardinality(Places(kind, seq) \cup {n}) = Cardinality(Places(kind, seq)) + 1
  BY <1>1, FS_AddElement
<1>4. \A s : Count(kind, s) = Cardinality(Places(kind, s))
  BY DEF Count, Places
<1> HIDE DEF n
<1>5. CASE e = kind
  BY <1>1, <1>2, <1>3, <1>4, <1>5, Zenon
<1>6. CASE e # kind
  <2>1. Count(kind, Append(seq, e)) = Count(kind, seq)
    BY <1>2, <1>4, <1>6, Zenon
  <2> QED
    BY <1>1, <1>6, <2>1
<1> QED
  BY <1>5, <1>6

LEMMA CountTail ==
  ASSUME NEW S, NEW seq \in Seq(S), seq # <<>>, NEW kind
  PROVE  Count(kind, seq) = Count(kind, Tail(seq)) + (IF Head(seq) = kind THEN 1 ELSE 0)
<1> DEFINE rest == Places(kind, Tail(seq))
           later == Places(kind, seq) \ {1}
           next == [i \in rest |-> i + 1]
<1>1. /\ Tail(seq) \in Seq(S) /\ Len(Tail(seq)) = Len(seq) - 1 /\ Len(seq) \in Nat
      /\ \A i \in 1..Len(Tail(seq)) : Tail(seq)[i] = seq[i + 1]
      /\ Head(seq) = seq[1] /\ 1 \in 1..Len(seq)
  BY HeadTailProperties
<1>2. /\ \A i \in rest : i \in 1..(Len(seq) - 1) /\ seq[i + 1] = kind
      /\ \A i \in later : i \in 2..Len(seq) /\ seq[i] = kind
  BY <1>1 DEF Places
<1>3. next \in [rest -> later]
  BY <1>1, <1>2 DEF Places
<1>4. \A i, j \in rest : next[i] = next[j] => i = j
  BY <1>2
<1>5. \A j \in later : \E i \in rest : next[i] = j
  <2> SUFFICES ASSUME NEW j \in later PROVE \E i \in rest : next[i] = j
    OBVIOUS
  <2>1. j - 1 \in rest /\ (j - 1) + 1 = j
    BY <1>1, <1>2 DEF Places
  <2> QED
    BY <2>1
<1>6. next \in Bijection(rest, later)
  BY <1>3, <1>4, <1>5, Fun_IsBij
<1>7. Cardinality(later) = Cardinality(rest) /\ Cardinality(rest) \in Nat
  <2>1. IsFiniteSet(rest)
    BY <1>1, CountNat
  <2> QED
    BY <1>6, <2>1, FS_Bijection, FS_CardinalityType DEF ExistsBijection
<1>8. Cardinality(later) = IF seq[1] = kind THEN Count(kind, seq) - 1 ELSE Count(kind, seq)
  <2>1. IsFiniteSet(Places(kind, seq))
    BY CountNat
  <2>2. 1 \in Places(kind, seq) <=> seq[1] = kind
    BY <1>1 DEF Places
  <2> QED
    BY <2>1, <2>2, FS_RemoveElement DEF Count, Places
<1>9. Count(kind, seq) \in Nat /\ Count(kind, Tail(seq)) = Cardinality(rest)
  BY CountNat DEF Count, Places
<1> QED
  BY <1>1, <1>7, <1>8, <1>9

\* What a command has written after one more step.
LEMMA CountStep ==
  ASSUME NEW seq \in Seq(Steps), NEW n \in 0..(Len(seq) - 1), NEW kind
  PROVE  Count(kind, SubSeq(seq, 1, n + 1)) =
           Count(kind, SubSeq(seq, 1, n)) + (IF seq[n + 1] = kind THEN 1 ELSE 0)
<1> DEFINE before == SubSeq(seq, 1, n)
           step == seq[n + 1]
<1>1. before \in Seq(Steps) /\ step \in Steps
  BY SubSeqProperties
<1>2. SubSeq(seq, 1, n + 1) = Append(before, step)
  BY <1>1
<1> HIDE DEF before, step
<1>3. Count(kind, Append(before, step)) = Count(kind, before) + (IF step = kind THEN 1 ELSE 0)
  BY <1>1, CountAppend
<1> QED
  BY <1>2, <1>3 DEF before, step

-----------------------------------------------------------------------------
(* The inductive invariant *)

\* The exit status is on its way, or in, before the channel closes, and only
\* once the command has exited; where a channel closes without a status, the
\* connection is lost or the command was killed.
StatusBeforeClose ==
  /\ \A i \in 1..Len(wire) : wire[i] = "status" => Exited
  /\ \A i \in 1..Len(wire) : wire[i] = "close" =>
       killed \/ status # NoStatus \/ \E j \in 1..(i - 1) : wire[j] = "status"
  /\ status # NoStatus => Exited /\ status = code
  /\ closed => dropped \/ killed \/ status # NoStatus

\* A stream on which nothing was pending had been handed over when it was
\* looked at.
LooksLast ==
  /\ pc \in {"pendingErr", "status"} => outPending \/ gotOut >= seenOut
  /\ pc = "status" => errPending \/ gotErr >= seenErr
  /\ LosesOnlyWhatArrivesLate

ExecInv ==
  TypeOK /\ NothingLostOnTheWay /\ StatusBeforeClose /\ LooksLast /\ CodeIsTheCommands

\* Units on the wire.
OnWire(kind) == Count(kind, wire)

\* The invariant's numbers, without the sequences they count.
Counted ==
  /\ outBuf + errBuf + OnWire("out") + OnWire("err") <= Window
  /\ ~dropped => /\ gotOut + outBuf + OnWire("out") = Written("out")
                 /\ gotErr + errBuf + OnWire("err") = Written("err")

LEMMA CountedIs ==
  (Counted <=> NothingLostOnTheWay) /\ (Counted' <=> NothingLostOnTheWay')
  BY DEF Counted, NothingLostOnTheWay, Unread, OnWire, Written

LEMMA OnWireNat ==
  ASSUME TypeOK, NEW kind
  PROVE  OnWire(kind) \in Nat /\ Written(kind) \in Nat
<1>1. wire \in Seq(Sent) /\ script \in Seq(Steps) /\ done \in 0..(Len(script) + 1)
  BY ExecAssumption DEF TypeOK, Sent, Steps
<1>2. SubSeq(script, 1, Least(done, Len(script))) \in Seq(Steps)
  <2>1. Least(done, Len(script)) \in 0..Len(script)
    BY <1>1 DEF Least
  <2> QED
    BY <1>1, <2>1, SubSeqProperties
<1> QED
  BY <1>1, <1>2, CountNat DEF OnWire, Written

\* The calling thread, and the remote command when it reads, leave what was
\* sent and what was written alone.
LEMMA NothingSent ==
  ASSUME UNCHANGED <<wire, script>>,
         Least(done, Len(script)) = Least(done', Len(script))
  PROVE  \A kind : OnWire(kind)' = OnWire(kind) /\ Written(kind)' = Written(kind)
  BY Zenon DEF OnWire, Written

-----------------------------------------------------------------------------
(* The remote command *)

LEMMA RemoteWriteKeeps ==
  ASSUME ExecInv, RemoteWrite
  PROVE  ExecInv'
<1> DEFINE step == script[done + 1]
<1>1. /\ wire \in Seq(Sent) /\ script \in Seq(Steps) /\ done \in 0..(Len(script) - 1)
      /\ step \in {"out", "err"} /\ step \in Sent
  BY ExecAssumption DEF ExecInv, TypeOK, RemoteWrite, Sent, Steps
<1>2. wire' = Append(wire, step) /\ wire' \in Seq(Sent) /\ done' = done + 1
      /\ UNCHANGED <<script, code, timeout, killed, stdinBuf, stdinEof, outBuf, errBuf,
                     status, eof, closed, dropped, callerVars>>
  BY <1>1, AppendProperties DEF RemoteWrite
<1>3. /\ Len(wire') = Len(wire) + 1 /\ wire'[Len(wire) + 1] = step /\ Len(wire) \in Nat
      /\ \A i \in 1..Len(wire) : wire'[i] = wire[i]
  BY <1>1, <1>2, AppendProperties
<1> HIDE DEF step
<1>4. \A kind : OnWire(kind)' = OnWire(kind) + (IF step = kind THEN 1 ELSE 0)
  BY <1>1, <1>2, CountAppend DEF OnWire
<1>5. \A kind : Written(kind)' = Written(kind) + (IF step = kind THEN 1 ELSE 0)
  <2>1. Least(done, Len(script)) = done /\ Least(done', Len(script')) = done + 1
    BY <1>1, <1>2 DEF Least
  <2> QED
    BY <1>1, <1>2, <2>1, CountStep DEF Written, step
<1>6. Counted'
  <2>1. Counted /\ Unread < Window /\ TypeOK
    BY CountedIs DEF ExecInv, RemoteWrite
  <2>2. outBuf + errBuf + OnWire("out") + OnWire("err") < Window
    BY <2>1 DEF Unread, OnWire
  <2>3. \A kind : OnWire(kind) \in Nat /\ Written(kind) \in Nat
    BY <2>1, OnWireNat
  <2>4. /\ OnWire("out")' = OnWire("out") + (IF step = "out" THEN 1 ELSE 0)
        /\ OnWire("err")' = OnWire("err") + (IF step = "err" THEN 1 ELSE 0)
        /\ Written("out")' = Written("out") + (IF step = "out" THEN 1 ELSE 0)
        /\ Written("err")' = Written("err") + (IF step = "err" THEN 1 ELSE 0)
    BY <1>4, <1>5
  <2>5. UNCHANGED <<outBuf, errBuf, dropped, gotOut, gotErr>>
    BY <1>2 DEF callerVars
  <2>6. /\ outBuf \in Nat /\ errBuf \in Nat /\ gotOut \in Nat /\ gotErr \in Nat
        /\ Window \in Nat
    BY <2>1, ExecAssumption DEF TypeOK
  <2>7. OnWire("out")' + OnWire("err")' = OnWire("out") + OnWire("err") + 1
    BY <1>1, <2>3, <2>4
  <2>8. outBuf' + errBuf' + OnWire("out")' + OnWire("err")' <= Window
    BY <2>2, <2>3, <2>4, <2>5, <2>6, <2>7
  <2>9. ~dropped => gotOut + outBuf + OnWire("out") = Written("out")
                    /\ gotErr + errBuf + OnWire("err") = Written("err")
    BY <2>1 DEF Counted
  <2>10. ~dropped' => gotOut' + outBuf' + OnWire("out")' = Written("out")'
                    /\ gotErr' + errBuf' + OnWire("err")' = Written("err")'
    BY <2>3, <2>4, <2>5, <2>6, <2>9
  <2> QED
    BY <2>8, <2>10 DEF Counted
<1>7. TypeOK'
  BY <1>1, <1>2 DEF ExecInv, TypeOK, callerVars, Sent
<1>8. StatusBeforeClose'
  BY <1>1, <1>2, <1>3 DEF ExecInv, StatusBeforeClose, Exited
<1>9. LooksLast' /\ CodeIsTheCommands'
  BY <1>1, <1>2 DEF ExecInv, LooksLast, CodeIsTheCommands, LosesOnlyWhatArrivesLate, Returned,
                    Exited, callerVars
<1> QED
  BY <1>6, <1>7, <1>8, <1>9, CountedIs DEF ExecInv

LEMMA RemoteReadKeeps ==
  ASSUME ExecInv, RemoteRead
  PROVE  ExecInv'
<1>1. /\ script \in Seq(Steps) /\ done \in 0..(Len(script) - 1) /\ script[done + 1] = "in"
      /\ done' = done + 1
      /\ UNCHANGED <<script, code, timeout, killed, stdinEof, channelVars, callerVars>>
  BY ExecAssumption DEF ExecInv, TypeOK, RemoteRead, Steps
<1>2. \A kind : OnWire(kind)' = OnWire(kind)
  BY <1>1 DEF OnWire, channelVars
<1>3. /\ Written("out")' = Written("out") /\ Written("err")' = Written("err")
  <2>1. Least(done, Len(script)) = done /\ Least(done', Len(script')) = done + 1
    BY <1>1 DEF Least
  <2>2. /\ Written("out") \in Nat /\ Written("err") \in Nat
    BY OnWireNat DEF ExecInv
  <2>3. /\ Written("out")' = Written("out") + (IF script[done + 1] = "out" THEN 1 ELSE 0)
        /\ Written("err")' = Written("err") + (IF script[done + 1] = "err" THEN 1 ELSE 0)
    BY <1>1, <2>1, CountStep DEF Written
  <2> QED
    BY <1>1, <2>2, <2>3
<1>4. Counted'
  BY <1>1, <1>2, <1>3, CountedIs DEF ExecInv, Counted, channelVars, callerVars
<1>5. TypeOK'
  BY <1>1, ExecAssumption DEF ExecInv, TypeOK, RemoteRead, channelVars, callerVars
<1>6. StatusBeforeClose'
  BY <1>1 DEF ExecInv, StatusBeforeClose, Exited, channelVars
<1>7. LooksLast' /\ CodeIsTheCommands'
  BY <1>1 DEF ExecInv, LooksLast, CodeIsTheCommands, LosesOnlyWhatArrivesLate, Returned,
              Exited, callerVars, channelVars
<1> QED
  BY <1>4, <1>5, <1>6, <1>7, CountedIs DEF ExecInv

LEMMA RemoteExitKeeps ==
  ASSUME ExecInv, RemoteExit
  PROVE  ExecInv'
<1> DEFINE last == <<"status", "eof", "close">>
<1>1. /\ wire \in Seq(Sent) /\ script \in Seq(Steps) /\ done = Len(script)
      /\ last \in Seq(Sent) /\ wire' = wire \o last /\ done' = done + 1
      /\ UNCHANGED <<script, code, timeout, killed, stdinBuf, stdinEof, outBuf, errBuf,
                     status, eof, closed, dropped, callerVars>>
  BY ExecAssumption DEF ExecInv, TypeOK, RemoteExit, Sent, Steps
<1>2. /\ wire' \in Seq(Sent) /\ Len(wire) \in Nat /\ Len(wire') = Len(wire) + 3
      /\ \A i \in 1..Len(wire) : wire'[i] = wire[i]
      /\ wire'[Len(wire) + 1] = "status" /\ wire'[Len(wire) + 2] = "eof"
      /\ wire'[Len(wire) + 3] = "close"
  BY <1>1
<1>3. ASSUME NEW kind, kind \notin {"status", "eof", "close"}
      PROVE  OnWire(kind)' = OnWire(kind)
  <2>1. Places(kind, wire') = Places(kind, wire)
    BY <1>1, <1>2, <1>3 DEF Places
  <2> QED
    BY <2>1 DEF OnWire, Count, Places
<1>4. Least(done, Len(script)) = Least(done', Len(script'))
  BY <1>1 DEF Least
<1>5. \A kind : Written(kind)' = Written(kind)
  BY <1>1, <1>4, Zenon DEF Written
<1> HIDE DEF last
<1>6. Counted'
  BY <1>1, <1>3, <1>5, CountedIs DEF ExecInv, Counted, callerVars
<1>7. TypeOK'
  BY <1>1, <1>2 DEF ExecInv, TypeOK, callerVars, Sent
<1>8. StatusBeforeClose'
  <2>1. Exited'
    BY <1>1 DEF Exited
  <2>2. ASSUME NEW i \in 1..Len(wire'), wire'[i] = "close"
        PROVE  killed \/ status # NoStatus \/ \E j \in 1..(i - 1) : wire'[j] = "status"
    <3>1. CASE i \in 1..Len(wire)
      BY <1>2, <2>2, <3>1 DEF ExecInv, StatusBeforeClose
    <3>2. CASE i \notin 1..Len(wire)
      <4>1. Len(wire) + 1 \in 1..(i - 1)
        BY <1>2, <2>2, <3>2
      <4> QED
        BY <1>2, <4>1
    <3> QED
      BY <3>1, <3>2
  <2> QED
    BY <1>1, <2>1, <2>2 DEF ExecInv, StatusBeforeClose
<1>9. LooksLast' /\ CodeIsTheCommands'
  BY <1>1 DEF ExecInv, LooksLast, CodeIsTheCommands, LosesOnlyWhatArrivesLate, Returned,
              Exited, callerVars
<1> QED
  BY <1>6, <1>7, <1>8, <1>9, CountedIs DEF ExecInv

LEMMA RemoteKilledKeeps ==
  ASSUME ExecInv, RemoteKilled
  PROVE  ExecInv'
<1> DEFINE last == <<"eof", "close">>
<1>1. /\ wire \in Seq(Sent) /\ last \in Seq(Sent) /\ wire' = wire \o last /\ killed' = TRUE
      /\ UNCHANGED <<script, code, timeout, done, stdinBuf, stdinEof, outBuf, errBuf,
                     status, eof, closed, dropped, callerVars>>
  BY DEF ExecInv, TypeOK, RemoteKilled, Sent
<1>2. /\ wire' \in Seq(Sent) /\ Len(wire) \in Nat /\ Len(wire') = Len(wire) + 2
      /\ \A i \in 1..Len(wire) : wire'[i] = wire[i]
      /\ wire'[Len(wire) + 1] = "eof" /\ wire'[Len(wire) + 2] = "close"
  BY <1>1
<1> HIDE DEF last
<1>3. ASSUME NEW kind, kind \notin {"eof", "close"}
      PROVE  OnWire(kind)' = OnWire(kind)
  <2>1. Places(kind, wire') = Places(kind, wire)
    BY <1>1, <1>2, <1>3 DEF Places
  <2> QED
    BY <2>1 DEF OnWire, Count, Places
<1>4. \A kind : Written(kind)' = Written(kind)
  BY <1>1 DEF Written
<1>5. Counted'
  BY <1>1, <1>3, <1>4, CountedIs DEF ExecInv, Counted, callerVars
<1>6. TypeOK'
  BY <1>1, <1>2 DEF ExecInv, TypeOK, callerVars, Sent
<1>7. StatusBeforeClose'
  <2>1. ASSUME NEW i \in 1..Len(wire'), wire'[i] = "status"
        PROVE  Exited'
    BY <1>1, <1>2, <2>1 DEF ExecInv, StatusBeforeClose, Exited
  <2> QED
    BY <1>1, <2>1 DEF ExecInv, StatusBeforeClose, Exited
<1>8. LooksLast' /\ CodeIsTheCommands'
  BY <1>1 DEF ExecInv, LooksLast, CodeIsTheCommands, LosesOnlyWhatArrivesLate, Returned,
              Exited, callerVars
<1> QED
  BY <1>5, <1>6, <1>7, <1>8, CountedIs DEF ExecInv

-----------------------------------------------------------------------------
(* The transport thread *)

LEMMA DeliverKeeps ==
  ASSUME ExecInv, Deliver
  PROVE  ExecInv'
<1> DEFINE head == Head(wire)
<1>1. /\ wire \in Seq(Sent) /\ wire # <<>> /\ wire' = Tail(wire)
      /\ UNCHANGED <<remoteVars, dropped, callerVars>>
  BY DEF ExecInv, TypeOK, Deliver, Sent
<1>2. /\ wire' \in Seq(Sent) /\ Len(wire) \in Nat /\ Len(wire') = Len(wire) - 1
      /\ head = wire[1] /\ head \in Sent /\ 1 \in 1..Len(wire)
      /\ \A i \in 1..Len(wire') : wire'[i] = wire[i + 1] /\ i + 1 \in 1..Len(wire)
  BY <1>1
<1> HIDE DEF head
<1>3. /\ OnWire("out") = OnWire("out")' + (IF head = "out" THEN 1 ELSE 0)
      /\ OnWire("err") = OnWire("err")' + (IF head = "err" THEN 1 ELSE 0)
  BY <1>1, CountTail DEF OnWire, head
<1>4. \A kind : Written(kind)' = Written(kind)
  BY <1>1 DEF Written, remoteVars
<1>5. /\ OnWire("out")' \in Nat /\ OnWire("err")' \in Nat
      /\ outBuf \in Nat /\ errBuf \in Nat /\ gotOut \in Nat /\ gotErr \in Nat
      /\ Window \in Nat
  BY <1>2, CountNat, ExecAssumption DEF OnWire, ExecInv, TypeOK
<1>6. /\ outBuf' = outBuf + (IF head = "out" THEN 1 ELSE 0)
      /\ errBuf' = errBuf + (IF head = "err" THEN 1 ELSE 0)
      /\ gotOut' = gotOut /\ gotErr' = gotErr /\ dropped' = dropped
  BY <1>1, <1>5 DEF Deliver, head, callerVars
<1>7. /\ outBuf + errBuf + OnWire("out") + OnWire("err") <= Window
      /\ ~dropped => /\ gotOut + outBuf + OnWire("out") = Written("out")
                     /\ gotErr + errBuf + OnWire("err") = Written("err")
  BY CountedIs DEF ExecInv, Counted
<1>8. outBuf' + OnWire("out")' = outBuf + OnWire("out")
      /\ errBuf' + OnWire("err")' = errBuf + OnWire("err")
  BY <1>3, <1>5, <1>6
<1>9. /\ outBuf' \in 0..Window /\ errBuf' \in 0..Window
      /\ outBuf' + errBuf' + OnWire("out")' + OnWire("err")' <= Window
  <2>1. outBuf' \in Nat /\ errBuf' \in Nat
    BY <1>5, <1>6
  <2>2. OnWire("out") \in Nat /\ OnWire("err") \in Nat
    BY <1>3, <1>5
  <2>3. outBuf' + errBuf' + OnWire("out")' + OnWire("err")' <= Window
    BY <1>5, <1>7, <1>8, <2>1, <2>2
  <2> QED
    BY <1>5, <2>1, <2>3
<1>10. Counted'
  <2>1. /\ Written("out")' = Written("out") /\ Written("err")' = Written("err")
    BY <1>4
  <2>2. /\ outBuf' \in Nat /\ errBuf' \in Nat
        /\ OnWire("out") \in Nat /\ OnWire("err") \in Nat
    BY <1>3, <1>5, <1>6
  <2>3. ~dropped' => /\ gotOut' + outBuf' + OnWire("out")' = Written("out")'
                     /\ gotErr' + errBuf' + OnWire("err")' = Written("err")'
    BY <1>5, <1>6, <1>7, <1>8, <2>1, <2>2
  <2> QED
    BY <1>9, <2>3 DEF Counted
<1>11. TypeOK'
  BY <1>1, <1>2, <1>9 DEF ExecInv, TypeOK, Deliver, remoteVars, callerVars, Sent
<1>12. StatusBeforeClose'
  <2>1. /\ status' = IF head = "status" THEN code ELSE status
        /\ closed' = (closed \/ head = "close")
    BY DEF Deliver, head
  <2>2. code \in Nat /\ code # NoStatus /\ closed \in BOOLEAN
    BY ExecAssumption DEF ExecInv, TypeOK, NoStatus
  <2>3. head = "status" => Exited
    BY <1>2 DEF ExecInv, StatusBeforeClose
  <2>4. status' # NoStatus => Exited' /\ status' = code'
    BY <1>1, <2>1, <2>3 DEF ExecInv, StatusBeforeClose, Exited, remoteVars
  <2>5. head = "close" => killed \/ status # NoStatus
    <3>1. ~\E j \in 1..(1 - 1) : wire[j] = "status"
      OBVIOUS
    <3> QED
      BY <1>2, <3>1, Zenon DEF ExecInv, StatusBeforeClose
  <2>6. status # NoStatus => status' # NoStatus
    BY <2>1, <2>2
  <2>7. closed' => dropped' \/ killed' \/ status' # NoStatus
    <3>1. killed' = killed /\ dropped' = dropped
      BY <1>1, <1>6 DEF remoteVars
    <3> QED
      BY <3>1, <2>1, <2>5, <2>6 DEF ExecInv, StatusBeforeClose
  <2>8. ASSUME NEW i \in 1..Len(wire'), wire'[i] = "status"
        PROVE  Exited'
    BY <1>1, <1>2, <2>8 DEF ExecInv, StatusBeforeClose, Exited, remoteVars
  <2>9. ASSUME NEW i \in 1..Len(wire'), wire'[i] = "close", status' = NoStatus, ~killed'
        PROVE  \E j \in 1..(i - 1) : wire'[j] = "status"
    <3>1. status = NoStatus /\ head # "status" /\ ~killed
      BY <1>1, <2>1, <2>2, <2>6, <2>9 DEF remoteVars
    <3>2. PICK j \in 1..i : wire[j] = "status"
      BY <1>2, <2>9, <3>1 DEF ExecInv, StatusBeforeClose
    <3>3. j - 1 \in 1..(i - 1) /\ wire'[j - 1] = wire[j]
      BY <1>2, <3>1, <3>2
    <3> QED
      BY <3>2, <3>3
  <2> QED
    BY <2>4, <2>7, <2>8, <2>9 DEF StatusBeforeClose
<1>13. LooksLast' /\ CodeIsTheCommands'
  BY <1>1 DEF ExecInv, LooksLast, CodeIsTheCommands, LosesOnlyWhatArrivesLate, Returned,
              Exited, callerVars, remoteVars
<1> QED
  BY <1>10, <1>11, <1>12, <1>13, CountedIs DEF ExecInv

LEMMA DropKeeps ==
  ASSUME ExecInv, Drop
  PROVE  ExecInv'
<1>1. /\ dropped' = TRUE /\ closed' = TRUE /\ wire' = <<>>
      /\ UNCHANGED <<remoteVars, outBuf, errBuf, status, eof, callerVars>>
  BY DEF Drop
<1>2. Counted'
  <2>1. OnWire("out")' = 0 /\ OnWire("err")' = 0
    BY <1>1, CountEmpty DEF OnWire
  <2>2. OnWire("out") \in Nat /\ OnWire("err") \in Nat
    BY OnWireNat DEF ExecInv
  <2> QED
    BY <1>1, <2>1, <2>2, CountedIs, ExecAssumption DEF ExecInv, Counted, TypeOK
<1>3. TypeOK'
  BY <1>1 DEF ExecInv, TypeOK, remoteVars, callerVars
<1>4. StatusBeforeClose'
  BY <1>1 DEF ExecInv, StatusBeforeClose, Exited, remoteVars
<1>5. LooksLast' /\ CodeIsTheCommands'
  BY <1>1 DEF ExecInv, LooksLast, CodeIsTheCommands, LosesOnlyWhatArrivesLate, Returned,
              Exited, callerVars, remoteVars
<1> QED
  BY <1>2, <1>3, <1>4, <1>5, CountedIs DEF ExecInv

-----------------------------------------------------------------------------
(* The calling thread *)

\* Nothing is on the wire or off it that was not before.
LEMMA CallerLeavesWire ==
  ASSUME Caller
  PROVE  /\ UNCHANGED <<script, code, timeout, done, killed, wire, status, eof, closed, dropped>>
         /\ \A kind : OnWire(kind)' = OnWire(kind) /\ Written(kind)' = Written(kind)
<1>1. UNCHANGED <<script, code, timeout, done, killed, wire, status, eof, closed, dropped>>
  BY DEF Caller, CallerWorks, ExecWrite, ExecWriteRaises, ExecShutdownWrite, RecvStdout, RecvStderr,
         StdoutPending, StderrPending, Finish, Again, WaitWakes, WaitTimesOut, WaitPauses,
         remoteVars, channelVars
<1> QED
  BY <1>1, NothingSent

LEMMA ReceiveKeeps ==
  ASSUME ExecInv, RecvStdout \/ RecvStderr
  PROVE  TypeOK' /\ Counted' /\ LooksLast' /\ CodeIsTheCommands'
<1>1. /\ UNCHANGED <<script, code, timeout, done, killed, wire, status, eof, closed, dropped>>
      /\ \A kind : OnWire(kind)' = OnWire(kind) /\ Written(kind)' = Written(kind)
  BY CallerLeavesWire DEF Caller, CallerWorks
<1>2. /\ outBuf \in 0..Window /\ errBuf \in 0..Window /\ gotOut \in Nat /\ gotErr \in Nat
      /\ Chunk \in Nat /\ Window \in Nat
      /\ OnWire("out") \in Nat /\ OnWire("err") \in Nat
  BY OnWireNat, ExecAssumption DEF ExecInv, TypeOK
<1>3. /\ outBuf' \in 0..Window /\ outBuf' <= outBuf /\ gotOut' \in Nat
      /\ gotOut' + outBuf' = gotOut + outBuf
  BY <1>2 DEF RecvStdout, RecvStderr, Least
<1>4. /\ errBuf' \in 0..Window /\ errBuf' <= errBuf /\ gotErr' \in Nat
      /\ gotErr' + errBuf' = gotErr + errBuf
  BY <1>2 DEF RecvStdout, RecvStderr, Least
<1>5. /\ pc' \in {"stderr", "pendingOut"} /\ progressed' \in BOOLEAN
      /\ UNCHANGED <<stdinBuf, stdinEof, toWrite, outPending, errPending, result,
                     seenOut, seenErr>>
  <2>1. progressed' \in BOOLEAN
    <3>1. PICK n : progressed' = (n > 0) \/ progressed' = (progressed \/ n > 0)
      BY Zenon DEF RecvStdout, RecvStderr
    <3>2. (n > 0) \in BOOLEAN /\ (progressed \/ n > 0) \in BOOLEAN
      OBVIOUS
    <3> QED
      BY <3>1, <3>2, Zenon
  <2> QED
    BY <2>1, Zenon DEF RecvStdout, RecvStderr, remoteVars
<1>6. Counted'
  <2>1. /\ outBuf + errBuf + OnWire("out") + OnWire("err") <= Window
        /\ ~dropped => /\ gotOut + outBuf + OnWire("out") = Written("out")
                       /\ gotErr + errBuf + OnWire("err") = Written("err")
    BY CountedIs DEF ExecInv, Counted
  <2>2. outBuf' + errBuf' + OnWire("out") + OnWire("err") <= Window
    BY <1>2, <1>3, <1>4, <2>1
  <2>3. ~dropped => /\ gotOut' + outBuf' + OnWire("out") = Written("out")
                   /\ gotErr' + errBuf' + OnWire("err") = Written("err")
    BY <1>3, <1>4, <2>1
  <2> QED
    BY <1>1, <2>2, <2>3 DEF Counted
<1>7. TypeOK'
  BY <1>1, <1>3, <1>4, <1>5 DEF ExecInv, TypeOK
<1> QED
  BY <1>5, <1>6, <1>7 DEF LooksLast, CodeIsTheCommands, LosesOnlyWhatArrivesLate, Returned

LEMMA LookKeeps ==
  ASSUME ExecInv, StdoutPending \/ StderrPending
  PROVE  TypeOK' /\ Counted' /\ LooksLast' /\ CodeIsTheCommands'
<1>1. /\ UNCHANGED <<remoteVars, channelVars, toWrite, progressed, gotOut, gotErr, result>>
      /\ \A kind : OnWire(kind)' = OnWire(kind) /\ Written(kind)' = Written(kind)
  BY CallerLeavesWire DEF Caller, CallerWorks, StdoutPending, StderrPending
<1>2. /\ outBuf \in Nat /\ errBuf \in Nat /\ gotOut \in Nat /\ gotErr \in Nat
  BY ExecAssumption DEF ExecInv, TypeOK
<1>3. Counted'
  BY <1>1, CountedIs DEF ExecInv, Counted, channelVars
<1>4. TypeOK'
  <2>1. outPending' \in BOOLEAN /\ errPending' \in BOOLEAN
    <3>1. CASE StdoutPending
      BY <3>1 DEF StdoutPending, ExecInv, TypeOK
    <3>2. CASE StderrPending
      BY <3>2 DEF StderrPending, ExecInv, TypeOK
    <3> QED
      BY <3>1, <3>2
  <2>2. seenOut' \in Nat /\ seenErr' \in Nat /\ pc' \in {"pendingErr", "status"}
    BY <1>2 DEF StdoutPending, StderrPending, ExecInv, TypeOK
  <2> QED
    BY <1>1, <2>1, <2>2 DEF ExecInv, TypeOK, remoteVars, channelVars
<1>5. LooksLast' /\ CodeIsTheCommands'
  <2>1. CASE StdoutPending
    <3>1. pc' = "pendingErr" /\ (outPending' \/ ~(outBuf > 0)) /\ seenOut' = gotOut + outBuf
          /\ gotOut' = gotOut
      BY <2>1, Zenon DEF StdoutPending
    <3>2. outPending' \/ gotOut' >= seenOut'
      BY <1>2, <3>1
    <3> QED
      BY <3>1, <3>2 DEF LooksLast, CodeIsTheCommands, LosesOnlyWhatArrivesLate, Returned
  <2>2. CASE StderrPending
    <3>1. /\ pc = "pendingErr" /\ pc' = "status" /\ (errPending' \/ ~(errBuf > 0))
          /\ seenErr' = gotErr + errBuf /\ UNCHANGED <<gotErr, outPending, gotOut, seenOut>>
      BY <2>2, Zenon DEF StderrPending
    <3>2. errPending' \/ gotErr' >= seenErr'
      BY <1>2, <3>1
    <3>3. outPending' \/ gotOut' >= seenOut'
      BY <3>1 DEF ExecInv, LooksLast
    <3> QED
      BY <3>1, <3>2, <3>3 DEF LooksLast, CodeIsTheCommands, LosesOnlyWhatArrivesLate, Returned
  <2> QED
    BY <2>1, <2>2
<1> QED
  BY <1>3, <1>4, <1>5

\* The steps that neither receive nor look.
Elsewhere ==
  \/ ExecWrite \/ ExecWriteRaises \/ ExecShutdownWrite \/ Finish \/ Again \/ WaitWakes
  \/ WaitTimesOut \/ WaitPauses

LEMMA ElsewhereKeeps ==
  ASSUME ExecInv, Elsewhere
  PROVE  TypeOK' /\ Counted' /\ LooksLast' /\ CodeIsTheCommands'
<1>1. Caller
  BY DEF Elsewhere, Caller, CallerWorks
<1>2. /\ UNCHANGED <<script, code, timeout, done, killed, channelVars, outPending, errPending,
                     gotOut, gotErr, seenOut, seenErr>>
      /\ \A kind : OnWire(kind)' = OnWire(kind) /\ Written(kind)' = Written(kind)
  <2>1. UNCHANGED <<script, code, timeout, done, killed, channelVars, outPending, errPending,
                    gotOut, gotErr, seenOut, seenErr>>
    BY DEF Elsewhere, ExecWrite, ExecWriteRaises, ExecShutdownWrite, Finish, Again,
           WaitWakes, WaitTimesOut, WaitPauses, remoteVars
  <2> QED
    BY <1>1, <2>1, CallerLeavesWire
<1>3. Counted'
  BY <1>2, CountedIs DEF ExecInv, Counted, channelVars
<1>4. /\ stdinBuf' \in 0..SendWindow /\ toWrite' \in 0..InputUnits
      /\ stdinEof' \in BOOLEAN /\ progressed' \in BOOLEAN
  <2>1. /\ stdinBuf \in 0..SendWindow /\ toWrite \in 0..InputUnits
        /\ stdinEof \in BOOLEAN /\ progressed \in BOOLEAN
        /\ SendWindow \in Nat /\ InputUnits \in Nat
    BY ExecAssumption DEF ExecInv, TypeOK
  <2>2. CASE ExecWrite
    BY <2>1, <2>2 DEF ExecWrite
  <2>3. CASE ExecShutdownWrite
    BY <2>1, <2>3 DEF ExecShutdownWrite
  <2>4. CASE ExecWriteRaises \/ Finish \/ WaitWakes \/ WaitTimesOut \/ WaitPauses
    BY <2>1, <2>4, Zenon DEF ExecWriteRaises, Finish, WaitWakes, WaitTimesOut, WaitPauses, remoteVars
  <2>5. CASE Again
    BY <2>1, <2>5 DEF Again, remoteVars
  <2> QED
    BY <2>2, <2>3, <2>4, <2>5 DEF Elsewhere
<1>5. \/ pc' \in {"write", "stdout", "wait", "raised"} /\ result' = result
      \/ pc = "status" /\ pc' = "done" /\ CanFinish /\ result' = status
  BY DEF Elsewhere, ExecWrite, ExecWriteRaises, ExecShutdownWrite, Finish, Again, WaitWakes,
         WaitTimesOut, WaitPauses
<1>6. TypeOK'
  <2>1. result' \in Codes \cup {NoStatus}
    BY <1>5 DEF ExecInv, TypeOK
  <2>2. pc' \in {"write", "stdout", "stderr", "pendingOut", "pendingErr", "status",
                 "wait", "done", "raised"}
    BY <1>5
  <2> QED
    BY <1>2, <1>4, <2>1, <2>2 DEF ExecInv, TypeOK, channelVars
<1>7. LooksLast'
  BY <1>2, <1>5 DEF ExecInv, LooksLast, LosesOnlyWhatArrivesLate, Returned, CanFinish
<1>8. CodeIsTheCommands'
  <2>1. CASE pc' = "done" /\ pc = "status" /\ CanFinish /\ result' = status
    BY <1>2, <2>1 DEF ExecInv, StatusBeforeClose, CodeIsTheCommands, CanFinish,
       ExitStatusReady, Exited, channelVars
  <2>2. CASE pc' # "done"
    BY <2>2 DEF CodeIsTheCommands, Returned
  <2> QED
    BY <1>5, <2>1, <2>2
<1> QED
  BY <1>3, <1>6, <1>7, <1>8

LEMMA ExecStep ==
  ASSUME ExecInv, [Next]_vars
  PROVE  ExecInv'
<1>1. CASE Remote
  BY <1>1, RemoteWriteKeeps, RemoteReadKeeps, RemoteExitKeeps DEF Remote
<1>2. CASE Deliver
  BY <1>2, DeliverKeeps
<1>3. CASE Drop
  BY <1>3, DropKeeps
<1>6. CASE RemoteKilled
  BY <1>6, RemoteKilledKeeps
<1>4. CASE Caller
  <2>1. StatusBeforeClose'
    BY <1>4, CallerLeavesWire DEF ExecInv, StatusBeforeClose, Exited
  <2>2. TypeOK' /\ Counted' /\ LooksLast' /\ CodeIsTheCommands'
    BY <1>4, ReceiveKeeps, LookKeeps, ElsewhereKeeps DEF Caller, CallerWorks, Elsewhere
  <2> QED
    BY <2>1, <2>2, CountedIs DEF ExecInv
<1>5. CASE UNCHANGED vars
  <2>1. \A kind : OnWire(kind)' = OnWire(kind) /\ Written(kind)' = Written(kind)
    BY <1>5, NothingSent DEF vars, remoteVars, channelVars
  <2>2. Counted'
    BY <1>5, <2>1, CountedIs DEF ExecInv, Counted, vars, channelVars, callerVars
  <2>3. TypeOK' /\ StatusBeforeClose'
    BY <1>5 DEF ExecInv, TypeOK, StatusBeforeClose, Exited, vars, remoteVars, channelVars,
                callerVars
  <2>4. LooksLast' /\ CodeIsTheCommands'
    BY <1>5 DEF ExecInv, LooksLast, LosesOnlyWhatArrivesLate, CodeIsTheCommands, Returned,
                Exited, vars, remoteVars, channelVars, callerVars
  <2> QED
    BY <2>2, <2>3, <2>4, CountedIs DEF ExecInv
<1> QED
  BY <1>1, <1>2, <1>3, <1>4, <1>5, <1>6 DEF Next

LEMMA ExecStart ==
  ASSUME Init
  PROVE  ExecInv
<1>1. TypeOK
  <2>1. wire \in Seq(Sent) /\ script \in Seq(Steps) /\ done \in 0..(Len(script) + 1)
    BY ExecAssumption DEF Init, Steps
  <2>2. stdinBuf \in 0..SendWindow /\ toWrite \in 0..InputUnits
        /\ outBuf \in 0..Window /\ errBuf \in 0..Window
    BY ExecAssumption DEF Init
  <2>3. gotOut \in Nat /\ gotErr \in Nat /\ seenOut \in Nat /\ seenErr \in Nat
    BY DEF Init
  <2> QED
    BY <2>1, <2>2, <2>3, Zenon DEF Init, TypeOK, Sent
<1>2. Counted
  <2>1. OnWire("out") = 0 /\ OnWire("err") = 0
    BY CountEmpty DEF Init, OnWire
  <2>2. Written("out") = 0 /\ Written("err") = 0
    <3>1. SubSeq(script, 1, Least(done, Len(script))) = <<>>
      BY <1>1, ExecAssumption, SubSeqEmpty DEF Init, Least
    <3> QED
      BY <3>1, CountEmpty DEF Written
  <2> QED
    BY <2>1, <2>2, ExecAssumption DEF Init, Counted
<1>3. StatusBeforeClose /\ LooksLast /\ CodeIsTheCommands
  BY DEF Init, StatusBeforeClose, LooksLast, LosesOnlyWhatArrivesLate, CodeIsTheCommands,
         Returned
<1> QED
  BY <1>1, <1>2, <1>3, CountedIs DEF ExecInv

\* The invariant of one exec call: it holds at the write of the input and
\* every step of the command, the transport thread and the loop keeps it.
THEOREM ExecInvariant == Spec => []ExecInv
  BY ExecStart, ExecStep, PTL DEF Spec

\* Types of an exec call; neither stream overruns its buffer (client.py's
\* _pump_channel takes at most a chunk of what is there).
THEOREM ExecTypeCorrect == Spec => []TypeOK
<1>1. ExecInv => TypeOK
  BY DEF ExecInv
<1> QED
  BY <1>1, ExecInvariant, PTL

\* The exit code that exec returns is the command's own, and -1 stands for a
\* lost connection or a killed command and nothing else: no interleaving of the
\* command, the transport thread and the loop turns a status that was sent on a
\* live connection into -1.
THEOREM ReturnsTheCode == Spec => []CodeIsTheCommands
<1>1. ExecInv => CodeIsTheCommands
  BY DEF ExecInv
<1> QED
  BY <1>1, ExecInvariant, PTL

\* What had arrived when _pump_channel last looked is in the result.
THEOREM HandsOverWhatItSaw == Spec => []LosesOnlyWhatArrivesLate
<1>1. ExecInv => LosesOnlyWhatArrivesLate
  BY DEF ExecInv, LooksLast
<1> QED
  BY <1>1, ExecInvariant, PTL

\* The two streams share one window and lose nothing on the way to the
\* callbacks, wherever the loop is.
THEOREM LosesNothingOnTheWay == Spec => []NothingLostOnTheWay
<1>1. ExecInv => NothingLostOnTheWay
  BY DEF ExecInv
<1> QED
  BY <1>1, ExecInvariant, PTL
=============================================================================
