--------------------------- MODULE SshJobs_proofs ---------------------------
(* What background commands promise, for any number of callers, keys, jobs   *)
(* and units of output: the ledger of JobLedger is kept whatever readers,    *)
(* collects and closes do to each other, and callers that are careful with   *)
(* their keys get their own output.                                          *)
EXTENDS SshJobs, SequenceTheorems, TLAPS

\* Units are in the channel's buffer until the reader appends them.
UnitsKept == \A j \in Jobs : appended[j] + buf[j] = made[j]

\* A call that is about a job has one.
HasJob(c) == call[c] \notin {"idle", "close"} => callJob[c] \in 1..born

RegistryOfBorn == \A k \in Keys : registry[k] # None => registry[k] \in 1..born

CallsOfBorn ==
  \A c \in Callers : HasJob(c) /\ toClose[c] \subseteq 1..born

TypeInv == TypeOK /\ UnitsKept /\ RegistryOfBorn /\ CallsOfBorn

Constants == /\ Codes \subseteq Nat /\ MaxJobs \in Nat /\ MaxUnits \in Nat
             /\ None \notin Jobs /\ Jobs \subseteq Nat
             /\ {NoCode, NoStatus} \subseteq CodeOrNone /\ NoCode \notin Codes \cup {NoStatus}
             /\ None \in JobOrNone

LEMMA ConstantsAre == Constants
  BY JobsAssumption DEF Constants, Jobs, None, JobOrNone, CodeOrNone, NoCode, NoStatus

LEMMA JobOfCall ==
  ASSUME TypeInv, NEW c \in Callers, call[c] \notin {"idle", "close"}
  PROVE  callJob[c] \in 1..born /\ callJob[c] \in Jobs
<1>1. born \in Nat /\ born <= MaxJobs
  BY ConstantsAre DEF TypeInv, TypeOK, Constants
<1> QED
  BY <1>1, ConstantsAre DEF TypeInv, CallsOfBorn, HasJob, Jobs, Constants

-----------------------------------------------------------------------------
(* Types *)

LEMMA ReaderTypes ==
  ASSUME TypeInv, NEW j \in Jobs, Reader(j)
  PROVE  TypeOK' /\ UnitsKept'
<1> USE ConstantsAre DEF TypeInv, TypeOK, UnitsKept, Constants, Goto, readerOnly, callerVars,
                         channelVars
<1>1. CASE Truncate(j)
  <2>1. file' \in [Keys -> Seq(Jobs)]
    BY <1>1 DEF Truncate
  <2>2. /\ reader' = [reader EXCEPT ![j] = "recv"]
        /\ UNCHANGED <<readerOnly, exitCode, error, doneEvt, pending, report, appended,
                       channelVars>>
    BY <1>1 DEF Truncate
  <2> QED
    BY <2>1, <2>2
<1>2. CASE Receive(j)
  <2> DEFINE units == [i \in 1..buf[j] |-> j]
  <2>1. file' \in [Keys -> Seq(Jobs)]
    <3>1. units \in Seq(Jobs) /\ file' = [file EXCEPT ![keyOf[j]] = @ \o units]
      BY <1>2 DEF Receive
    <3> HIDE DEF units
    <3> QED
      BY <3>1
  <2>2. /\ reader' = [reader EXCEPT ![j] = "look"] /\ buf' = [buf EXCEPT ![j] = 0]
        /\ appended' = [appended EXCEPT ![j] = @ + buf[j]]
        /\ UNCHANGED <<readerOnly, exitCode, error, doneEvt, pending, report, made, status,
                       closed, cutOff>>
    BY <1>2 DEF Receive
  <2>3. appended[j] + buf[j] = made[j] /\ made[j] \in 0..MaxUnits
        /\ appended[j] \in Nat /\ buf[j] \in Nat
    OBVIOUS
  <2>4. UnitsKept' /\ appended' \in [Jobs -> 0..MaxUnits] /\ buf' \in [Jobs -> 0..MaxUnits]
    BY <2>2, <2>3
  <2> QED
    BY <2>1, <2>2, <2>4
<1>3. CASE Look(j)
  <2>1. pending' \in [Jobs -> BOOLEAN]
    <3>1. (buf[j] > 0) \in BOOLEAN
      OBVIOUS
    <3>2. pending' = [pending EXCEPT ![j] = (buf[j] > 0)]
      BY <1>3 DEF Look
    <3> QED
      BY <3>1, <3>2
  <2>2. /\ reader' = [reader EXCEPT ![j] = "status"]
        /\ UNCHANGED <<readerOnly, exitCode, error, doneEvt, report, appended, file,
                       channelVars>>
    BY <1>3 DEF Look
  <2> QED
    BY <2>1, <2>2
<1>4. CASE Harvest(j)
  BY <1>4 DEF Harvest, CodeOrNone
<1>5. CASE GoRound(j) \/ ReaderPauses(j) \/ ReaderRaises(j) \/ ReportCheck(j)
  BY <1>5 DEF GoRound, ReaderPauses, ReaderRaises, ReportCheck
<1>6. CASE Record(j)
  BY <1>6 DEF Record
<1>7. CASE FinishJob(j)
  BY <1>7 DEF FinishJob
<1> QED
  BY <1>1, <1>2, <1>3, <1>4, <1>5, <1>6, <1>7 DEF Reader, ReaderWorks

LEMMA RemoteTypes ==
  ASSUME TypeInv, NEW j \in Jobs, Remote(j)
  PROVE  TypeOK' /\ UnitsKept'
<1> USE ConstantsAre DEF TypeInv, TypeOK, UnitsKept, Constants, jobVars, readerVars, callerVars
<1>1. CASE RemoteWrite(j)
  <2>1. /\ made' = [made EXCEPT ![j] = @ + 1] /\ buf' = [buf EXCEPT ![j] = @ + 1]
        /\ made[j] < MaxUnits /\ appended[j] + buf[j] = made[j]
        /\ UNCHANGED <<jobVars, readerVars, status, closed, cutOff, callerVars>>
    BY <1>1 DEF RemoteWrite
  <2>2. /\ made[j] + 1 \in 0..MaxUnits /\ buf[j] + 1 \in 0..MaxUnits
        /\ appended[j] + (buf[j] + 1) = made[j] + 1
    <3>1. made[j] \in Nat /\ buf[j] \in Nat /\ appended[j] \in Nat /\ MaxUnits \in Nat
      OBVIOUS
    <3> QED
      BY <2>1, <3>1
  <2>3. made' \in [Jobs -> 0..MaxUnits] /\ buf' \in [Jobs -> 0..MaxUnits]
    BY <2>1, <2>2
  <2>4. UnitsKept'
    BY <2>1, <2>2
  <2> QED
    BY <2>1, <2>3, <2>4
<1>2. CASE RemoteExit(j)
  BY <1>2 DEF RemoteExit
<1>3. CASE RemoteKilled(j)
  BY <1>3 DEF RemoteKilled
<1> QED
  BY <1>1, <1>2, <1>3 DEF Remote

LEMMA StartTypes ==
  ASSUME TypeInv, NEW c \in Callers,
         (\E k \in Keys : StartExec(c, k)) \/ StartRegister(c) \/ StartThread(c)
  PROVE  TypeOK' /\ UnitsKept'
<1> USE ConstantsAre DEF TypeInv, TypeOK, UnitsKept, Constants, CallsOfBorn, HasJob, channelVars
<1>1. ASSUME NEW k \in Keys, StartExec(c, k)
      PROVE  TypeOK' /\ UnitsKept'
  <2>1. born + 1 \in Jobs /\ born + 1 \in 0..MaxJobs /\ born + 1 \in JobOrNone
    BY <1>1, JobsAssumption DEF StartExec, Jobs, JobOrNone
  <2>2. NoOutcome \in [job : JobOrNone, code : CodeOrNone, text : Seq(Jobs)]
    BY DEF NoOutcome
  <2>3. /\ born' = born + 1 /\ keyOf' = [keyOf EXCEPT ![born + 1] = k]
        /\ reader' = [reader EXCEPT ![born + 1] = "unstarted"]
        /\ call' = [call EXCEPT ![c] = "register"]
        /\ callJob' = [callJob EXCEPT ![c] = born + 1]
        /\ outcome' = [outcome EXCEPT ![c] = NoOutcome]
        /\ UNCHANGED <<exitCode, error, abandoned, doneEvt, pending, report, appended, file,
                       channelVars, open, registry, toClose, collected>>
    BY <1>1 DEF StartExec
  <2>4. keyOf' \in [Jobs -> Keys] /\ outcome' \in [Callers -> [job : JobOrNone, code : CodeOrNone, text : Seq(Jobs)]]
        /\ callJob' \in [Callers -> JobOrNone] /\ born' \in 0..MaxJobs
    BY <2>1, <2>2, <2>3
  <2> QED
    BY <2>3, <2>4
<1>2. CASE StartRegister(c)
  BY <1>2 DEF StartRegister, jobVars, readerVars
<1>3. CASE StartThread(c)
  BY <1>3 DEF StartThread, jobVars
<1> QED
  BY <1>1, <1>2, <1>3

LEMMA CollectTypes ==
  ASSUME TypeInv, NEW c \in Callers,
         \/ \E k \in Keys : CollectFind(c, k)
         \/ CollectCheck(c) \/ CollectWoken(c) \/ CollectTimesOut(c) \/ GiveUp(c) \/ HangUp(c)
         \/ VerdictRaises(c) \/ VerdictPasses(c) \/ CollectReturns(c)
  PROVE  TypeOK' /\ UnitsKept'
<1> USE ConstantsAre DEF TypeInv, TypeOK, UnitsKept, Constants, collectOnly, readerVars, Step
<1>1. NoOutcome \in [job : JobOrNone, code : CodeOrNone, text : Seq(Jobs)]
  BY DEF NoOutcome
<1>2. ASSUME NEW k \in Keys, CollectFind(c, k)
      PROVE  TypeOK' /\ UnitsKept'
  BY <1>1, <1>2 DEF CollectFind, channelVars
<1>3. call[c] \notin {"idle", "close"} => callJob[c] \in Jobs
  BY JobOfCall
<1>4. CASE CollectCheck(c) \/ CollectWoken(c) \/ CollectTimesOut(c) \/ VerdictPasses(c)
  BY <1>4 DEF CollectCheck, CollectWoken, CollectTimesOut, VerdictPasses, channelVars
<1>5. CASE GiveUp(c)
  BY <1>3, <1>5 DEF GiveUp, channelVars
<1>6. CASE HangUp(c)
  BY <1>3, <1>6 DEF HangUp, CollectEnds
<1>7. CASE VerdictRaises(c)
  BY <1>3, <1>7 DEF VerdictRaises, CollectEnds, channelVars
<1>8. CASE CollectReturns(c)
  <2>1. [job |-> callJob[c], code |-> exitCode[callJob[c]], text |-> file[keyOf[callJob[c]]]]
          \in [job : JobOrNone, code : CodeOrNone, text : Seq(Jobs)]
    BY <1>3, <1>8 DEF CollectReturns, JobOrNone
  <2> QED
    BY <1>3, <1>8, <2>1 DEF CollectReturns, CollectEnds, channelVars
<1> QED
  BY <1>2, <1>4, <1>5, <1>6, <1>7, <1>8

LEMMA CloseTypes ==
  ASSUME TypeInv, NEW c \in Callers,
         CloseBegin(c) \/ CloseJob(c) \/ CloseJoined(c) \/ CloseRaises(c) \/ CloseClient(c)
  PROVE  TypeOK' /\ UnitsKept'
<1> USE ConstantsAre DEF TypeInv, TypeOK, UnitsKept, Constants, closeOnly, readerVars, Step
<1>1. NoOutcome \in [job : JobOrNone, code : CodeOrNone, text : Seq(Jobs)]
  BY DEF NoOutcome
<1>2. CASE CloseBegin(c)
  <2>1. {registry[k] : k \in Keys} \ {None} \in SUBSET Jobs
    BY DEF JobOrNone
  <2> QED
    BY <1>1, <1>2, <2>1 DEF CloseBegin, channelVars
<1>3. CASE CloseJob(c)
  <2>1. PICK j \in toClose[c] :
          /\ closed' = closed \/ closed' = [closed EXCEPT ![j] = TRUE]
          /\ call' = call \/ call' = [call EXCEPT ![c] = "join"]
          /\ callJob' = callJob \/ callJob' = [callJob EXCEPT ![c] = j]
          /\ toClose' = [toClose EXCEPT ![c] = @ \ {j}]
          /\ UNCHANGED <<closeOnly, doneEvt, made, buf, status, cutOff, open, outcome>>
    BY <1>3 DEF CloseJob
  <2>2. j \in Jobs /\ j \in JobOrNone
    BY DEF JobOrNone
  <2>3. /\ closed' \in [Jobs -> BOOLEAN] /\ callJob' \in [Callers -> JobOrNone]
        /\ toClose' \in [Callers -> SUBSET Jobs]
    <3>1. closed' \in [Jobs -> BOOLEAN]
      BY <2>1, <2>2
    <3>2. callJob' \in [Callers -> JobOrNone]
      BY <2>1, <2>2
    <3>3. toClose[c] \ {j} \in SUBSET Jobs
      OBVIOUS
    <3>4. toClose' \in [Callers -> SUBSET Jobs]
      BY <2>1, <3>3
    <3> QED
      BY <3>1, <3>2, <3>4
  <2>4. call' \in [Callers -> {"idle", "register", "spawn", "check", "wait", "giveUp",
                               "hangUp", "verdict", "read", "close", "join"}]
    BY <2>1
  <2> QED
    BY <2>1, <2>3, <2>4
<1>4. call[c] \notin {"idle", "close"} => callJob[c] \in Jobs
  BY JobOfCall
<1>5. CASE CloseJoined(c)
  BY <1>4, <1>5 DEF CloseJoined, channelVars
<1>6. CASE CloseRaises(c)
  BY <1>6 DEF CloseRaises, channelVars
<1>7. CASE CloseClient(c)
  <2>1. closed' \in [Jobs -> BOOLEAN]
    BY <1>7, Zenon DEF CloseClient
  <2> QED
    BY <1>7, <2>1 DEF CloseClient
<1> QED
  BY <1>2, <1>3, <1>5, <1>6, <1>7

-----------------------------------------------------------------------------
(* The ledger's invariant *)

Settled == {"finish", "dead"}

\* What the ledger needs to know of a job.
JobSound(j) ==
  /\ reader[j] = "unborn" <=> j > born
  /\ reader[j] = "unborn" => ~closed[j] /\ ~cutOff[j]
  /\ ~closed[j] => status[j] = NoStatus
  /\ report[j] # NoCode => closed[j] /\ report[j] = status[j]
  /\ reader[j] \notin Settled => exitCode[j] = NoCode /\ ~error[j]
  /\ exitCode[j] # NoCode => exitCode[j] = report[j]
  /\ cutOff[j] => abandoned[j] /\ closed[j]
  /\ reader[j] = "record" /\ report[j] # NoCode => ~cutOff[j]

Starts(c) == call[c] \in {"register", "spawn"}

\* What callers know of the jobs their calls are about.
CallSound(c) ==
  /\ Starts(c) => reader[callJob[c]] = "unstarted"
  /\ call[c] = "hangUp" => abandoned[callJob[c]]
  /\ call[c] = "read" => exitCode[callJob[c]] # NoCode

LedgerInv ==
  /\ TypeInv
  /\ \A j \in Jobs : JobSound(j)
  /\ \A c \in Callers : CallSound(c)
  /\ \A c, d \in Callers : c # d /\ Starts(c) /\ Starts(d) => callJob[c] # callJob[d]

LEMMA ReaderSound ==
  ASSUME LedgerInv, NEW j \in Jobs, Reader(j)
  PROVE  LedgerInv'
<1> USE ConstantsAre DEF Goto, readerOnly, callerVars, channelVars
<1>1. TypeOK
  BY DEF LedgerInv, TypeInv
<1>2. TypeInv'
  <2>1. TypeOK' /\ UnitsKept'
    BY ReaderTypes DEF LedgerInv
  <2>2. UNCHANGED callerVars
    BY DEF Reader, ReaderWorks, Truncate, Receive, Look, Harvest, GoRound, ReaderPauses, ReaderRaises,
         ReportCheck, Record, FinishJob
  <2> QED
    BY <2>1, <2>2 DEF LedgerInv, TypeInv, RegistryOfBorn, CallsOfBorn, HasJob
<1>3. /\ reader[j] \notin {"unborn", "unstarted", "dead"}
      /\ \E to \in {"recv", "look", "status", "report", "record", "finish", "dead"} :
           /\ reader' = [reader EXCEPT ![j] = to]
           /\ to \in Settled <=> reader[j] = "record" \/ reader[j] = "finish"
                                 \/ (reader[j] = "report" /\ abandoned[j])
           /\ to = "record" => reader[j] = "report" /\ ~abandoned[j]
      /\ UNCHANGED <<keyOf, abandoned, made, status, closed, cutOff, callerVars>>
  BY <1>1 DEF Reader, ReaderWorks, Truncate, Receive, Look, Harvest, GoRound, ReaderPauses, ReaderRaises,
         ReportCheck, Record, FinishJob, Settled
<1>4. /\ report' = report \/ (report' = [report EXCEPT ![j] = status[j]] /\ closed[j])
      /\ \/ UNCHANGED <<exitCode, error>>
         \/ /\ reader[j] = "record"
            /\ exitCode' = [exitCode EXCEPT ![j] = report[j]] /\ report' = report
            /\ error' = [error EXCEPT ![j] = (report[j] = NoCode)]
      /\ report' # report => reader[j] = "status"
  BY DEF Reader, ReaderWorks, Truncate, Receive, Look, Harvest, GoRound, ReaderPauses, ReaderRaises,
         ReportCheck, Record, FinishJob
<1>5. ASSUME NEW i \in Jobs
      PROVE  JobSound(i)'
  <2>1. JobSound(i) /\ JobSound(j)
    BY DEF LedgerInv
  <2>2. CASE i # j
    BY <1>1, <1>3, <1>4, <2>1, <2>2 DEF JobSound, TypeOK
  <2>3. CASE i = j
    BY <1>1, <1>3, <1>4, <2>1, <2>3 DEF JobSound, TypeOK, Settled
  <2> QED
    BY <2>2, <2>3
<1>6. ASSUME NEW c \in Callers
      PROVE  CallSound(c)'
  <2>1. CallSound(c) /\ (call[c] \notin {"idle", "close"} => callJob[c] \in Jobs)
    BY JobOfCall DEF LedgerInv
  <2> QED
    BY <1>1, <1>3, <1>4, <2>1 DEF CallSound, Starts, TypeOK, LedgerInv, JobSound, Settled
<1> QED
  BY <1>2, <1>3, <1>5, <1>6 DEF LedgerInv, Starts

LEMMA RemoteSound ==
  ASSUME LedgerInv, NEW j \in Jobs, Remote(j)
  PROVE  LedgerInv'
<1> USE ConstantsAre
<1>1. TypeOK /\ UNCHANGED <<jobVars, readerVars, cutOff, callerVars>>
  BY DEF LedgerInv, TypeInv, Remote, RemoteWrite, RemoteExit, RemoteKilled
<1>2. TypeInv'
  <2>1. TypeOK' /\ UnitsKept'
    BY RemoteTypes DEF LedgerInv
  <2> QED
    BY <1>1, <2>1 DEF LedgerInv, TypeInv, RegistryOfBorn, CallsOfBorn, HasJob, callerVars
<1>3. reader[j] # "unborn"
      /\ \/ UNCHANGED <<status, closed>>
         \/ /\ ~closed[j] /\ closed' = [closed EXCEPT ![j] = TRUE]
            /\ \/ UNCHANGED status
               \/ \E code \in Codes : status' = [status EXCEPT ![j] = code]
  BY DEF Remote, RemoteWrite, RemoteExit, RemoteKilled, Running
<1>4. ASSUME NEW i \in Jobs
      PROVE  JobSound(i)'
  <2>1. JobSound(i)
    BY DEF LedgerInv
  <2> QED
    BY <1>1, <1>3, <2>1 DEF JobSound, TypeOK, jobVars, readerVars, callerVars
<1>5. ASSUME NEW c \in Callers
      PROVE  CallSound(c)'
  BY <1>1 DEF LedgerInv, CallSound, Starts, jobVars, readerVars, callerVars
<1> QED
  BY <1>1, <1>2, <1>4, <1>5 DEF LedgerInv, Starts, callerVars

LEMMA StartSound ==
  ASSUME LedgerInv, NEW c \in Callers,
         (\E k \in Keys : StartExec(c, k)) \/ StartRegister(c) \/ StartThread(c)
  PROVE  LedgerInv'
<1> USE ConstantsAre
<1>1. TypeOK /\ TypeOK' /\ UnitsKept' /\ born \in Nat
  <2>1. TypeOK /\ TypeOK' /\ UnitsKept'
    BY StartTypes DEF LedgerInv, TypeInv
  <2>2. born \in Nat
    BY <2>1 DEF TypeOK
  <2> QED
    BY <2>1, <2>2
<1>2. ASSUME NEW d \in Callers, call[d] \notin {"idle", "close"}
      PROVE  callJob[d] \in 1..born /\ callJob[d] \in Jobs
  BY <1>2, JobOfCall DEF LedgerInv
<1>3. ASSUME NEW k \in Keys, StartExec(c, k)
      PROVE  LedgerInv'
  <2>1. /\ born' = born + 1 /\ born + 1 \in Jobs /\ call[c] = "idle"
        /\ reader' = [reader EXCEPT ![born + 1] = "unstarted"]
        /\ call' = [call EXCEPT ![c] = "register"]
        /\ callJob' = [callJob EXCEPT ![c] = born + 1]
        /\ UNCHANGED <<exitCode, error, abandoned, report, channelVars, registry, toClose>>
    BY <1>1, <1>3, JobsAssumption DEF StartExec, Jobs
  <2>2. TypeInv'
    <3>1. RegistryOfBorn'
      BY <1>1, <2>1 DEF LedgerInv, TypeInv, RegistryOfBorn
    <3>2. ASSUME NEW d \in Callers
          PROVE  HasJob(d)' /\ toClose'[d] \subseteq 1..born'
      <4>1. HasJob(d)'
        <5>1. CASE d = c
          BY <1>1, <2>1, <5>1 DEF HasJob, TypeOK
        <5>2. CASE d # c
          BY <1>1, <1>2, <2>1, <5>2 DEF HasJob, TypeOK
        <5> QED
          BY <5>1, <5>2
      <4>2. toClose[d] \subseteq 1..born /\ 1..born \subseteq 1..(born + 1)
        BY <1>1 DEF LedgerInv, TypeInv, CallsOfBorn
      <4> QED
        BY <2>1, <4>1, <4>2
    <3> QED
      BY <1>1, <3>1, <3>2 DEF TypeInv, CallsOfBorn
  <2>3. ASSUME NEW i \in Jobs
        PROVE  JobSound(i)'
    <3>1. JobSound(i) /\ i \in Nat
      BY DEF LedgerInv, Constants
    <3>2. CASE i # born + 1
      <4>1. reader'[i] = reader[i] /\ (i > born' <=> i > born)
        <5>1. reader'[i] = reader[i]
          BY <1>1, <2>1, <3>2 DEF TypeOK
        <5>2. i > born + 1 <=> i > born
          BY <1>1, <3>1, <3>2
        <5> QED
          BY <2>1, <5>1, <5>2
      <4> QED
        BY <2>1, <3>1, <4>1 DEF JobSound, channelVars
    <3>3. CASE i = born + 1
      <4>1. reader[i] = "unborn" /\ reader'[i] = "unstarted" /\ ~(i > born')
        BY <1>1, <2>1, <3>1, <3>3 DEF JobSound, TypeOK
      <4> QED
        BY <2>1, <3>1, <4>1 DEF JobSound, channelVars, Settled
    <3> QED
      BY <3>2, <3>3
  <2>4. ASSUME NEW d \in Callers
        PROVE  CallSound(d)'
    <3>1. CASE d = c
      BY <1>1, <2>1, <3>1 DEF CallSound, TypeOK
    <3>2. CASE d # c
      <4>1. call'[d] = call[d] /\ callJob'[d] = callJob[d] /\ CallSound(d)
        BY <1>1, <2>1, <3>2 DEF LedgerInv, TypeOK
      <4>2. call[d] \notin {"idle", "close"} => callJob[d] # born + 1
        BY <1>1, <1>2
      <4> QED
        BY <1>1, <1>2, <2>1, <4>1, <4>2 DEF CallSound, Starts, TypeOK
    <3> QED
      BY <3>1, <3>2
  <2>5. ASSUME NEW d \in Callers, NEW e \in Callers, d # e, Starts(d)', Starts(e)'
        PROVE  callJob'[d] # callJob'[e]
    <3>1. ASSUME NEW f \in Callers, f # c, Starts(f)'
          PROVE  callJob'[f] = callJob[f] /\ Starts(f) /\ callJob[f] # born + 1
      <4>1. callJob'[f] = callJob[f] /\ call'[f] = call[f]
        BY <1>1, <2>1, <3>1 DEF TypeOK
      <4>2. Starts(f) /\ callJob[f] \in 1..born
        BY <1>2, <3>1, <4>1 DEF Starts
      <4> QED
        BY <1>1, <4>1, <4>2
    <3>2. callJob'[c] = born + 1
      BY <1>1, <2>1 DEF TypeOK
    <3> QED
      BY <2>5, <3>1, <3>2 DEF LedgerInv
  <2> QED
    BY <2>2, <2>3, <2>4, <2>5 DEF LedgerInv
<1>4. CASE StartRegister(c)
  <2>1. /\ call[c] = "register" /\ call' = [call EXCEPT ![c] = "spawn"]
        /\ registry' = [registry EXCEPT ![keyOf[callJob[c]]] = callJob[c]]
        /\ UNCHANGED <<jobVars, readerVars, channelVars, born, callJob, toClose>>
    BY <1>4 DEF StartRegister
  <2>2. TypeInv'
    <3>1. callJob[c] \in 1..born /\ keyOf[callJob[c]] \in Keys
      BY <1>1, <1>2, <2>1 DEF TypeOK
    <3>2. RegistryOfBorn'
      BY <1>1, <2>1, <3>1 DEF LedgerInv, TypeInv, RegistryOfBorn, TypeOK
    <3>3. CallsOfBorn'
      BY <1>1, <1>2, <2>1 DEF LedgerInv, TypeInv, CallsOfBorn, HasJob, TypeOK
    <3> QED
      BY <1>1, <3>2, <3>3 DEF TypeInv
  <2>3. \A d \in Callers : CallSound(d)' /\ (Starts(d)' <=> Starts(d))
    BY <1>1, <2>1 DEF LedgerInv, CallSound, Starts, TypeOK, jobVars, readerVars
  <2> QED
    BY <2>1, <2>2, <2>3 DEF LedgerInv, JobSound, jobVars, readerVars, channelVars
<1>5. CASE StartThread(c)
  <2>1. /\ call[c] = "spawn" /\ call' = [call EXCEPT ![c] = "idle"]
        /\ reader' = [reader EXCEPT ![callJob[c]] = "truncate"]
        /\ callJob' = [callJob EXCEPT ![c] = None]
        /\ UNCHANGED <<jobVars, pending, report, channelVars, registry, born, toClose>>
    BY <1>5 DEF StartThread
  <2>2. callJob[c] \in Jobs /\ reader[callJob[c]] = "unstarted" /\ Starts(c)
    BY <1>2, <2>1 DEF LedgerInv, CallSound, Starts
  <2>3. TypeInv'
    <3>1. RegistryOfBorn'
      BY <2>1 DEF LedgerInv, TypeInv, RegistryOfBorn
    <3>2. CallsOfBorn'
      BY <1>1, <1>2, <2>1 DEF LedgerInv, TypeInv, CallsOfBorn, HasJob, TypeOK
    <3> QED
      BY <1>1, <3>1, <3>2 DEF TypeInv
  <2>4. ASSUME NEW i \in Jobs
        PROVE  JobSound(i)'
    <3>1. JobSound(i)
      BY DEF LedgerInv
    <3> QED
      BY <1>1, <2>1, <2>2, <3>1 DEF JobSound, TypeOK, Settled, jobVars, channelVars
  <2>5. ASSUME NEW d \in Callers
        PROVE  CallSound(d)' /\ (Starts(d)' => Starts(d) /\ d # c)
               /\ (d # c => callJob'[d] = callJob[d])
    <3>1. CASE d = c
      BY <1>1, <2>1, <3>1 DEF CallSound, Starts, TypeOK
    <3>2. CASE d # c
      <4>1. call'[d] = call[d] /\ callJob'[d] = callJob[d] /\ CallSound(d)
        BY <1>1, <2>1, <3>2 DEF LedgerInv, TypeOK
      <4>2. Starts(d) => callJob[d] # callJob[c]
        BY <2>2, <3>2 DEF LedgerInv
      <4> QED
        BY <1>1, <1>2, <2>1, <3>2, <4>1, <4>2 DEF CallSound, Starts, TypeOK, jobVars
    <3> QED
      BY <3>1, <3>2
  <2> QED
    BY <2>3, <2>4, <2>5 DEF LedgerInv
<1> QED
  BY <1>3, <1>4, <1>5

LEMMA CollectSound ==
  ASSUME LedgerInv, NEW c \in Callers,
         \/ \E k \in Keys : CollectFind(c, k)
         \/ CollectCheck(c) \/ CollectWoken(c) \/ CollectTimesOut(c) \/ GiveUp(c) \/ HangUp(c)
         \/ VerdictRaises(c) \/ VerdictPasses(c) \/ CollectReturns(c)
  PROVE  LedgerInv'
<1> USE ConstantsAre
<1>1. TypeOK /\ TypeOK' /\ UnitsKept'
  BY CollectTypes DEF LedgerInv, TypeInv
<1>2. ASSUME NEW d \in Callers, call[d] \notin {"idle", "close"}
      PROVE  callJob[d] \in 1..born /\ callJob[d] \in Jobs
  BY <1>2, JobOfCall DEF LedgerInv
<1> DEFINE Effect ==
      /\ ~Starts(c)
      /\ UNCHANGED <<exitCode, error, readerVars, registry, born, toClose, status>>
      /\ \A i \in Jobs : abandoned[i] => abandoned'[i]
      /\ \E to \in {"idle", "check", "wait", "giveUp", "hangUp", "verdict", "read"} :
           /\ call' = [call EXCEPT ![c] = to]
           /\ to \notin {"idle", "check"} => /\ callJob' = callJob
                                             /\ call[c] \notin {"idle", "close"}
           /\ to = "idle" => callJob' = [callJob EXCEPT ![c] = None]
           /\ to = "check" => /\ callJob'[c] \in 1..born
                              /\ callJob' = [callJob EXCEPT ![c] = callJob'[c]]
           /\ to = "hangUp" => abandoned'[callJob[c]]
           /\ to = "read" => exitCode[callJob[c]] # NoCode
      /\ \/ UNCHANGED <<closed, cutOff>>
         \/ /\ call[c] = "hangUp"
            /\ closed' = [closed EXCEPT ![callJob[c]] = TRUE]
            /\ cutOff' = [cutOff EXCEPT ![callJob[c]] = @ \/ ~closed[callJob[c]]]
<1>3. Effect
  <2> USE <1>1 DEF TypeOK, Starts, collectOnly, Step
  <2>1. ASSUME NEW k \in Keys, CollectFind(c, k)
        PROVE  Effect
    <3>1. registry[k] \in 1..born
      BY <2>1 DEF CollectFind, LedgerInv, TypeInv, RegistryOfBorn
    <3> QED
      BY <2>1, <3>1 DEF CollectFind, channelVars
  <2>2. CASE CollectCheck(c) \/ CollectWoken(c) \/ CollectTimesOut(c) \/ VerdictPasses(c)
    BY <2>2 DEF CollectCheck, CollectWoken, CollectTimesOut, VerdictPasses, channelVars
  <2>3. CASE GiveUp(c)
    BY <1>2, <2>3 DEF GiveUp, channelVars
  <2>4. CASE HangUp(c)
    BY <1>2, <2>4 DEF HangUp, CollectEnds
  <2>5. CASE VerdictRaises(c)
    BY <1>2, <2>5 DEF VerdictRaises, CollectEnds, channelVars
  <2>6. CASE CollectReturns(c)
    BY <1>2, <2>6 DEF CollectReturns, CollectEnds, channelVars
  <2> QED
    BY <2>1, <2>2, <2>3, <2>4, <2>5, <2>6
<1>4. ASSUME NEW d \in Callers
      PROVE  CallSound(d)' /\ HasJob(d)' /\ (Starts(d)' => Starts(d) /\ callJob'[d] = callJob[d])
  <2>1. CASE d = c
    BY <1>1, <1>2, <1>3, <2>1 DEF CallSound, HasJob, Starts, TypeOK, readerVars
  <2>2. CASE d # c
    <3>1. call'[d] = call[d] /\ callJob'[d] = callJob[d] /\ CallSound(d) /\ HasJob(d)
      BY <1>1, <1>3, <2>2 DEF LedgerInv, TypeInv, CallsOfBorn, TypeOK
    <3> QED
      BY <1>2, <1>3, <3>1 DEF CallSound, HasJob, Starts, readerVars
  <2> QED
    BY <2>1, <2>2
<1>5. ASSUME NEW i \in Jobs
      PROVE  JobSound(i)'
  <2>1. JobSound(i) /\ CallSound(c)
    BY DEF LedgerInv
  <2>2. CASE UNCHANGED <<closed, cutOff>>
    BY <1>3, <2>1, <2>2 DEF JobSound, readerVars
  <2>3. CASE call[c] = "hangUp" /\ i # callJob[c]
    <3>1. closed'[i] = closed[i] /\ cutOff'[i] = cutOff[i]
      BY <1>1, <1>3, <2>3 DEF TypeOK
    <3> QED
      BY <1>3, <2>1, <3>1 DEF JobSound, readerVars
  <2>4. CASE /\ call[c] = "hangUp" /\ i = callJob[c]
             /\ closed' = [closed EXCEPT ![callJob[c]] = TRUE]
             /\ cutOff' = [cutOff EXCEPT ![callJob[c]] = @ \/ ~closed[callJob[c]]]
    <3>1. closed'[i] /\ (cutOff'[i] <=> cutOff[i] \/ ~closed[i]) /\ abandoned[i]
      BY <1>1, <2>1, <2>4, Zenon DEF TypeOK, CallSound
    <3>2. reader[i] # "unborn"
      <4>1. callJob[c] \in 1..born
        BY <1>2, <2>4
      <4>2. born \in Nat
        BY <1>1 DEF TypeOK
      <4> QED
        BY <2>1, <2>4, <4>1, <4>2 DEF JobSound
    <3> QED
      BY <1>3, <2>1, <3>1, <3>2 DEF JobSound, readerVars
  <2> QED
    BY <1>3, <2>2, <2>3, <2>4
<1>6. RegistryOfBorn' /\ CallsOfBorn'
  BY <1>3, <1>4 DEF LedgerInv, TypeInv, RegistryOfBorn, CallsOfBorn
<1> QED
  BY <1>1, <1>4, <1>5, <1>6 DEF LedgerInv, TypeInv

LEMMA CloseSound ==
  ASSUME LedgerInv, NEW c \in Callers,
         CloseBegin(c) \/ CloseJob(c) \/ CloseJoined(c) \/ CloseRaises(c) \/ CloseClient(c)
  PROVE  LedgerInv'
<1> USE ConstantsAre
<1>1. TypeOK /\ TypeOK' /\ UnitsKept'
  BY CloseTypes DEF LedgerInv, TypeInv
<1>2. toClose[c] \subseteq 1..born /\ RegistryOfBorn
  BY DEF LedgerInv, TypeInv, CallsOfBorn
<1> DEFINE Effect ==
      /\ UNCHANGED <<exitCode, error, abandoned, readerVars, registry, born, status, cutOff>>
      /\ \A i \in Jobs : closed[i] => closed'[i]
      /\ \A i \in Jobs : closed'[i] => closed[i] \/ reader[i] # "unborn"
      /\ \A d \in Callers \ {c} : /\ call'[d] = call[d] /\ callJob'[d] = callJob[d]
                                  /\ toClose'[d] = toClose[d]
      /\ ~Starts(c) /\ call'[c] \in {"idle", "close", "join"}
      /\ call'[c] = "join" => callJob'[c] \in 1..born
      /\ toClose'[c] \subseteq 1..born
<1>3. ASSUME NEW i \in 1..born
      PROVE  i \in Jobs /\ reader[i] # "unborn"
  <2>1. born \in Nat /\ born <= MaxJobs
    BY <1>1 DEF TypeOK, Constants
  <2>2. i \in Jobs
    BY <2>1, JobsAssumption DEF Jobs
  <2> QED
    BY <2>1, <2>2 DEF LedgerInv, JobSound
<1>4. Effect
  <2> USE <1>1 DEF TypeOK, Starts, closeOnly, Step
  <2>1. CASE CloseBegin(c)
    <3>1. {registry[k] : k \in Keys} \ {None} \subseteq 1..born
      BY <1>2 DEF RegistryOfBorn
    <3> QED
      BY <2>1, <3>1 DEF CloseBegin, channelVars
  <2>2. CASE CloseJob(c)
    <3>1. PICK j \in toClose[c] :
            /\ call[c] = "close"
            /\ \/ UNCHANGED <<closed, call, callJob>>
               \/ /\ closed' = [closed EXCEPT ![j] = TRUE]
                  /\ call' = [call EXCEPT ![c] = "join"]
                  /\ callJob' = [callJob EXCEPT ![c] = j]
            /\ toClose' = [toClose EXCEPT ![c] = @ \ {j}]
            /\ UNCHANGED <<closeOnly, doneEvt, made, buf, status, cutOff, open, outcome>>
      BY <2>2 DEF CloseJob
    <3>2. j \in 1..born /\ j \in Jobs /\ reader[j] # "unborn"
      BY <1>2, <1>3
    <3> QED
      BY <1>2, <3>1, <3>2
  <2>3. CASE CloseJoined(c)
    BY <1>2, <2>3 DEF CloseJoined, channelVars
  <2>4. CASE CloseRaises(c)
    BY <1>2, <2>4 DEF CloseRaises, channelVars
  <2>5. CASE CloseClient(c)
    BY <1>2, <2>5 DEF CloseClient
  <2> QED
    BY <2>1, <2>2, <2>3, <2>4, <2>5
<1>5. ASSUME NEW i \in Jobs
      PROVE  JobSound(i)'
  <2>1. JobSound(i)
    BY DEF LedgerInv
  <2> QED
    BY <1>4, <2>1 DEF JobSound, readerVars
<1>6. ASSUME NEW d \in Callers
      PROVE  /\ CallSound(d)' /\ HasJob(d)' /\ toClose'[d] \subseteq 1..born
             /\ Starts(d)' => Starts(d) /\ callJob'[d] = callJob[d]
  <2>1. CallSound(d) /\ HasJob(d) /\ toClose[d] \subseteq 1..born
    BY DEF LedgerInv, TypeInv, CallsOfBorn
  <2>2. CASE d = c
    BY <1>4, <2>2 DEF CallSound, HasJob, Starts
  <2>3. CASE d # c
    BY <1>4, <2>1, <2>3 DEF CallSound, HasJob, Starts, readerVars
  <2> QED
    BY <2>2, <2>3
<1>7. RegistryOfBorn' /\ CallsOfBorn'
  BY <1>2, <1>4, <1>6 DEF RegistryOfBorn, CallsOfBorn
<1> QED
  BY <1>1, <1>5, <1>6, <1>7 DEF LedgerInv, TypeInv

LEMMA LedgerStep == LedgerInv /\ [Next]_vars => LedgerInv'
<1> SUFFICES ASSUME LedgerInv, [Next]_vars PROVE LedgerInv'
  OBVIOUS
<1>1. ASSUME NEW c \in Callers, Call(c)
      PROVE  LedgerInv'
  BY <1>1, StartSound, CollectSound, CloseSound DEF Call, CallInProgress
<1>2. ASSUME NEW j \in Jobs, Reader(j) \/ Remote(j)
      PROVE  LedgerInv'
  BY <1>2, ReaderSound, RemoteSound
<1>3. CASE UNCHANGED vars
  BY <1>3 DEF vars, jobVars, readerVars, channelVars, callerVars, LedgerInv, TypeInv, TypeOK,
              UnitsKept, RegistryOfBorn, CallsOfBorn, HasJob, JobSound, CallSound, Starts
<1> QED
  BY <1>1, <1>2, <1>3 DEF Next

LEMMA LedgerInit == Init => LedgerInv
<1> SUFFICES ASSUME Init PROVE LedgerInv
  OBVIOUS
<1> USE ConstantsAre, JobsAssumption DEF Init
<1>1. (CHOOSE k \in Keys : TRUE) \in Keys
  OBVIOUS
<1>2. NoOutcome \in [job : JobOrNone, code : CodeOrNone, text : Seq(Jobs)]
  BY DEF NoOutcome, Constants
<1>3. TypeOK
  BY <1>1, <1>2 DEF TypeOK, Constants, Jobs
<1>4. UnitsKept /\ RegistryOfBorn /\ CallsOfBorn
  BY DEF UnitsKept, RegistryOfBorn, CallsOfBorn, HasJob
<1>5. \A j \in Jobs : JobSound(j)
  BY DEF JobSound, Settled, Jobs
<1>6. \A c \in Callers : CallSound(c) /\ ~Starts(c)
  BY DEF CallSound, Starts
<1> QED
  BY <1>3, <1>4, <1>5, <1>6 DEF LedgerInv, TypeInv

\* The inductive invariant of the ledger holds whatever callers do.
THEOREM LedgerInvariant == Spec => []LedgerInv
  BY LedgerInit, LedgerStep, PTL DEF Spec

\* Jobs, channels, readers and calls have the fields SSHClientWrapper and
\* BackgroundJob give them, in every state.
THEOREM JobsTypeCorrect == Spec => []TypeOK
<1>1. LedgerInv => TypeOK
  BY DEF LedgerInv, TypeInv
<1> QED
  BY <1>1, LedgerInvariant, PTL

-----------------------------------------------------------------------------
(* The ledger is kept *)

\* The ledger's view of a state, in the terms of module SshJobs.
ChannelOf(r, cl, st) ==
  [j \in Jobs |-> IF r[j] = "unborn" THEN <<"none">>
                  ELSE IF cl[j] THEN <<"closed", st[j]>>
                  ELSE <<"open">>]
ResultOf(ec, er, co) ==
  [j \in Jobs |-> IF ec[j] # NoCode THEN <<"code", ec[j]>>
                  ELSE IF er[j] \/ co[j] THEN <<"void">>
                  ELSE <<"unknown">>]
AnswerOf(o) ==
  [c \in Callers |-> IF o[c].job = None THEN <<>> ELSE <<o[c].job, o[c].code>>]

Chan == ChannelOf(reader, closed, status)
Res == ResultOf(exitCode, error, cutOff)
Ans == AnswerOf(outcome)

LEMMA ViewStarts ==
  ASSUME NEW c \in Callers, NEW j \in Jobs, Chan[j] = <<"none">>,
         Chan' = [Chan EXCEPT ![j] = <<"open">>], Ans' = [Ans EXCEPT ![c] = <<>>], Res' = Res
  PROVE  Ledger!Next
<1>1. Ledger!Start(c, j)
  BY DEF Ledger!Start, Chan, Res, Ans, ChannelOf, ResultOf, AnswerOf
<1> QED
  BY <1>1 DEF Ledger!Next

LEMMA ViewAsks ==
  ASSUME NEW c \in Callers, Ans' = [Ans EXCEPT ![c] = <<>>], Chan' = Chan, Res' = Res
  PROVE  Ledger!Next
<1>1. Ledger!Asks(c)
  BY DEF Ledger!Asks, Chan, Res, Ans, ChannelOf, ResultOf, AnswerOf
<1> QED
  BY <1>1 DEF Ledger!Next

LEMMA ViewAnswers ==
  ASSUME NEW c \in Callers, NEW j \in Jobs, Res[j][1] = "code",
         Ans' = [Ans EXCEPT ![c] = <<j, Res[j][2]>>], Chan' = Chan, Res' = Res
  PROVE  Ledger!Next
<1>1. Ledger!Answers(c, j)
  BY DEF Ledger!Answers, Chan, Res, Ans, ChannelOf, ResultOf, AnswerOf
<1> QED
  BY <1>1 DEF Ledger!Next

LEMMA ViewEnds ==
  ASSUME NEW jobs \in SUBSET Jobs, NEW s,
         s = NoStatus \/ (s \in Codes /\ \E j \in Jobs : jobs = {j}),
         \A j \in jobs : Chan[j] = <<"open">>,
         Chan' = [j \in Jobs |-> IF j \in jobs THEN <<"closed", s>> ELSE Chan[j]],
         Res' = Res, Ans' = Ans
  PROVE  Ledger!Next
<1>1. Ledger!Ends(jobs, s)
  BY DEF Ledger!Ends, Chan, Res, Ans, ChannelOf, ResultOf, AnswerOf
<1> QED
  BY <1>1 DEF Ledger!Next

LEMMA ViewCutsOff ==
  ASSUME NEW j \in Jobs, Chan[j] = <<"open">>,
         Chan' = [Chan EXCEPT ![j] = <<"closed", NoStatus>>],
         Res' = [Res EXCEPT ![j] = <<"void">>], Ans' = Ans
  PROVE  Ledger!Next
<1>1. Ledger!CutsOff(j)
  BY DEF Ledger!CutsOff, Chan, Res, Ans, ChannelOf, ResultOf, AnswerOf
<1> QED
  BY <1>1 DEF Ledger!Next

LEMMA ViewSettles ==
  ASSUME NEW j \in Jobs, Res[j] = <<"unknown">>, Chan[j] # <<"none">>,
         \/ Res' = [Res EXCEPT ![j] = <<"void">>]
         \/ Chan[j] # <<"open">> /\ Res' = [Res EXCEPT ![j] = <<"code", Chan[j][2]>>],
         Chan' = Chan, Ans' = Ans
  PROVE  Ledger!Next
<1>1. Ledger!Settles(j)
  BY DEF Ledger!Settles, Chan, Res, Ans, ChannelOf, ResultOf, AnswerOf
<1> QED
  BY <1>1 DEF Ledger!Next

\* A step of a reader settles its job when it records the result, and is no
\* step of the ledger otherwise.
LEMMA ReaderKeeps ==
  ASSUME LedgerInv, NEW j \in Jobs, Reader(j)
  PROVE  Ledger!Next \/ UNCHANGED <<Chan, Res, Ans>>
<1> USE ConstantsAre DEF Goto, readerOnly, callerVars, channelVars
<1>1. TypeOK /\ JobSound(j)
  BY DEF LedgerInv, TypeInv
<1>2. /\ reader[j] # "unborn"
      /\ \E to \in {"recv", "look", "status", "report", "record", "finish", "dead"} :
           reader' = [reader EXCEPT ![j] = to]
      /\ UNCHANGED <<status, closed, cutOff, outcome>>
  BY <1>1 DEF Reader, ReaderWorks, Truncate, Receive, Look, Harvest, GoRound, ReaderPauses, ReaderRaises,
         ReportCheck, Record, FinishJob
<1>3. Chan' = Chan /\ Ans' = Ans
  <2>1. \A i \in Jobs : reader'[i] = "unborn" <=> reader[i] = "unborn"
    BY <1>1, <1>2 DEF TypeOK
  <2> QED
    BY <1>2, <2>1 DEF Chan, Ans, ChannelOf
<1>4. CASE Record(j)
  <2>1. /\ exitCode' = [exitCode EXCEPT ![j] = report[j]]
        /\ error' = [error EXCEPT ![j] = (report[j] = NoCode)]
        /\ reader[j] = "record" /\ exitCode[j] = NoCode /\ ~error[j]
    BY <1>1, <1>4 DEF Record, JobSound, Settled
  <2>2. \A i \in Jobs \ {j} : Res'[i] = Res[i]
    BY <1>1, <1>2, <2>1 DEF TypeOK, Res, ResultOf
  <2>3. CASE report[j] = NoCode /\ cutOff[j]
    <3>1. Res[j] = <<"void">> /\ Res'[j] = <<"void">>
      BY <1>1, <1>2, <2>1, <2>3 DEF TypeOK, Res, ResultOf
    <3>2. Res' = Res
      BY <2>2, <3>1 DEF Res, ResultOf
    <3> QED
      BY <1>3, <3>2
  <2>4. CASE ~cutOff[j]
    <3>1. Res[j] = <<"unknown">>
      BY <2>1, <2>4 DEF Res, ResultOf
    <3>2. Chan[j] # <<"none">>
      BY <1>2 DEF Chan, ChannelOf
    <3>3. CASE report[j] = NoCode
      <4>1. Res'[j] = <<"void">>
        <5>1. exitCode'[j] = NoCode /\ error'[j]
          BY <1>1, <2>1, <3>3, Zenon DEF TypeOK
        <5> QED
          BY <5>1 DEF Res, ResultOf
      <4>2. Res' = [Res EXCEPT ![j] = <<"void">>]
        BY <2>2, <4>1 DEF Res, ResultOf
      <4> QED
        BY <1>3, <3>1, <3>2, <4>2, ViewSettles
    <3>4. CASE report[j] # NoCode
      <4>1. Chan[j] = <<"closed", status[j]>> /\ report[j] = status[j]
        BY <1>1, <1>2, <3>4 DEF JobSound, Chan, ChannelOf
      <4>2. Res'[j] = <<"code", status[j]>>
        BY <1>1, <2>1, <3>4, <4>1 DEF TypeOK, Res, ResultOf
      <4>3. Res' = [Res EXCEPT ![j] = <<"code", status[j]>>]
        BY <2>2, <4>2 DEF Res, ResultOf
      <4>4. Chan[j] # <<"open">> /\ Chan[j][2] = status[j]
        BY <4>1
      <4> QED
        BY <1>3, <3>1, <3>2, <4>3, <4>4, ViewSettles
    <3> QED
      BY <3>3, <3>4
  <2> QED
    BY <1>1, <2>1, <2>3, <2>4 DEF JobSound
<1>5. CASE ~Record(j)
  <2>1. UNCHANGED <<exitCode, error>>
    BY <1>5 DEF Reader, ReaderWorks, Truncate, Receive, Look, Harvest, GoRound, ReaderPauses, ReaderRaises,
       ReportCheck, FinishJob
  <2> QED
    BY <1>2, <1>3, <2>1 DEF Res
<1> QED
  BY <1>4, <1>5

LEMMA RemoteKeeps ==
  ASSUME LedgerInv, NEW j \in Jobs, Remote(j)
  PROVE  Ledger!Next \/ UNCHANGED <<Chan, Res, Ans>>
<1> USE DEF jobVars, readerVars, callerVars
<1>1. TypeOK
  BY DEF LedgerInv, TypeInv
<1>2. CASE RemoteWrite(j)
  BY <1>2 DEF RemoteWrite, Chan, Res, Ans
<1>3. CASE RemoteExit(j)
  <2>1. PICK code \in Codes : status' = [status EXCEPT ![j] = code]
    BY <1>3 DEF RemoteExit
  <2>2. /\ closed' = [closed EXCEPT ![j] = TRUE] /\ ~closed[j] /\ reader[j] # "unborn"
        /\ reader' = reader /\ Res' = Res /\ Ans' = Ans
    BY <1>3 DEF RemoteExit, Running, Res, Ans
  <2>3. Chan[j] = <<"open">>
    BY <2>2 DEF Chan, ChannelOf
  <2>4. \A i \in Jobs : Chan'[i] = IF i \in {j} THEN <<"closed", code>> ELSE Chan[i]
    BY <1>1, <2>1, <2>2 DEF TypeOK, Chan, ChannelOf
  <2>5. Chan' = [i \in Jobs |-> IF i \in {j} THEN <<"closed", code>> ELSE Chan[i]]
    BY <2>4 DEF Chan, ChannelOf
  <2>6. \A i \in {j} : Chan[i] = <<"open">>
    BY <2>3
  <2> QED
    BY <2>2, <2>5, <2>6, ViewEnds
<1>4. CASE RemoteKilled(j)
  <2>1. /\ closed' = [closed EXCEPT ![j] = TRUE] /\ ~closed[j] /\ reader[j] # "unborn"
        /\ reader' = reader /\ status' = status /\ Res' = Res /\ Ans' = Ans
    BY <1>4 DEF RemoteKilled, Running, Res, Ans
  <2>2. status[j] = NoStatus
    BY <2>1 DEF LedgerInv, JobSound
  <2>3. Chan[j] = <<"open">>
    BY <2>1 DEF Chan, ChannelOf
  <2>4. \A i \in Jobs : Chan'[i] = IF i \in {j} THEN <<"closed", NoStatus>> ELSE Chan[i]
    BY <1>1, <2>1, <2>2 DEF TypeOK, Chan, ChannelOf
  <2>5. Chan' = [i \in Jobs |-> IF i \in {j} THEN <<"closed", NoStatus>> ELSE Chan[i]]
    BY <2>4 DEF Chan, ChannelOf
  <2>6. \A i \in {j} : Chan[i] = <<"open">>
    BY <2>3
  <2> QED
    BY <2>1, <2>5, <2>6, ViewEnds
<1> QED
  BY <1>2, <1>3, <1>4 DEF Remote

LEMMA AsksKeeps ==
  ASSUME LedgerInv, NEW c \in Callers, outcome' = [outcome EXCEPT ![c] = NoOutcome]
  PROVE  Ans' = [Ans EXCEPT ![c] = <<>>]
<1>1. outcome \in [Callers -> [job : JobOrNone, code : CodeOrNone, text : Seq(Jobs)]]
  BY DEF LedgerInv, TypeInv, TypeOK
<1>2. \A d \in Callers : Ans'[d] = IF d = c THEN <<>> ELSE Ans[d]
  BY <1>1 DEF Ans, AnswerOf, NoOutcome
<1> QED
  BY <1>2 DEF Ans, AnswerOf

LEMMA StartKeeps ==
  ASSUME LedgerInv, NEW c \in Callers,
         (\E k \in Keys : StartExec(c, k)) \/ StartRegister(c) \/ StartThread(c)
  PROVE  Ledger!Next \/ UNCHANGED <<Chan, Res, Ans>>
<1> USE ConstantsAre DEF channelVars
<1>1. TypeOK
  BY DEF LedgerInv, TypeInv
<1>2. ASSUME NEW k \in Keys, StartExec(c, k)
      PROVE  Ledger!Next
  <2> DEFINE j == born + 1
  <2>1. j \in Jobs /\ j > born
    BY <1>1, <1>2, JobsAssumption DEF StartExec, Jobs, TypeOK
  <2>2. reader[j] = "unborn" /\ ~closed[j]
    BY <2>1 DEF LedgerInv, JobSound
  <2>3. /\ reader' = [reader EXCEPT ![j] = "unstarted"]
        /\ UNCHANGED <<closed, status, exitCode, error, cutOff>>
        /\ Ans' = [Ans EXCEPT ![c] = <<>>]
    BY <1>2, AsksKeeps DEF StartExec
  <2> HIDE DEF j
  <2>4. Chan[j] = <<"none">> /\ Res' = Res
    BY <2>1, <2>2, <2>3 DEF Chan, ChannelOf, Res
  <2>5. \A i \in Jobs : Chan'[i] = IF i = j THEN <<"open">> ELSE Chan[i]
    BY <1>1, <2>1, <2>2, <2>3 DEF TypeOK, Chan, ChannelOf
  <2>6. Chan' = [Chan EXCEPT ![j] = <<"open">>]
    BY <2>5 DEF Chan, ChannelOf
  <2> QED
    BY <2>1, <2>3, <2>4, <2>6, ViewStarts
<1>3. CASE StartRegister(c)
  BY <1>3 DEF StartRegister, jobVars, readerVars, Chan, Res, Ans
<1>4. CASE StartThread(c)
  <2>1. /\ reader' = [reader EXCEPT ![callJob[c]] = "truncate"]
        /\ UNCHANGED <<closed, status, exitCode, error, cutOff, outcome>>
        /\ reader[callJob[c]] = "unstarted"
    BY <1>4 DEF StartThread, jobVars, LedgerInv, CallSound, Starts
  <2>2. \A i \in Jobs : reader'[i] = "unborn" <=> reader[i] = "unborn"
    BY <1>1, <2>1 DEF TypeOK
  <2> QED
    BY <2>1, <2>2 DEF Chan, Res, Ans, ChannelOf
<1> QED
  BY <1>2, <1>3, <1>4

LEMMA CollectKeeps ==
  ASSUME LedgerInv, NEW c \in Callers,
         \/ \E k \in Keys : CollectFind(c, k)
         \/ CollectCheck(c) \/ CollectWoken(c) \/ CollectTimesOut(c) \/ GiveUp(c) \/ HangUp(c)
         \/ VerdictRaises(c) \/ VerdictPasses(c) \/ CollectReturns(c)
  PROVE  Ledger!Next \/ UNCHANGED <<Chan, Res, Ans>>
<1> USE ConstantsAre DEF collectOnly, readerVars, Step
<1>1. TypeOK
  BY DEF LedgerInv, TypeInv
<1>2. call[c] \notin {"idle", "close"} => callJob[c] \in 1..born /\ callJob[c] \in Jobs
  BY JobOfCall DEF LedgerInv
<1>3. ASSUME NEW k \in Keys, CollectFind(c, k)
      PROVE  Ledger!Next
  <2>1. Ans' = [Ans EXCEPT ![c] = <<>>] /\ Chan' = Chan /\ Res' = Res
    BY <1>3, AsksKeeps DEF CollectFind, channelVars, Chan, Res
  <2> QED
    BY <2>1, ViewAsks
<1>4. CASE CollectCheck(c) \/ CollectWoken(c) \/ CollectTimesOut(c) \/ VerdictPasses(c)
           \/ GiveUp(c) \/ VerdictRaises(c)
  BY <1>4 DEF CollectCheck, CollectWoken, CollectTimesOut, VerdictPasses, GiveUp,
     VerdictRaises, channelVars, Chan, Res, Ans
<1>5. CASE HangUp(c)
  <2> DEFINE j == callJob[c]
  <2>1. /\ closed' = [closed EXCEPT ![j] = TRUE] /\ Ans' = Ans
        /\ cutOff' = [cutOff EXCEPT ![j] = @ \/ ~closed[j]]
        /\ UNCHANGED <<reader, status, exitCode, error>>
    BY <1>5 DEF HangUp, Ans
  <2>2. j \in Jobs /\ JobSound(j)
    BY <1>2, <1>5 DEF HangUp, LedgerInv
  <2>3. reader[j] # "unborn"
    <3>1. j \in 1..born /\ born \in Nat
      BY <1>1, <1>2, <1>5 DEF HangUp, TypeOK
    <3> QED
      BY <2>2, <3>1 DEF JobSound
  <2> HIDE DEF j
  <2>4. CASE closed[j]
    <3>1. closed' = closed /\ cutOff' = cutOff
      BY <1>1, <2>1, <2>2, <2>4, Zenon DEF TypeOK
    <3> QED
      BY <2>1, <3>1 DEF Chan, Res
  <2>5. CASE ~closed[j]
    <3>1. status[j] = NoStatus /\ exitCode[j] = NoCode
      BY <2>2, <2>5 DEF JobSound
    <3>2. Chan[j] = <<"open">>
      BY <2>2, <2>3, <2>5 DEF Chan, ChannelOf
    <3>3. \A i \in Jobs : Chan'[i] = IF i = j THEN <<"closed", NoStatus>> ELSE Chan[i]
      BY <1>1, <2>1, <2>2, <2>3, <3>1 DEF TypeOK, Chan, ChannelOf
    <3>4. \A i \in Jobs : Res'[i] = IF i = j THEN <<"void">> ELSE Res[i]
      <4>1. cutOff'[j] /\ \A i \in Jobs \ {j} : cutOff'[i] = cutOff[i]
        BY <1>1, <2>1, <2>2, <2>5, Zenon DEF TypeOK
      <4> QED
        BY <2>1, <2>2, <3>1, <4>1 DEF Res, ResultOf
    <3>5. Chan' = [Chan EXCEPT ![j] = <<"closed", NoStatus>>]
      BY <3>3 DEF Chan, ChannelOf
    <3>6. Res' = [Res EXCEPT ![j] = <<"void">>]
      BY <3>4 DEF Res, ResultOf
    <3> QED
      BY <2>1, <2>2, <3>2, <3>5, <3>6, ViewCutsOff
  <2> QED
    BY <2>4, <2>5
<1>6. CASE CollectReturns(c)
  <2> DEFINE j == callJob[c]
  <2>1. j \in Jobs /\ exitCode[j] # NoCode /\ j # None
    BY <1>2, <1>6 DEF CollectReturns, LedgerInv, CallSound, Constants
  <2>2. Res[j] = <<"code", exitCode[j]>>
    BY <2>1 DEF Res, ResultOf
  <2>3. Chan' = Chan /\ Res' = Res
    BY <1>6 DEF CollectReturns, channelVars, Chan, Res
  <2>4. \A d \in Callers : Ans'[d] = IF d = c THEN <<j, exitCode[j]>> ELSE Ans[d]
    BY <1>1, <1>6, <2>1 DEF CollectReturns, TypeOK, Ans, AnswerOf
  <2> HIDE DEF j
  <2>5. Ans' = [Ans EXCEPT ![c] = <<j, exitCode[j]>>]
    BY <2>4 DEF Ans, AnswerOf
  <2>6. Res[j][1] = "code" /\ Res[j][2] = exitCode[j]
    BY <2>2
  <2> QED
    BY <2>1, <2>3, <2>5, <2>6, ViewAnswers
<1> QED
  BY <1>3, <1>4, <1>5, <1>6

LEMMA CloseKeeps ==
  ASSUME LedgerInv, NEW c \in Callers,
         CloseBegin(c) \/ CloseJob(c) \/ CloseJoined(c) \/ CloseRaises(c) \/ CloseClient(c)
  PROVE  Ledger!Next \/ UNCHANGED <<Chan, Res, Ans>>
<1> USE DEF closeOnly, readerVars, Step
<1>1. TypeOK
  BY DEF LedgerInv, TypeInv
<1>2. CASE CloseBegin(c)
  <2>1. Ans' = [Ans EXCEPT ![c] = <<>>] /\ Chan' = Chan /\ Res' = Res
    BY <1>2, AsksKeeps DEF CloseBegin, channelVars, Chan, Res
  <2> QED
    BY <2>1, ViewAsks
<1>3. CASE CloseJoined(c) \/ CloseRaises(c)
  BY <1>3 DEF CloseJoined, CloseRaises, channelVars, Chan, Res, Ans
<1>4. ASSUME UNCHANGED <<reader, status, exitCode, error, cutOff, outcome>>,
             NEW jobs \in SUBSET {i \in Jobs : ~closed[i] /\ reader[i] # "unborn"},
             \A i \in Jobs : closed'[i] <=> closed[i] \/ i \in jobs
      PROVE  Ledger!Next
  <2>1. \A i \in jobs : status[i] = NoStatus /\ Chan[i] = <<"open">>
    BY DEF LedgerInv, JobSound, Chan, ChannelOf
  <2>2. \A i \in Jobs : Chan'[i] = IF i \in jobs THEN <<"closed", NoStatus>> ELSE Chan[i]
    BY <1>4, <2>1 DEF Chan, ChannelOf
  <2>3. Chan' = [i \in Jobs |-> IF i \in jobs THEN <<"closed", NoStatus>> ELSE Chan[i]]
    BY <2>2 DEF Chan, ChannelOf
  <2>4. Res' = Res /\ Ans' = Ans /\ jobs \in SUBSET Jobs
    BY <1>4 DEF Res, Ans
  <2> QED
    BY <2>1, <2>3, <2>4, ViewEnds
<1>5. CASE CloseJob(c)
  <2>1. PICK j \in toClose[c] :
          /\ closed' = closed \/ closed' = [closed EXCEPT ![j] = TRUE]
          /\ UNCHANGED <<reader, status, exitCode, error, cutOff, outcome>>
    BY <1>5 DEF CloseJob
  <2>2. j \in 1..born /\ j \in Jobs /\ reader[j] # "unborn"
    <3>1. born \in Nat /\ j \in Jobs /\ j \in 1..born
      BY <1>1 DEF TypeOK, LedgerInv, TypeInv, CallsOfBorn
    <3> QED
      BY <3>1 DEF LedgerInv, JobSound
  <2>3. CASE closed' = closed \/ closed[j]
    <3>1. closed[j] => [closed EXCEPT ![j] = TRUE] = closed
      BY <1>1, <2>2, Zenon DEF TypeOK
    <3>2. closed' = closed
      BY <2>1, <2>3, <3>1
    <3> QED
      BY <2>1, <3>2 DEF Chan, Res, Ans
  <2>4. CASE ~closed[j] /\ closed' = [closed EXCEPT ![j] = TRUE]
    <3>1. \A i \in Jobs : closed'[i] <=> closed[i] \/ i \in {j}
      BY <1>1, <2>2, <2>4, Zenon DEF TypeOK
    <3> QED
      BY <1>4, <2>1, <2>2, <2>4, <3>1
  <2> QED
    BY <2>1, <2>3, <2>4
<1>6. CASE CloseClient(c)
  <2> DEFINE jobs == {i \in Jobs : ~closed[i] /\ reader[i] # "unborn"}
  <2>1. /\ closed' = [j \in Jobs |-> closed[j] \/ reader[j] # "unborn"]
        /\ UNCHANGED <<reader, status, exitCode, error, cutOff, outcome>>
    BY <1>6 DEF CloseClient
  <2>2. \A i \in Jobs : closed'[i] <=> closed[i] \/ i \in jobs
    BY <2>1
  <2> QED
    BY <1>4, <2>1, <2>2
<1> QED
  BY <1>2, <1>3, <1>5, <1>6

LEMMA ViewStep ==
  ASSUME LedgerInv, [Next]_vars
  PROVE  Ledger!Next \/ UNCHANGED <<Chan, Res, Ans>>
<1>1. ASSUME NEW c \in Callers, Call(c)
      PROVE  Ledger!Next \/ UNCHANGED <<Chan, Res, Ans>>
  BY <1>1, StartKeeps, CollectKeeps, CloseKeeps DEF Call, CallInProgress
<1>2. ASSUME NEW j \in Jobs, Reader(j) \/ Remote(j)
      PROVE  Ledger!Next \/ UNCHANGED <<Chan, Res, Ans>>
  BY <1>2, ReaderKeeps, RemoteKeeps
<1>3. CASE UNCHANGED vars
  BY <1>3 DEF vars, jobVars, readerVars, channelVars, callerVars, Chan, Res, Ans
<1> QED
  BY <1>1, <1>2, <1>3 DEF Next

\* Whatever readers, collects and closes do to each other, and however callers
\* use their keys, what they do to jobs, channels and answers is a behaviour of
\* the ledger: a job's code is written once and is the status its channel was
\* closed with, a job a collect cut off never gets one, and a collect returns
\* nothing else.
THEOREM JobsKeepLedger == Spec => ImplementsLedger
<1>1. Init => Ledger!Init
  BY DEF Init, Ledger!Init, NoOutcome
<1>2. LedgerInv /\ [Next]_vars => [Ledger!Next]_<<Chan, Res, Ans>>
  BY ViewStep
<1> QED
  BY <1>1, <1>2, LedgerInvariant, PTL DEF Spec, ImplementsLedger, Ledger!Spec, Chan, Res, Ans,
     ChannelOf, ResultOf, AnswerOf

-----------------------------------------------------------------------------
(* Careful callers get their own output *)

\* No job of the key was started after it.
Latest(j) == \A i \in 1..born : keyOf[i] = keyOf[j] => i <= j

Collects(c) == call[c] \in {"check", "wait", "giveUp", "hangUp", "verdict", "read"}

\* The reader has begun the file and its result may still come from it.
Filed(j) ==
  \/ reader[j] \in {"recv", "look", "status"}
  \/ report[j] # NoCode \/ exitCode[j] # NoCode

Units(j) == [i \in 1..appended[j] |-> j]

\* A key's older readers are dead, ...
OlderDead == \A j \in 1..born : reader[j] # "dead" => Latest(j)

\* ... a reader that is not running yet is being started, ...
BeingStarted ==
  \A j \in 1..born : reader[j] = "unstarted" => \E c \in Callers : Starts(c) /\ callJob[c] = j

\* ... and the registry has a key's last job as soon as it is registered.
RegistryLatest ==
  /\ \A j \in 1..born :
       \/ registry[keyOf[j]] >= j
       \/ \E c \in Callers : call[c] = "register" /\ callJob[c] = j
  /\ \A k \in Keys : registry[k] # None => keyOf[registry[k]] = k

\* A collect is about its key's last job.
CollectsLatest == \A c \in Callers : Collects(c) => Latest(callJob[c])

ReaderFresh ==
  \A j \in Jobs :
    /\ reader[j] \in {"unborn", "unstarted", "truncate"} => appended[j] = 0
    /\ reader[j] \notin Settled \cup {"report", "record"} => report[j] = NoCode

\* The last job's file holds what its reader appended, and so do answers.
FileWhole == \A j \in 1..born : Latest(j) /\ Filed(j) => file[keyOf[j]] = Units(j)

AnswersWhole ==
  \A c \in Callers : outcome[c].job # None =>
    exitCode[outcome[c].job] # NoCode /\ outcome[c].text = Units(outcome[c].job)

CarefulInv ==
  /\ OlderDead /\ BeingStarted /\ RegistryLatest /\ CollectsLatest /\ ReaderFresh
  /\ FileWhole /\ AnswersWhole

\* Appending units of one job to units of the same job.
LEMMA MoreUnits ==
  ASSUME NEW j, NEW a \in Nat, NEW n \in Nat
  PROVE  [i \in 1..a |-> j] \o [i \in 1..n |-> j] = [i \in 1..(a + n) |-> j]
<1> DEFINE s == [i \in 1..a |-> j]
           t == [i \in 1..n |-> j]
<1>1. /\ s \in Seq({j}) /\ Len(s) = a /\ \A i \in 1..a : s[i] = j
      /\ t \in Seq({j}) /\ Len(t) = n /\ \A i \in 1..n : t[i] = j
  OBVIOUS
<1> HIDE DEF s, t
<1>2. /\ s \o t \in Seq({j}) /\ Len(s \o t) = a + n
      /\ \A i \in 1..(a + n) : (s \o t)[i] = IF i <= a THEN s[i] ELSE t[i - a]
  BY <1>1, ConcatProperties
<1>3. \A i \in 1..(a + n) : (s \o t)[i] = j
  BY <1>1, <1>2
<1>4. s \o t \in [1..(a + n) -> {j}]
  BY <1>2, LenProperties
<1>5. s \o t = [i \in 1..(a + n) |-> j]
  BY <1>3, <1>4
<1> QED
  BY <1>5 DEF s, t

\* Jobs that were born are the ones with a reader.
LEMMA BornJobs ==
  ASSUME LedgerInv, NEW j
  PROVE  /\ born \in Nat /\ born <= MaxJobs
         /\ j \in 1..born => j \in Jobs /\ reader[j] # "unborn" /\ keyOf[j] \in Keys
         /\ j \in Jobs /\ reader[j] # "unborn" => j \in 1..born
<1>1. born \in Nat /\ born <= MaxJobs /\ MaxJobs \in Nat
  BY ConstantsAre DEF LedgerInv, TypeInv, TypeOK, Constants
<1>2. j \in 1..born => j \in Jobs
  BY <1>1 DEF Jobs
<1>3. j \in Jobs => (reader[j] = "unborn" <=> j > born) /\ keyOf[j] \in Keys
  BY DEF LedgerInv, JobSound, TypeInv, TypeOK
<1> QED
  BY <1>1, <1>2, <1>3 DEF Jobs

LEMMA ReaderCareful ==
  ASSUME LedgerInv, CarefulInv, NEW j \in Jobs, Reader(j)
  PROVE  CarefulInv'
<1> USE DEF CarefulInv
<1>1. /\ exitCode \in [Jobs -> CodeOrNone] /\ report \in [Jobs -> CodeOrNone]
      /\ reader \in [Jobs -> {"unborn", "unstarted", "truncate", "recv", "look", "status",
                              "report", "record", "finish", "dead"}]
      /\ buf \in [Jobs -> Nat] /\ appended \in [Jobs -> Nat]
      /\ keyOf \in [Jobs -> Keys] /\ file \in [Keys -> Seq(Jobs)]
  BY DEF LedgerInv, TypeInv, TypeOK
<1>2. /\ reader[j] \notin {"unborn", "unstarted", "dead"}
      /\ UNCHANGED <<keyOf, callerVars>>
      /\ \E to \in {"recv", "look", "status", "report", "record", "finish", "dead"} :
           /\ reader' = [reader EXCEPT ![j] = to]
           /\ to \in {"recv", "look", "status"} => /\ report' = report
                                                   /\ reader[j] \notin {"report", "record"}
                                                   /\ reader[j] \notin Settled
           /\ to \in {"look", "status"} => reader[j] # "truncate"
           /\ reader[j] = "truncate" /\ to = "recv" => /\ appended' = appended
                                    /\ file' = [file EXCEPT ![keyOf[j]] = <<>>]
  BY <1>1 DEF Reader, ReaderWorks, Truncate, Receive, Look, Harvest, GoRound, ReaderPauses, ReaderRaises,
         ReportCheck, Record, FinishJob, Goto, readerOnly, Settled
<1>3. j \in 1..born /\ Latest(j)
  BY <1>2, BornJobs DEF OlderDead
<1>4. \A i : Latest(i)' <=> Latest(i)
  BY <1>2 DEF Latest, callerVars
<1>5. \A i \in Jobs \ {j} : reader'[i] = reader[i]
  BY <1>1, <1>2
<1>6. OlderDead' /\ BeingStarted' /\ RegistryLatest' /\ CollectsLatest'
  <2>1. OlderDead'
    BY <1>2, <1>3, <1>4, <1>5, BornJobs DEF OlderDead, callerVars
  <2>2. BeingStarted'
    BY <1>1, <1>2, <1>5, BornJobs DEF BeingStarted, Starts, callerVars
  <2>3. RegistryLatest' /\ CollectsLatest'
    BY <1>2, <1>4 DEF RegistryLatest, CollectsLatest, Collects, callerVars
  <2> QED
    BY <2>1, <2>2, <2>3
<1>7. /\ \A i \in Jobs \ {j} : /\ report'[i] = report[i] /\ exitCode'[i] = exitCode[i]
                               /\ appended'[i] = appended[i]
      /\ report'[j] # report[j] => reader[j] = "status"
      /\ exitCode'[j] # exitCode[j] => reader[j] = "record" /\ exitCode'[j] = report[j]
      /\ appended'[j] # appended[j] => reader[j] = "recv"
  BY <1>1 DEF Reader, ReaderWorks, Truncate, Receive, Look, Harvest, GoRound, ReaderPauses, ReaderRaises,
         ReportCheck, Record, FinishJob, Goto
<1>8. ReaderFresh'
  BY <1>1, <1>2, <1>5, <1>7 DEF ReaderFresh, Settled
<1>9. FileWhole'
  <2>1. ASSUME NEW i \in 1..born, Latest(i), i # j
        PROVE  keyOf[i] # keyOf[j]
    <3>1. keyOf[i] = keyOf[j] => i <= j /\ j <= i
      BY <1>3, <2>1 DEF Latest
    <3>2. i \in Nat /\ j \in Nat
      BY <1>3, BornJobs
    <3> QED
      BY <2>1, <3>1, <3>2
  <2>2. \A k \in Keys \ {keyOf[j]} : file'[k] = file[k]
    BY <1>1 DEF Reader, ReaderWorks, Truncate, Receive, Look, Harvest, GoRound, ReaderPauses, ReaderRaises,
         ReportCheck, Record, FinishJob
  <2>3. ASSUME NEW i \in 1..born, Latest(i), Filed(i)', i # j
        PROVE  file'[keyOf[i]] = Units(i)'
    <3>1. i \in Jobs /\ keyOf[i] \in Keys \ {keyOf[j]}
      BY <2>1, <2>3, BornJobs
    <3>2. Filed(i) /\ Units(i)' = Units(i)
      BY <1>5, <1>7, <2>3, <3>1 DEF Filed, Units
    <3> QED
      BY <2>2, <2>3, <3>1, <3>2 DEF FileWhole
  <2>4. ASSUME Filed(j)'
        PROVE  file'[keyOf[j]] = Units(j)'
    <3>1. CASE Truncate(j)
      <4>1. reader[j] = "truncate" /\ appended' = appended /\ file'[keyOf[j]] = <<>>
        BY <1>1, <3>1 DEF Truncate, Goto
      <4>2. appended'[j] = 0
        BY <4>1 DEF ReaderFresh
      <4> QED
        BY <4>1, <4>2 DEF Units
    <3>2. CASE Receive(j)
      <4>1. file[keyOf[j]] = Units(j)
        BY <1>3, <3>2 DEF Receive, Goto, FileWhole, Filed
      <4>2. /\ file'[keyOf[j]] = Units(j) \o [i \in 1..buf[j] |-> j]
            /\ appended'[j] = appended[j] + buf[j]
        BY <1>1, <3>2, <4>1 DEF Receive
      <4>3. appended[j] \in Nat /\ buf[j] \in Nat
        BY <1>1
      <4> QED
        BY <4>2, <4>3, MoreUnits DEF Units
    <3>3. CASE ~Truncate(j) /\ ~Receive(j)
      <4>1. /\ appended' = appended /\ file' = file
            /\ reader[j] = "truncate" => reader'[j] = "report" /\ report' = report
                                         /\ exitCode' = exitCode
        BY <1>1, <3>3 DEF Reader, ReaderWorks, Look, Harvest, GoRound, ReaderPauses, ReaderRaises,
         ReportCheck, Record, FinishJob, Goto
      <4>2. reader[j] # "truncate"
        <5>1. reader[j] = "truncate" => report[j] = NoCode /\ exitCode[j] = NoCode
          BY DEF ReaderFresh, LedgerInv, JobSound, Settled
        <5> QED
          BY <2>4, <4>1, <5>1 DEF Filed
      <4>3. Filed(j)
        <5>1. reader[j] \in {"report", "record", "finish"} =>
                reader'[j] \notin {"recv", "look", "status"}
          BY <1>1, <1>2 DEF Settled
        <5> QED
          BY <1>1, <1>2, <1>7, <2>4, <4>2, <5>1 DEF Filed
      <4> QED
        BY <1>3, <4>1, <4>3 DEF FileWhole, Units
    <3> QED
      BY <3>1, <3>2, <3>3
  <2> QED
    BY <1>2, <1>4, <2>3, <2>4 DEF FileWhole, callerVars
<1>10. AnswersWhole'
  <2>1. ASSUME NEW i \in Jobs, exitCode[i] # NoCode
        PROVE  exitCode'[i] = exitCode[i] /\ Units(i)' = Units(i)
    <3>1. reader[i] \in Settled
      BY <2>1 DEF LedgerInv, JobSound
    <3> QED
      BY <1>7, <3>1 DEF Units, Settled
  <2>2. \A c \in Callers : outcome[c].job # None => outcome[c].job \in Jobs
    BY DEF LedgerInv, TypeInv, TypeOK, JobOrNone
  <2> QED
    BY <1>2, <2>1, <2>2 DEF AnswersWhole, callerVars
<1> QED
  BY <1>6, <1>8, <1>9, <1>10

\* A step that touches neither jobs, readers, files and registry nor a start.
LEMMA SameCareful ==
  ASSUME CarefulInv, UNCHANGED <<keyOf, exitCode, readerVars, registry, born>>,
         \A c \in Callers : Starts(c) => call'[c] = call[c] /\ callJob'[c] = callJob[c],
         CollectsLatest', AnswersWhole'
  PROVE  CarefulInv'
<1> USE DEF CarefulInv, readerVars
<1>1. \A i : Latest(i)' <=> Latest(i)
  BY DEF Latest
<1>2. OlderDead' /\ BeingStarted' /\ ReaderFresh' /\ FileWhole'
  BY <1>1 DEF OlderDead, BeingStarted, ReaderFresh, FileWhole, Filed, Units, Starts
<1>3. RegistryLatest'
  BY DEF RegistryLatest, Starts
<1> QED
  BY <1>2, <1>3

\* Answers that are kept or reset stay whole.
LEMMA SameAnswers ==
  ASSUME CarefulInv, UNCHANGED <<exitCode, appended>>,
         \A c \in Callers : outcome'[c] = outcome[c] \/ outcome'[c] = NoOutcome
  PROVE  AnswersWhole'
BY DEF CarefulInv, AnswersWhole, Units, NoOutcome

LEMMA RemoteCareful ==
  ASSUME CarefulInv, NEW j \in Jobs, Remote(j)
  PROVE  CarefulInv'
<1>1. UNCHANGED <<jobVars, readerVars, callerVars>>
  BY DEF Remote, RemoteWrite, RemoteExit, RemoteKilled
<1> USE <1>1 DEF jobVars, readerVars, callerVars
<1>2. CollectsLatest' /\ AnswersWhole'
  BY SameAnswers DEF CarefulInv, CollectsLatest, Collects, Latest
<1> QED
  BY <1>2, SameCareful

LEMMA CloseCareful ==
  ASSUME LedgerInv, CarefulInv, NEW c \in Callers,
         CloseBegin(c) \/ CloseJob(c) \/ CloseJoined(c) \/ CloseRaises(c) \/ CloseClient(c)
  PROVE  CarefulInv'
<1>1. /\ call \in [Callers -> {"idle", "register", "spawn", "check", "wait", "giveUp",
                               "hangUp", "verdict", "read", "close", "join"}]
      /\ callJob \in [Callers -> JobOrNone]
      /\ outcome \in [Callers -> [job : JobOrNone, code : CodeOrNone, text : Seq(Jobs)]]
  BY DEF LedgerInv, TypeInv, TypeOK
<1>2. /\ UNCHANGED <<keyOf, exitCode, readerVars, registry, born>>
      /\ ~Starts(c) /\ call'[c] \in {"idle", "close", "join"}
      /\ \A d \in Callers \ {c} : call'[d] = call[d] /\ callJob'[d] = callJob[d]
      /\ \A d \in Callers : outcome'[d] = outcome[d] \/ outcome'[d] = NoOutcome
  BY <1>1 DEF CloseBegin, CloseJob, CloseJoined, CloseRaises, CloseClient, Step, closeOnly,
     Starts
<1>3. CollectsLatest'
  BY <1>2 DEF CarefulInv, CollectsLatest, Collects, Latest
<1>4. AnswersWhole'
  BY <1>2, SameAnswers DEF readerVars
<1>5. \A d \in Callers : Starts(d) => call'[d] = call[d] /\ callJob'[d] = callJob[d]
  BY <1>2
<1> QED
  BY <1>2, <1>3, <1>4, <1>5, SameCareful

LEMMA CollectCareful ==
  ASSUME Discipline = "careful", LedgerInv, CarefulInv, NEW c \in Callers,
         \/ \E k \in Keys : CollectFind(c, k)
         \/ CollectCheck(c) \/ CollectWoken(c) \/ CollectTimesOut(c) \/ GiveUp(c) \/ HangUp(c)
         \/ VerdictRaises(c) \/ VerdictPasses(c) \/ CollectReturns(c)
  PROVE  CarefulInv'
<1>1. /\ call \in [Callers -> {"idle", "register", "spawn", "check", "wait", "giveUp",
                               "hangUp", "verdict", "read", "close", "join"}]
      /\ callJob \in [Callers -> JobOrNone] /\ registry \in [Keys -> JobOrNone]
      /\ outcome \in [Callers -> [job : JobOrNone, code : CodeOrNone, text : Seq(Jobs)]]
  BY DEF LedgerInv, TypeInv, TypeOK
<1>2. /\ UNCHANGED <<keyOf, exitCode, readerVars, registry, born>>
      /\ ~Starts(c)
      /\ \A d \in Callers \ {c} : call'[d] = call[d] /\ callJob'[d] = callJob[d]
      /\ \/ call'[c] = "idle" \/ (Collects(c) /\ callJob'[c] = callJob[c])
         \/ \E k \in Keys : CollectFind(c, k)
  BY <1>1 DEF CollectFind, CollectCheck, CollectWoken, CollectTimesOut, GiveUp, HangUp,
     VerdictRaises, VerdictPasses, CollectReturns, CollectEnds, Step, collectOnly, Starts, Collects
<1>3. \A i : Latest(i)' <=> Latest(i)
  BY <1>2 DEF Latest
<1>4. ASSUME NEW k \in Keys, CollectFind(c, k)
      PROVE  Latest(callJob'[c])
  <2>1. /\ callJob'[c] = registry[k] /\ registry[k] # None /\ keyOf[registry[k]] = k
        /\ \A d \in Callers : ~Starting(d, k)
    BY <1>1, <1>4 DEF CollectFind, MayCollect, CarefulInv, RegistryLatest
  <2>2. ASSUME NEW i \in 1..born, keyOf[i] = k
        PROVE  registry[k] >= i
    BY <2>1, <2>2 DEF CarefulInv, RegistryLatest, Starting
  <2> QED
    BY <2>1, <2>2 DEF Latest
<1>5. CollectsLatest'
  BY <1>2, <1>3, <1>4 DEF CarefulInv, CollectsLatest, Collects
<1>6. CASE CollectReturns(c)
  <2>0. PICK j : j = callJob[c]
    OBVIOUS
  <2>1. /\ outcome' = [outcome EXCEPT ![c] =
                         [job |-> j, code |-> exitCode[j], text |-> file[keyOf[j]]]]
        /\ call[c] = "read"
    BY <1>6, <2>0 DEF CollectReturns, Step
  <2>2. exitCode[j] # NoCode /\ Latest(j) /\ j \in 1..born
    BY <2>0, <2>1, JobOfCall DEF LedgerInv, CallSound, CarefulInv, CollectsLatest, Collects
  <2>3. file[keyOf[j]] = Units(j)
    BY <2>2 DEF CarefulInv, FileWhole, Filed
  <2>4. outcome'[c].job = j /\ outcome'[c].text = Units(j)
    BY <1>1, <2>1, <2>3
  <2>5. \A d \in Callers \ {c} : outcome'[d] = outcome[d]
    BY <2>1
  <2>6. \A i : Units(i)' = Units(i)
    BY <1>2 DEF Units, readerVars
  <2>7. ASSUME NEW d \in Callers, outcome'[d].job # None
        PROVE  /\ exitCode'[outcome'[d].job] # NoCode
               /\ outcome'[d].text = Units(outcome[d].job)'
    <3>1. CASE d = c
      BY <1>2, <2>2, <2>4, <2>6, <3>1 DEF Units, readerVars
    <3>2. CASE d # c
      BY <1>2, <2>5, <2>7, <3>2 DEF CarefulInv, AnswersWhole, Units, readerVars
    <3> QED
      BY <3>1, <3>2
  <2>8. AnswersWhole'
    BY <2>7 DEF AnswersWhole
  <2> QED
    BY <1>2, <1>5, <2>8, SameCareful
<1>7. CASE ~CollectReturns(c)
  <2>1. \A d \in Callers : outcome'[d] = outcome[d] \/ outcome'[d] = NoOutcome
    BY <1>1, <1>7 DEF CollectFind, CollectCheck, CollectWoken, CollectTimesOut, GiveUp, HangUp,
       VerdictRaises, VerdictPasses
  <2>2. AnswersWhole'
    BY <1>2, <2>1, SameAnswers DEF readerVars
  <2> QED
    BY <1>2, <1>5, <2>2, SameCareful
<1> QED
  BY <1>6, <1>7

LEMMA StartCareful ==
  ASSUME Discipline = "careful", LedgerInv, CarefulInv, NEW c \in Callers,
         (\E k \in Keys : StartExec(c, k)) \/ StartRegister(c) \/ StartThread(c)
  PROVE  CarefulInv'
<1> USE DEF CarefulInv
<1>1. /\ call \in [Callers -> {"idle", "register", "spawn", "check", "wait", "giveUp",
                               "hangUp", "verdict", "read", "close", "join"}]
      /\ callJob \in [Callers -> JobOrNone] /\ registry \in [Keys -> JobOrNone]
      /\ reader \in [Jobs -> {"unborn", "unstarted", "truncate", "recv", "look", "status",
                              "report", "record", "finish", "dead"}]
      /\ keyOf \in [Jobs -> Keys]
      /\ outcome \in [Callers -> [job : JobOrNone, code : CodeOrNone, text : Seq(Jobs)]]
  BY DEF LedgerInv, TypeInv, TypeOK
<1>2. ASSUME NEW d \in Callers, call[d] \notin {"idle", "close"}
      PROVE  callJob[d] \in 1..born /\ callJob[d] \in Jobs
  BY <1>2, JobOfCall DEF LedgerInv
<1>3. born \in Nat /\ born <= MaxJobs
  BY BornJobs
<1>4. ASSUME NEW k \in Keys, StartExec(c, k)
      PROVE  CarefulInv'
  <2>0. PICK j : j = born + 1
    OBVIOUS
  <2>1. /\ born' = j /\ keyOf' = [keyOf EXCEPT ![j] = k]
        /\ reader' = [reader EXCEPT ![j] = "unstarted"]
        /\ call' = [call EXCEPT ![c] = "register"] /\ call[c] = "idle"
        /\ callJob' = [callJob EXCEPT ![c] = j]
        /\ outcome' = [outcome EXCEPT ![c] = NoOutcome]
        /\ UNCHANGED <<exitCode, report, appended, file, registry>>
        /\ \A d \in Callers : ~Starting(d, k) /\ ~Collecting(d, k)
        /\ \A i \in Jobs : keyOf[i] = k => ~Alive(i)
    BY <1>4, <2>0 DEF StartExec, MayStart
  <2>2. j \in Jobs /\ reader[j] = "unborn" /\ j \notin 1..born /\ 1..j = 1..born \cup {j}
    <3>1. j \in Jobs /\ j > born
      BY <1>3, <1>4, <2>0, JobsAssumption DEF StartExec, Jobs
    <3> QED
      BY <1>3, <2>0, <3>1 DEF LedgerInv, JobSound
  <2>3. \A i \in 1..born : i <= j
    BY <1>3, <2>0
  <2>4. \A i \in 1..born : i \in Jobs /\ i # j /\ keyOf'[i] = keyOf[i] /\ reader'[i] = reader[i]
    BY <1>1, <2>1, <2>2, BornJobs
  <2>5. keyOf'[j] = k /\ reader'[j] = "unstarted" /\ j <= j
    BY <1>1, <1>3, <2>0, <2>1, <2>2
  <2>6. \A d \in Callers \ {c} : call'[d] = call[d] /\ callJob'[d] = callJob[d]
    BY <1>1, <2>1
  <2>7. call'[c] = "register" /\ callJob'[c] = j
    BY <1>1, <2>1
  <2>8. Latest(j)'
    BY <2>1, <2>2, <2>3, <2>5 DEF Latest
  <2>9. ASSUME NEW i \in 1..born, keyOf[i] # k
        PROVE  Latest(i)' <=> Latest(i)
    BY <2>1, <2>2, <2>4, <2>5, <2>9 DEF Latest
  <2>10. ASSUME NEW i \in 1..born, keyOf[i] = k
         PROVE  reader[i] = "dead"
    <3>1. i \in Jobs /\ reader[i] # "unborn" /\ ~Alive(i)
      BY <2>1, <2>10, BornJobs
    <3>2. reader[i] # "unstarted"
      BY <2>1, <2>10 DEF BeingStarted, Starts, Starting
    <3> QED
      BY <1>1, <3>1, <3>2 DEF Alive
  <2>11. OlderDead'
    BY <2>1, <2>2, <2>4, <2>8, <2>9, <2>10 DEF OlderDead
  <2>12. BeingStarted'
    <3>1. ASSUME NEW i \in 1..born, reader[i] = "unstarted"
          PROVE  \E d \in Callers : Starts(d)' /\ callJob'[d] = i
      <4>1. PICK d \in Callers : Starts(d) /\ callJob[d] = i
        BY <3>1 DEF BeingStarted
      <4> QED
        BY <2>1, <2>6, <4>1 DEF Starts
    <3>2. Starts(c)' /\ callJob'[c] = j
      BY <2>7 DEF Starts
    <3> QED
      BY <2>1, <2>2, <2>4, <3>1, <3>2 DEF BeingStarted
  <2>13. RegistryLatest'
    <3>1. ASSUME NEW i \in 1..born
          PROVE  registry'[keyOf'[i]] >= i \/ \E d \in Callers : call'[d] = "register" /\ callJob'[d] = i
      <4>1. registry[keyOf[i]] >= i \/ \E d \in Callers : call[d] = "register" /\ callJob[d] = i
        BY DEF RegistryLatest
      <4>2. \A d \in Callers : call[d] = "register" => d # c
        BY <2>1
      <4> QED
        BY <2>1, <2>4, <2>6, <4>1, <4>2
    <3>2. ASSUME NEW l \in Keys, registry'[l] # None
          PROVE  keyOf'[registry'[l]] = l
      <4>1. registry[l] \in 1..born /\ keyOf[registry[l]] = l /\ registry' = registry
        BY <2>1, <3>2 DEF LedgerInv, TypeInv, RegistryOfBorn, RegistryLatest
      <4> QED
        BY <2>4, <4>1
    <3> QED
      BY <2>1, <2>2, <2>7, <3>1, <3>2 DEF RegistryLatest
  <2>14. CollectsLatest'
    <3>1. ASSUME NEW d \in Callers, Collects(d)'
          PROVE  Latest(callJob[d])'
      <4>1. d # c
        BY <2>7, <3>1 DEF Collects
      <4>2. Collects(d) /\ callJob'[d] = callJob[d]
        BY <2>6, <3>1, <4>1 DEF Collects
      <4>3. callJob[d] \in 1..born /\ Latest(callJob[d])
        BY <1>2, <4>2 DEF Collects, CollectsLatest
      <4>4. keyOf[callJob[d]] # k
        BY <2>1, <4>2 DEF Collects, Collecting
      <4> QED
        BY <2>9, <4>2, <4>3, <4>4
    <3> QED
      BY <3>1 DEF CollectsLatest
  <2>15. ReaderFresh'
    <3>1. \A i \in Jobs \ {j} : reader'[i] = reader[i]
      BY <1>1, <2>1
    <3> QED
      BY <2>1, <2>2, <2>5, <3>1 DEF ReaderFresh, Settled
  <2>16. FileWhole'
    <3>1. ~Filed(j)'
      <4>1. report[j] = NoCode /\ exitCode[j] = NoCode
        BY <2>2 DEF ReaderFresh, LedgerInv, JobSound, Settled
      <4> QED
        BY <2>1, <2>5, <4>1 DEF Filed
    <3>2. ASSUME NEW i \in 1..born, Latest(i)', Filed(i)'
          PROVE  file'[keyOf'[i]] = Units(i)'
      <4>1. Latest(i) /\ Filed(i)
        BY <2>1, <2>2, <2>4, <3>2 DEF Latest, Filed
      <4> QED
        BY <2>1, <2>4, <4>1 DEF FileWhole, Units
    <3> QED
      BY <2>1, <2>2, <3>1, <3>2 DEF FileWhole
  <2>17. AnswersWhole'
    BY <1>1, <2>1, SameAnswers
  <2> QED
    BY <2>11, <2>12, <2>13, <2>14, <2>15, <2>16, <2>17
<1>5. CASE StartRegister(c)
  <2> DEFINE j == callJob[c]
  <2>1. /\ call[c] = "register" /\ call' = [call EXCEPT ![c] = "spawn"]
        /\ registry' = [registry EXCEPT ![keyOf[j]] = j]
        /\ UNCHANGED <<keyOf, exitCode, readerVars, born, callJob, outcome>>
    BY <1>5 DEF StartRegister, jobVars
  <2>2. j \in 1..born /\ j \in Jobs /\ keyOf[j] \in Keys /\ Latest(j)
    <3>1. j \in 1..born /\ j \in Jobs /\ keyOf[j] \in Keys
      BY <1>2, <2>1, BornJobs
    <3>2. reader[j] = "unstarted"
      BY <2>1 DEF LedgerInv, CallSound, Starts
    <3> QED
      BY <3>1, <3>2 DEF OlderDead
  <2> HIDE DEF j
  <2>3. \A d \in Callers \ {c} : call'[d] = call[d]
    BY <2>1
  <2>4. \A i : Latest(i)' <=> Latest(i)
    BY <2>1 DEF Latest
  <2>5. \A d \in Callers : (Starts(d)' <=> Starts(d)) /\ (Collects(d)' <=> Collects(d))
    BY <1>1, <2>1, <2>3 DEF Starts, Collects
  <2>6. OlderDead' /\ BeingStarted' /\ CollectsLatest' /\ ReaderFresh' /\ FileWhole'
    BY <2>1, <2>4, <2>5 DEF OlderDead, BeingStarted, CollectsLatest, ReaderFresh, FileWhole,
       readerVars, Filed, Units
  <2>7. RegistryLatest'
    <3>1. ASSUME NEW i \in 1..born
          PROVE  \/ registry'[keyOf[i]] >= i
                 \/ \E d \in Callers : call'[d] = "register" /\ callJob[d] = i
      <4>1. CASE keyOf[i] = keyOf[j]
        BY <1>1, <2>1, <2>2, <4>1 DEF Latest
      <4>2. CASE keyOf[i] # keyOf[j]
        <5>1. registry'[keyOf[i]] = registry[keyOf[i]] /\ i # j
          BY <1>1, <2>1, <4>2, BornJobs
        <5>2. registry[keyOf[i]] >= i \/ \E d \in Callers : call[d] = "register" /\ callJob[d] = i
          BY DEF RegistryLatest
        <5> QED
          BY <2>3, <5>1, <5>2 DEF j
      <4> QED
        BY <4>1, <4>2
    <3>2. ASSUME NEW l \in Keys, registry'[l] # None
          PROVE  keyOf[registry'[l]] = l
      BY <1>1, <2>1, <2>2, <3>2 DEF RegistryLatest
    <3> QED
      BY <2>1, <3>1, <3>2 DEF RegistryLatest
  <2>8. AnswersWhole'
    BY <2>1, SameAnswers DEF readerVars
  <2> QED
    BY <2>6, <2>7, <2>8
<1>6. CASE StartThread(c)
  <2> DEFINE j == callJob[c]
  <2>1. /\ call[c] = "spawn" /\ call' = [call EXCEPT ![c] = "idle"]
        /\ reader' = [reader EXCEPT ![j] = "truncate"]
        /\ callJob' = [callJob EXCEPT ![c] = None]
        /\ UNCHANGED <<keyOf, exitCode, report, appended, file, registry, born, outcome>>
    BY <1>6 DEF StartThread, jobVars
  <2>2. j \in 1..born /\ j \in Jobs /\ reader[j] = "unstarted"
    BY <1>2, <2>1 DEF LedgerInv, CallSound, Starts
  <2>3. \A d \in Callers \ {c} : call'[d] = call[d] /\ callJob'[d] = callJob[d]
    BY <1>1, <2>1
  <2>4. call'[c] = "idle"
    BY <1>1, <2>1
  <2> HIDE DEF j
  <2>5. \A i : Latest(i)' <=> Latest(i)
    BY <2>1 DEF Latest
  <2>6. reader'[j] = "truncate" /\ \A i \in Jobs \ {j} : reader'[i] = reader[i]
    BY <1>1, <2>1, <2>2
  <2>7. OlderDead'
    BY <2>1, <2>2, <2>5, <2>6, BornJobs DEF OlderDead
  <2>8. BeingStarted'
    <3>1. ASSUME NEW i \in 1..born, reader'[i] = "unstarted"
          PROVE  \E d \in Callers : Starts(d)' /\ callJob'[d] = i
      <4>1. i \in Jobs /\ i # j /\ reader[i] = "unstarted"
        BY <2>6, <3>1, BornJobs
      <4>2. PICK d \in Callers : Starts(d) /\ callJob[d] = i
        BY <4>1 DEF BeingStarted
      <4>3. d # c
        BY <4>1, <4>2 DEF j
      <4> QED
        BY <2>3, <4>2, <4>3 DEF Starts
    <3> QED
      BY <2>1, <3>1 DEF BeingStarted
  <2>9. RegistryLatest'
    <3>1. \A d \in Callers : call[d] = "register" => d # c
      BY <2>1
    <3> QED
      BY <2>1, <2>3, <3>1 DEF RegistryLatest
  <2>10. CollectsLatest'
    BY <2>3, <2>4, <2>5 DEF CollectsLatest, Collects
  <2>11. ReaderFresh'
    BY <2>1, <2>2, <2>6 DEF ReaderFresh, Settled
  <2>12. FileWhole'
    <3>1. ASSUME NEW i \in 1..born, Filed(i)'
          PROVE  Filed(i)
      <4>1. i \in Jobs
        BY BornJobs
      <4> QED
        BY <2>1, <2>6, <3>1, <4>1 DEF Filed
    <3> QED
      BY <2>1, <2>5, <3>1 DEF FileWhole, Units
  <2>13. AnswersWhole'
    BY <2>1, SameAnswers
  <2> QED
    BY <2>7, <2>8, <2>9, <2>10, <2>11, <2>12, <2>13
<1> QED
  BY <1>4, <1>5, <1>6

LEMMA CarefulInit == Init => CarefulInv
<1> SUFFICES ASSUME Init PROVE CarefulInv
  OBVIOUS
<1>1. 1..born = {} /\ \A c \in Callers : call[c] = "idle" /\ outcome[c].job = None
  BY DEF Init, NoOutcome
<1>2. OlderDead /\ BeingStarted /\ CollectsLatest /\ FileWhole /\ AnswersWhole
  BY <1>1 DEF OlderDead, BeingStarted, CollectsLatest, Collects, FileWhole, AnswersWhole
<1>3. RegistryLatest
  BY <1>1 DEF RegistryLatest, Init
<1>4. ReaderFresh
  BY DEF ReaderFresh, Init, Settled
<1> QED
  BY <1>2, <1>3, <1>4 DEF CarefulInv

LEMMA CarefulStep ==
  ASSUME Discipline = "careful", LedgerInv, CarefulInv, [Next]_vars
  PROVE  CarefulInv'
<1>1. ASSUME NEW c \in Callers, Call(c)
      PROVE  CarefulInv'
  BY <1>1, StartCareful, CollectCareful, CloseCareful DEF Call, CallInProgress
<1>2. ASSUME NEW j \in Jobs, Reader(j) \/ Remote(j)
      PROVE  CarefulInv'
  BY <1>2, ReaderCareful, RemoteCareful
<1>3. CASE UNCHANGED vars
  <2> USE <1>3 DEF vars, jobVars, readerVars, callerVars
  <2>1. CollectsLatest' /\ AnswersWhole'
    BY SameAnswers DEF CarefulInv, CollectsLatest, Collects, Latest
  <2> QED
    BY <2>1, SameCareful
<1> QED
  BY <1>1, <1>2, <1>3 DEF Next

\* Callers that start a key again only after its last reader has ended, and
\* let no call that uses the key overlap with a start of it, get from each
\* collect exactly what its own job's reader appended, no more and no less.
THEOREM CarefulOwnOutput ==
  ASSUME Discipline = "careful"
  PROVE  Spec => []OwnOutput
<1>1. LedgerInv /\ CarefulInv /\ [Next]_vars => CarefulInv'
  BY CarefulStep
<1>2. CarefulInv => OwnOutput
  BY DEF CarefulInv, AnswersWhole, OwnOutput, Units
<1> QED
  BY <1>1, <1>2, CarefulInit, LedgerInvariant, PTL DEF Spec
=============================================================================
