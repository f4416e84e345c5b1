------------------------------ MODULE SshJobs ------------------------------
(***************************************************************************)
(* Background commands of one SSHClientWrapper: start, collect and close,  *)
(* and the reader thread of each job.  A job's reader appends what arrives *)
(* to the artifact file named after the job's key and then reports through *)
(* on_complete or on_error, while a collect may be giving the job up and a *)
(* close may be tearing it down.  stdout's file stands for both files: the *)
(* reader treats them alike.                                               *)
(*                                                                         *)
(* The remote command and paramiko's Channel are external: output arrives  *)
(* at any time, exit status, EOF and close arrive together after the last  *)
(* output, a command that a signal kills sends no status, and a channel    *)
(* closed without a status reports status -1.                              *)
(* SshExec has the reading loop and its two streams in full.               *)
(***************************************************************************)
EXTENDS Naturals, Integers, Sequences, FiniteSets

CONSTANTS Callers,    \* threads that call start, collect and close
          Keys,       \* background keys
          Codes,      \* exit codes of remote commands
          MaxJobs,    \* bound: start calls over the run
          MaxUnits,   \* bound: units of output per command
          Discipline  \* how callers use keys: "any", "paired" or "careful"

ASSUME JobsAssumption ==
  /\ Keys # {} /\ Codes \subseteq Nat /\ MaxJobs \in Nat /\ MaxUnits \in Nat
  /\ Discipline \in {"any", "paired", "careful"}

Jobs == 1..MaxJobs
None == 0
NoCode == -2        \* job.exit_code is None
NoStatus == -1      \* what recv_exit_status returns without a status

VARIABLES
  open,       \* self._client is not None
  registry,   \* self._jobs: the job of each key, or None
  born,       \* jobs made so far
  keyOf,      \* BackgroundJob.key
  exitCode, error, abandoned, doneEvt,   \* the other fields of BackgroundJob
  reader,     \* where each job's reader thread is
  pending,    \* its local variables stdout_pending and stderr_pending
  report,     \* the status it is about to report; NoCode stands for an error
  made,       \* units the remote command has written
  buf,        \* units in the channel's buffer
  status,     \* exit status that arrived, or NoStatus
  closed,     \* the channel is closed
  cutOff,     \* history: collect closed the channel before a status arrived
  appended,   \* history: units the reader appended
  file,       \* per key, the file's content: each unit names its job
  call,       \* where each caller is
  callJob,    \* the job of that call
  toClose,    \* jobs left in close's loop
  outcome,    \* what each caller's last call, a collect, returned
  collected   \* history: a collect of the job has ended

jobVars     == <<keyOf, exitCode, error, abandoned, doneEvt>>
readerVars  == <<reader, pending, report, appended, file>>
channelVars == <<made, buf, status, closed, cutOff>>
callerVars  == <<open, registry, born, call, callJob, toClose, outcome, collected>>
vars == <<jobVars, readerVars, channelVars, callerVars>>

NoOutcome == [job |-> None, code |-> NoCode, text |-> <<>>]

Init ==
  /\ open = TRUE /\ born = 0
  /\ registry = [k \in Keys |-> None]
  /\ keyOf = [j \in Jobs |-> CHOOSE k \in Keys : TRUE]
  /\ exitCode = [j \in Jobs |-> NoCode] /\ error = [j \in Jobs |-> FALSE]
  /\ abandoned = [j \in Jobs |-> FALSE] /\ doneEvt = [j \in Jobs |-> FALSE]
  /\ reader = [j \in Jobs |-> "unborn"] /\ pending = [j \in Jobs |-> FALSE]
  /\ report = [j \in Jobs |-> NoCode]
  /\ made = [j \in Jobs |-> 0] /\ buf = [j \in Jobs |-> 0]
  /\ status = [j \in Jobs |-> NoStatus] /\ closed = [j \in Jobs |-> FALSE]
  /\ cutOff = [j \in Jobs |-> FALSE] /\ appended = [j \in Jobs |-> 0]
  /\ file = [k \in Keys |-> <<>>]
  /\ call = [c \in Callers |-> "idle"] /\ callJob = [c \in Callers |-> None]
  /\ toClose = [c \in Callers |-> {}]
  /\ outcome = [c \in Callers |-> NoOutcome]
  /\ collected = [j \in Jobs |-> FALSE]

Alive(j) == reader[j] \notin {"unborn", "unstarted", "dead"}

-----------------------------------------------------------------------------
(* The remote command and the channel *)

Running(j) == reader[j] # "unborn" /\ ~closed[j]

RemoteWrite(j) ==
  /\ Running(j) /\ made[j] < MaxUnits
  /\ made' = [made EXCEPT ![j] = @ + 1]
  /\ buf' = [buf EXCEPT ![j] = @ + 1]
  /\ UNCHANGED <<jobVars, readerVars, status, closed, cutOff, callerVars>>

RemoteExit(j) ==
  /\ Running(j)
  /\ \E code \in Codes : status' = [status EXCEPT ![j] = code]
  /\ closed' = [closed EXCEPT ![j] = TRUE]
  /\ UNCHANGED <<jobVars, readerVars, made, buf, cutOff, callerVars>>

\* A signal kills the command: the channel closes without a status.
RemoteKilled(j) ==
  /\ Running(j)
  /\ closed' = [closed EXCEPT ![j] = TRUE]
  /\ UNCHANGED <<jobVars, readerVars, made, buf, status, cutOff, callerVars>>

Remote(j) == RemoteWrite(j) \/ RemoteExit(j) \/ RemoteKilled(j)

-----------------------------------------------------------------------------
(* start *)

Starting(c, k) == call[c] \in {"register", "spawn"} /\ keyOf[callJob[c]] = k
Collecting(c, k) == /\ call[c] \in {"check", "wait", "giveUp", "hangUp", "verdict", "read"}
                    /\ keyOf[callJob[c]] = k

\* What callers do, not what the code enforces.  "paired": a key is started
\* again only after a collect of its last job has ended.  "careful": moreover
\* after its last reader has ended, and calls that use one key do not overlap
\* with a start of it.
MayStart(k) ==
  /\ Discipline # "any" =>
       /\ registry[k] # None => collected[registry[k]]
       /\ \A c \in Callers : ~Starting(c, k)
  /\ Discipline = "careful" =>
       /\ \A j \in Jobs : keyOf[j] = k => ~Alive(j)
       /\ \A c \in Callers : ~Collecting(c, k)

MayCollect(k) == Discipline = "careful" => \A c \in Callers : ~Starting(c, k)

\* exec_command opens the channel; the job and its reader are made.
StartExec(c, k) ==
  LET j == born + 1 IN
  /\ call[c] = "idle" /\ open /\ born < MaxJobs /\ MayStart(k)
  /\ born' = j
  /\ keyOf' = [keyOf EXCEPT ![j] = k]
  /\ reader' = [reader EXCEPT ![j] = "unstarted"]
  /\ call' = [call EXCEPT ![c] = "register"]
  /\ callJob' = [callJob EXCEPT ![c] = j]
  /\ outcome' = [outcome EXCEPT ![c] = NoOutcome]
  /\ UNCHANGED <<exitCode, error, abandoned, doneEvt, pending, report, appended, file,
                 channelVars, open, registry, toClose, collected>>

StartRegister(c) ==
  /\ call[c] = "register"
  /\ registry' = [registry EXCEPT ![keyOf[callJob[c]]] = callJob[c]]
  /\ call' = [call EXCEPT ![c] = "spawn"]
  /\ UNCHANGED <<jobVars, readerVars, channelVars, open, born, callJob, toClose,
                 outcome, collected>>

StartThread(c) ==
  /\ call[c] = "spawn"
  /\ reader' = [reader EXCEPT ![callJob[c]] = "truncate"]
  /\ call' = [call EXCEPT ![c] = "idle"]
  /\ callJob' = [callJob EXCEPT ![c] = None]
  /\ UNCHANGED <<jobVars, pending, report, appended, file, channelVars, open,
                 registry, born, toClose, outcome, collected>>

-----------------------------------------------------------------------------
(* The reader thread *)

readerOnly == <<keyOf, abandoned, callerVars>>

Goto(j, from, to) == reader[j] = from /\ reader' = [reader EXCEPT ![j] = to]

\* Mutant of Truncate: the files are not emptied.
TruncateNothing(j) ==
  /\ Goto(j, "truncate", "recv")
  /\ UNCHANGED <<readerOnly, exitCode, error, doneEvt, pending, report, appended, file,
                 channelVars>>

\* write_bytes(b"") on both files
Truncate(j) ==
  /\ Goto(j, "truncate", "recv")
  /\ file' = [file EXCEPT ![keyOf[j]] = <<>>]
  /\ UNCHANGED <<readerOnly, exitCode, error, doneEvt, pending, report, appended,
                 channelVars>>

\* Mutant of Receive: the received units stay in the channel's buffer.
ReceiveAgain(j) ==
  LET n == buf[j] IN
  /\ Goto(j, "recv", "look")
  /\ file' = [file EXCEPT ![keyOf[j]] = @ \o [i \in 1..n |-> j]]
  /\ appended' = [appended EXCEPT ![j] = @ + n]
  /\ UNCHANGED <<readerOnly, exitCode, error, doneEvt, pending, report, channelVars>>

\* One turn of _pump_channel: receive and append what is there ...
Receive(j) ==
  LET n == buf[j] IN
  /\ Goto(j, "recv", "look")
  /\ buf' = [buf EXCEPT ![j] = 0]
  /\ file' = [file EXCEPT ![keyOf[j]] = @ \o [i \in 1..n |-> j]]
  /\ appended' = [appended EXCEPT ![j] = @ + n]
  /\ UNCHANGED <<readerOnly, exitCode, error, doneEvt, pending, report, made, status,
                 closed, cutOff>>

\* ... look for more ...
Look(j) ==
  /\ Goto(j, "look", "status")
  /\ pending' = [pending EXCEPT ![j] = buf[j] > 0]
  /\ UNCHANGED <<readerOnly, exitCode, error, doneEvt, report, appended, file,
                 channelVars>>

\* ... and finish with the status, or wait and go round again.
Harvest(j) ==
  /\ Goto(j, "status", "report") /\ closed[j] /\ ~pending[j]
  /\ report' = [report EXCEPT ![j] = status[j]]
  /\ UNCHANGED <<readerOnly, exitCode, error, doneEvt, pending, appended, file,
                 channelVars>>

GoRound(j) ==
  /\ Goto(j, "status", "recv")
  /\ ~closed[j] \/ pending[j]
  /\ buf[j] > 0 \/ closed[j]
  /\ UNCHANGED <<readerOnly, exitCode, error, doneEvt, pending, report, appended, file,
                 channelVars>>

\* The wait ends for nothing, neither data nor a timeout: select raises and a
\* short pause takes its place, or it wakes at an EOF that came on its own.
ReaderPauses(j) ==
  /\ Goto(j, "status", "recv") /\ ~closed[j] /\ buf[j] = 0
  /\ UNCHANGED <<readerOnly, exitCode, error, doneEvt, pending, report, appended, file,
                 channelVars>>

\* Mutant of ReaderRaises: the reader's channel has no timeout.
ReaderRaisesOnFile(j) ==
  /\ Goto(j, "truncate", "report") \/ Goto(j, "recv", "report")
  /\ UNCHANGED <<readerOnly, exitCode, error, doneEvt, pending, report, appended, file,
                 channelVars>>

\* A file cannot be written, or the channel's timeout elapses: on_error.
ReaderRaises(j) ==
  /\ \/ Goto(j, "truncate", "report") \/ Goto(j, "recv", "report")
     \/ (Goto(j, "status", "report") /\ ~closed[j] /\ buf[j] = 0)
  /\ UNCHANGED <<readerOnly, exitCode, error, doneEvt, pending, report, appended, file,
                 channelVars>>

\* Mutant of ReportCheck: the callbacks do not look at job.abandoned.
ReportUnchecked(j) ==
  /\ Goto(j, "report", "record")
  /\ UNCHANGED <<readerOnly, exitCode, error, doneEvt, pending, report, appended, file,
                 channelVars>>

\* on_complete and on_error: "if job.abandoned: return" ...
ReportCheck(j) ==
  /\ Goto(j, "report", IF abandoned[j] THEN "dead" ELSE "record")
  /\ UNCHANGED <<readerOnly, exitCode, error, doneEvt, pending, report, appended, file,
                 channelVars>>

Record(j) ==
  /\ Goto(j, "record", "finish")
  /\ exitCode' = [exitCode EXCEPT ![j] = report[j]]
  /\ error' = [error EXCEPT ![j] = (report[j] = NoCode)]
  /\ UNCHANGED <<readerOnly, doneEvt, pending, report, appended, file, channelVars>>

\* Mutant of FinishJob: the callback forgets done.set().
FinishSilently(j) ==
  /\ Goto(j, "finish", "dead")
  /\ UNCHANGED <<readerOnly, exitCode, error, doneEvt, pending, report, appended, file,
                 channelVars>>

FinishJob(j) ==
  /\ Goto(j, "finish", "dead")
  /\ doneEvt' = [doneEvt EXCEPT ![j] = TRUE]
  /\ UNCHANGED <<readerOnly, exitCode, error, pending, report, appended, file,
                 channelVars>>

ReaderWorks(j) ==
  \/ Truncate(j) \/ Receive(j) \/ Look(j) \/ Harvest(j) \/ GoRound(j)
  \/ ReaderRaises(j) \/ ReportCheck(j) \/ Record(j) \/ FinishJob(j)

Reader(j) == ReaderWorks(j) \/ ReaderPauses(j)

-----------------------------------------------------------------------------
(* collect *)

collectOnly == <<keyOf, exitCode, error, doneEvt, readerVars, open, registry, born,
                 toClose>>

Step(c, from, to) == call[c] = from /\ call' = [call EXCEPT ![c] = to]

\* The job is looked up under the lock; the KeyError of an unknown key
\* changes nothing and is left out.
CollectFind(c, k) ==
  /\ Step(c, "idle", "check") /\ registry[k] # None /\ MayCollect(k)
  /\ callJob' = [callJob EXCEPT ![c] = registry[k]]
  /\ outcome' = [outcome EXCEPT ![c] = NoOutcome]
  /\ UNCHANGED <<collectOnly, abandoned, channelVars, collected>>

CollectCheck(c) ==
  /\ Step(c, "check", IF abandoned[callJob[c]] THEN "giveUp" ELSE "wait")
  /\ UNCHANGED <<collectOnly, abandoned, channelVars, callJob, outcome, collected>>

CollectWoken(c) ==
  /\ Step(c, "wait", "verdict") /\ doneEvt[callJob[c]]
  /\ UNCHANGED <<collectOnly, abandoned, channelVars, callJob, outcome, collected>>

\* Mutant of CollectTimesOut: done.wait() without a timeout.
CollectWaitsForEver(c) == Step(c, "wait", "giveUp") /\ FALSE /\ UNCHANGED vars

CollectTimesOut(c) ==
  /\ Step(c, "wait", "giveUp") /\ ~doneEvt[callJob[c]]
  /\ UNCHANGED <<collectOnly, abandoned, channelVars, callJob, outcome, collected>>

\* job.abandoned = True, and only then channel.close().
GiveUp(c) ==
  /\ Step(c, "giveUp", "hangUp")
  /\ abandoned' = [abandoned EXCEPT ![callJob[c]] = TRUE]
  /\ UNCHANGED <<collectOnly, channelVars, callJob, outcome, collected>>

CollectEnds(c) ==
  /\ callJob' = [callJob EXCEPT ![c] = None]
  /\ collected' = [collected EXCEPT ![callJob[c]] = TRUE]

HangUp(c) ==
  LET j == callJob[c] IN
  /\ Step(c, "hangUp", "idle")                          \* raises TimeoutError
  /\ closed' = [closed EXCEPT ![j] = TRUE]
  /\ cutOff' = [cutOff EXCEPT ![j] = @ \/ ~closed[j]]
  /\ CollectEnds(c)
  /\ UNCHANGED <<collectOnly, abandoned, made, buf, status, outcome>>

\* A reader's error raises RuntimeError; a job that close marked done without
\* an exit code is given up with a TimeoutError.
VerdictRaises(c) ==
  LET j == callJob[c] IN
  /\ Step(c, "verdict", "idle")
  /\ error[j] \/ exitCode[j] = NoCode
  /\ abandoned' = [abandoned EXCEPT ![j] = @ \/ ~error[j]]
  /\ CollectEnds(c)
  /\ UNCHANGED <<collectOnly, channelVars, outcome>>

VerdictPasses(c) ==
  LET j == callJob[c] IN
  /\ Step(c, "verdict", "read") /\ ~error[j] /\ exitCode[j] # NoCode
  /\ UNCHANGED <<collectOnly, abandoned, channelVars, callJob, outcome, collected>>

CollectReturns(c) ==
  LET j == callJob[c] IN
  /\ Step(c, "read", "idle")
  /\ outcome' = [outcome EXCEPT ![c] =
                   [job |-> j, code |-> exitCode[j], text |-> file[keyOf[j]]]]
  /\ CollectEnds(c)
  /\ UNCHANGED <<collectOnly, abandoned, channelVars>>

-----------------------------------------------------------------------------
(* close *)

closeOnly == <<keyOf, exitCode, error, abandoned, readerVars, registry, born,
               collected>>

CloseBegin(c) ==
  /\ Step(c, "idle", "close")
  /\ toClose' = [toClose EXCEPT ![c] = {registry[k] : k \in Keys} \ {None}]
  /\ outcome' = [outcome EXCEPT ![c] = NoOutcome]
  /\ UNCHANGED <<closeOnly, doneEvt, channelVars, open, callJob>>

\* The next job of the list; a finished one is skipped.  (The list is in
\* registration order; here any order.)
CloseJob(c) ==
  \E j \in toClose[c] :
    /\ call[c] = "close"
    /\ IF doneEvt[j]
       THEN UNCHANGED <<closed, call, callJob>>
       ELSE /\ closed' = [closed EXCEPT ![j] = TRUE]
            /\ Step(c, "close", "join")
            /\ callJob' = [callJob EXCEPT ![c] = j]
    /\ toClose' = [toClose EXCEPT ![c] = @ \ {j}]
    /\ UNCHANGED <<closeOnly, doneEvt, made, buf, status, cutOff, open, outcome>>

\* join(timeout=1.0) returns, the reader gone or not; then done.set().
CloseJoined(c) ==
  /\ Step(c, "join", "close") /\ reader[callJob[c]] # "unstarted"
  /\ doneEvt' = [doneEvt EXCEPT ![callJob[c]] = TRUE]
  /\ callJob' = [callJob EXCEPT ![c] = None]
  /\ UNCHANGED <<closeOnly, channelVars, toClose, open, outcome>>

\* Joining a thread that start has not started yet raises RuntimeError and
\* ends close with the client still open.
CloseRaises(c) ==
  /\ Step(c, "join", "idle") /\ reader[callJob[c]] = "unstarted"
  /\ callJob' = [callJob EXCEPT ![c] = None]
  /\ toClose' = [toClose EXCEPT ![c] = {}]
  /\ UNCHANGED <<closeOnly, doneEvt, channelVars, open, outcome>>

\* self._client.close(): the transport closes every channel.
CloseClient(c) ==
  /\ Step(c, "close", "idle") /\ toClose[c] = {}
  /\ open' = FALSE
  /\ closed' = [j \in Jobs |-> closed[j] \/ reader[j] # "unborn"]
  /\ UNCHANGED <<closeOnly, doneEvt, made, buf, status, cutOff, toClose, callJob, outcome>>

-----------------------------------------------------------------------------
CallInProgress(c) ==
  \/ StartRegister(c) \/ StartThread(c)
  \/ CollectCheck(c) \/ CollectWoken(c) \/ CollectTimesOut(c) \/ GiveUp(c) \/ HangUp(c)
  \/ VerdictRaises(c) \/ VerdictPasses(c) \/ CollectReturns(c)
  \/ CloseJob(c) \/ CloseJoined(c) \/ CloseRaises(c) \/ CloseClient(c)

Call(c) == \/ \E k \in Keys : StartExec(c, k) \/ CollectFind(c, k)
           \/ CloseBegin(c)
           \/ CallInProgress(c)

Next == \/ \E c \in Callers : Call(c)
        \/ \E j \in Jobs : Reader(j) \/ Remote(j)

Spec == Init /\ [][Next]_vars

\* Calls in progress and reader threads are scheduled; the remote command may
\* fall silent for ever, and nobody has to call anything.  That a wait ends for
\* nothing is never assumed.
CallerFairness == \A c \in Callers : WF_vars(CallInProgress(c))
ReaderFairness == \A j \in Jobs : WF_vars(ReaderWorks(j))

\* From some moment on, no wait of a reader ends for nothing.
WaitsWork == \A j \in Jobs : <>[][~ReaderPauses(j)]_vars
-----------------------------------------------------------------------------
(* Properties *)

JobOrNone == Jobs \cup {None}
CodeOrNone == Codes \cup {NoStatus, NoCode}

\* The type invariant.
TypeOK ==
  /\ open \in BOOLEAN /\ born \in 0..MaxJobs
  /\ registry \in [Keys -> JobOrNone] /\ keyOf \in [Jobs -> Keys]
  /\ exitCode \in [Jobs -> CodeOrNone] /\ report \in [Jobs -> CodeOrNone]
  /\ error \in [Jobs -> BOOLEAN] /\ abandoned \in [Jobs -> BOOLEAN]
  /\ doneEvt \in [Jobs -> BOOLEAN] /\ pending \in [Jobs -> BOOLEAN]
  /\ reader \in [Jobs -> {"unborn", "unstarted", "truncate", "recv", "look", "status",
                          "report", "record", "finish", "dead"}]
  /\ made \in [Jobs -> 0..MaxUnits] /\ buf \in [Jobs -> 0..MaxUnits]
  /\ status \in [Jobs -> Codes \cup {NoStatus}]
  /\ closed \in [Jobs -> BOOLEAN] /\ cutOff \in [Jobs -> BOOLEAN]
  /\ collected \in [Jobs -> BOOLEAN] /\ appended \in [Jobs -> 0..MaxUnits]
  /\ file \in [Keys -> Seq(Jobs)]
  /\ call \in [Callers -> {"idle", "register", "spawn", "check", "wait", "giveUp",
                           "hangUp", "verdict", "read", "close", "join"}]
  /\ callJob \in [Callers -> JobOrNone] /\ toClose \in [Callers -> SUBSET Jobs]
  /\ outcome \in [Callers -> [job : JobOrNone, code : CodeOrNone, text : Seq(Jobs)]]

\* The ledger's view of jobs and callers.
Ledger == INSTANCE JobLedger WITH
  channel <- [j \in Jobs |-> IF reader[j] = "unborn" THEN <<"none">>
                             ELSE IF closed[j] THEN <<"closed", status[j]>>
                             ELSE <<"open">>],
  result  <- [j \in Jobs |-> IF exitCode[j] # NoCode THEN <<"code", exitCode[j]>>
                             ELSE IF error[j] \/ cutOff[j] THEN <<"void">>
                             ELSE <<"unknown">>],
  answer  <- [c \in Callers |-> IF outcome[c].job = None THEN <<>>
                                ELSE <<outcome[c].job, outcome[c].code>>]

\* "Completion is reported only with a harvested exit status ... instead of an
\* invented success code", and "set when collect gives up.  A later channel
\* close must not record success": whatever reader, collect and close do to
\* each other, a job's code is the status its channel was closed with and
\* never changes, a job whose channel a collect cut off gets none for ever
\* after, and a collect returns nothing else.
ImplementsLedger == Ledger!Spec

\* As long as callers are careful with their keys, a collect returns exactly
\* what its own job's reader appended, no more and no less.
OwnOutput ==
  \A c \in Callers : outcome[c].job # None =>
    outcome[c].text = [i \in 1..appended[outcome[c].job] |-> outcome[c].job]

\* "Wait for a background command and record exit code plus stdout/stderr":
\* the recorded text holds no other command's output.
OnlyItsOwnOutput ==
  \A c \in Callers : \A i \in 1..Len(outcome[c].text) :
    outcome[c].text[i] = outcome[c].job

\* Every reader thread ends, though the remote command may fall silent and
\* nobody may ever collect.  It is select's timeout that ends a silence: a
\* reader whose every wait ends for nothing goes round for ever.
ReaderEnds ==
  (ReaderFairness /\ WaitsWork) => \A j \in Jobs : Alive(j) ~> reader[j] = "dead"

\* start, collect and close come back to their caller, even if readers hang.
CallsComeBack == CallerFairness => \A c \in Callers : (call[c] # "idle") ~> (call[c] = "idle")

\* A job that a waiting collect could still return is settled in the end: it
\* is done, with a code or an error, or it is given up.
JobsSettle ==
  (ReaderFairness /\ WaitsWork /\ CallerFairness) => \A j \in Jobs :
    Alive(j) ~> (abandoned[j] \/ (doneEvt[j] /\ (error[j] \/ exitCode[j] # NoCode)))
=============================================================================
