------------------------------ MODULE SshExec ------------------------------
(***************************************************************************)
(* One SSHClientWrapper.exec call: write the input, shut the write side    *)
(* down, then drain_channel / _pump_channel until the exit status is in.   *)
(* The caller's thread races the transport thread, which files arriving    *)
(* data in the channel's buffers between any two calls of the loop.        *)
(*                                                                         *)
(* The remote command, the server and paramiko's Channel are external and  *)
(* modelled by what the loop relies on: one flow-control window for both   *)
(* streams, data in order, the exit status after the last data, then EOF   *)
(* and close, no status from a command that a signal kills, and            *)
(* exit_status_ready() true with status -1 on a channel that closed        *)
(* without one.  Data is counted in units.                                 *)
(***************************************************************************)
EXTENDS Naturals, Integers, Sequences, FiniteSets

CONSTANTS Scripts,     \* what remote commands do, in order: "out", "err", "in"
          Codes,       \* their exit codes
          InputUnits,  \* length of input_data
          Window,      \* receive window, shared by stdout and stderr
          SendWindow,  \* units the server takes before the command reads them
          Chunk        \* _CHUNK_SIZE

ASSUME ExecAssumption ==
  /\ Scripts \subseteq Seq({"out", "err", "in"})
  /\ Codes \subseteq Nat /\ InputUnits \in Nat
  /\ Window \in Nat \ {0} /\ SendWindow \in Nat \ {0} /\ Chunk \in Nat \ {0}

VARIABLES
  script, code,      \* the remote command, chosen at the start
  timeout,           \* the channel's timeout, chosen at the start: none, at
                     \* most _POLL_SECONDS ("short") or more ("long")
  done,              \* steps of the script it has taken
  killed,            \* it died of a signal
  stdinBuf,          \* units sent to it and not read yet
  stdinEof,          \* shutdown_write() arrived
  wire,              \* messages on their way to the client, in order
  outBuf, errBuf,    \* units in the channel's in_buffer and in_stderr_buffer
  status,            \* exit status that arrived, or NoStatus
  eof, closed,       \* the channel got EOF; the channel is closed
  dropped,           \* the connection was lost
  pc,                \* where the calling thread is
  toWrite,           \* units of input_data not written yet
  progressed, outPending, errPending,   \* locals of _pump_channel
  gotOut, gotErr,    \* units handed to on_stdout and on_stderr
  result,            \* the exit code returned
  seenOut, seenErr   \* history: units arrived when the pending checks ran

remoteVars  == <<script, code, timeout, done, killed, stdinBuf, stdinEof>>
channelVars == <<wire, outBuf, errBuf, status, eof, closed, dropped>>
callerVars  == <<pc, toWrite, progressed, outPending, errPending, gotOut, gotErr,
                 result, seenOut, seenErr>>
vars == <<remoteVars, channelVars, callerVars>>

NoStatus == -1      \* also what recv_exit_status returns without a status

Timeouts == {"none", "short", "long"}

Count(kind, seq) == Cardinality({i \in 1..Len(seq) : seq[i] = kind})
Least(a, b) == IF a <= b THEN a ELSE b

Init ==
  /\ script \in Scripts /\ code \in Codes /\ timeout \in Timeouts
  /\ done = 0 /\ killed = FALSE
  /\ stdinBuf = 0 /\ stdinEof = FALSE
  /\ wire = <<>> /\ outBuf = 0 /\ errBuf = 0
  /\ status = NoStatus /\ eof = FALSE /\ closed = FALSE /\ dropped = FALSE
  /\ pc = "write" /\ toWrite = InputUnits
  /\ progressed = FALSE /\ outPending = FALSE /\ errPending = FALSE
  /\ gotOut = 0 /\ gotErr = 0 /\ result = NoStatus
  /\ seenOut = 0 /\ seenErr = 0

-----------------------------------------------------------------------------
(* The remote command and the server *)

Exited == done > Len(script)

\* What the command has written to a stream.
Written(kind) == Count(kind, SubSeq(script, 1, Least(done, Len(script))))

\* Units sent and not yet taken out of the channel's buffers.
Unread == outBuf + errBuf + Count("out", wire) + Count("err", wire)

\* The command writes a unit; it blocks while the window is full.
RemoteWrite ==
  /\ done < Len(script) /\ ~killed /\ ~dropped
  /\ script[done + 1] \in {"out", "err"} /\ Unread < Window
  /\ wire' = Append(wire, script[done + 1])
  /\ done' = done + 1
  /\ UNCHANGED <<script, code, timeout, killed, stdinBuf, stdinEof, outBuf, errBuf, status,
                 eof, closed, dropped, callerVars>>

\* The command reads a unit of its input, or the end of it.
RemoteRead ==
  /\ done < Len(script) /\ ~killed /\ ~dropped
  /\ script[done + 1] = "in" /\ (stdinBuf > 0 \/ stdinEof)
  /\ stdinBuf' = IF stdinBuf > 0 THEN stdinBuf - 1 ELSE 0
  /\ done' = done + 1
  /\ UNCHANGED <<script, code, timeout, killed, stdinEof, channelVars, callerVars>>

RemoteExit ==
  /\ done = Len(script) /\ ~killed /\ ~dropped
  /\ wire' = wire \o <<"status", "eof", "close">>
  /\ done' = done + 1
  /\ UNCHANGED <<script, code, timeout, killed, stdinBuf, stdinEof, outBuf, errBuf, status,
                 eof, closed, dropped, callerVars>>

\* A signal kills the command: exit-signal and no exit status, then the close.
RemoteKilled ==
  /\ ~Exited /\ ~killed /\ ~dropped
  /\ wire' = wire \o <<"eof", "close">>
  /\ killed' = TRUE
  /\ UNCHANGED <<script, code, timeout, done, stdinBuf, stdinEof, outBuf, errBuf, status,
                 eof, closed, dropped, callerVars>>

Remote == RemoteWrite \/ RemoteRead \/ RemoteExit

-----------------------------------------------------------------------------
(* paramiko's transport thread *)

Deliver ==
  /\ wire # <<>>
  /\ wire' = Tail(wire)
  /\ outBuf' = IF Head(wire) = "out" THEN outBuf + 1 ELSE outBuf
  /\ errBuf' = IF Head(wire) = "err" THEN errBuf + 1 ELSE errBuf
  /\ status' = IF Head(wire) = "status" THEN code ELSE status
  /\ eof'    = (eof \/ Head(wire) = "eof")
  /\ closed' = (closed \/ Head(wire) = "close")
  /\ UNCHANGED <<remoteVars, dropped, callerVars>>

\* The connection is lost: nothing more arrives, every channel is closed.
Drop ==
  /\ ~dropped /\ ~closed
  /\ dropped' = TRUE /\ closed' = TRUE /\ wire' = <<>>
  /\ UNCHANGED <<remoteVars, outBuf, errBuf, status, eof, callerVars>>

ExitStatusReady == closed \/ status # NoStatus

-----------------------------------------------------------------------------
(* exec: stdin.write, stdin.flush, shutdown_write *)

ExecWrite ==
  /\ pc = "write" /\ toWrite > 0 /\ ~closed /\ stdinBuf < SendWindow
  /\ stdinBuf' = stdinBuf + 1
  /\ toWrite' = toWrite - 1
  /\ UNCHANGED <<script, code, timeout, done, killed, stdinEof, channelVars, pc,
                 progressed, outPending, errPending, gotOut, gotErr, result, seenOut, seenErr>>

\* A write that waits for window space times out, or the channel closes on it.
ExecWriteRaises ==
  /\ pc = "write" /\ toWrite > 0
  /\ closed \/ (timeout # "none" /\ stdinBuf >= SendWindow)
  /\ pc' = "raised"
  /\ UNCHANGED <<remoteVars, channelVars, toWrite, progressed, outPending,
                 errPending, gotOut, gotErr, result, seenOut, seenErr>>

ExecShutdownWrite ==
  /\ pc = "write" /\ toWrite = 0
  /\ stdinEof' = TRUE
  /\ pc' = "stdout"
  /\ progressed' = FALSE
  /\ UNCHANGED <<script, code, timeout, done, killed, stdinBuf, channelVars, toWrite,
                 outPending, errPending, gotOut, gotErr, result, seenOut, seenErr>>

-----------------------------------------------------------------------------
(* _pump_channel, one step per call it makes on the channel *)

\* Mutant of RecvStdout: no recv_ready() before a whole chunk is taken.
RecvStdoutWhole ==
  LET n == Chunk IN
  /\ pc = "stdout"
  /\ outBuf' = outBuf - n /\ gotOut' = gotOut + n
  /\ progressed' = (n > 0)
  /\ pc' = "stderr"
  /\ UNCHANGED <<remoteVars, wire, errBuf, status, eof, closed, dropped, toWrite,
                 outPending, errPending, gotErr, result, seenOut, seenErr>>

\* if recv_ready(): chunk = recv(_CHUNK_SIZE)
RecvStdout ==
  LET n == Least(outBuf, Chunk) IN
  /\ pc = "stdout"
  /\ outBuf' = outBuf - n /\ gotOut' = gotOut + n
  /\ progressed' = (n > 0)
  /\ pc' = "stderr"
  /\ UNCHANGED <<remoteVars, wire, errBuf, status, eof, closed, dropped, toWrite,
                 outPending, errPending, gotErr, result, seenOut, seenErr>>

\* Mutant of RecvStderr: the chunk goes to on_stdout.
RecvStderrMixed ==
  LET n == Least(errBuf, Chunk) IN
  /\ pc = "stderr"
  /\ errBuf' = errBuf - n /\ gotOut' = gotOut + n
  /\ progressed' = (progressed \/ n > 0)
  /\ pc' = "pendingOut"
  /\ UNCHANGED <<remoteVars, wire, outBuf, status, eof, closed, dropped, toWrite,
                 outPending, errPending, gotErr, result, seenOut, seenErr>>

\* Mutant of RecvStderr: stderr is read only after the exit status is in.
RecvStderrLast ==
  LET n == IF ExitStatusReady THEN Least(errBuf, Chunk) ELSE 0 IN
  /\ pc = "stderr"
  /\ errBuf' = errBuf - n /\ gotErr' = gotErr + n
  /\ progressed' = (progressed \/ n > 0)
  /\ pc' = "pendingOut"
  /\ UNCHANGED <<remoteVars, wire, outBuf, status, eof, closed, dropped, toWrite,
                 outPending, errPending, gotOut, result, seenOut, seenErr>>

RecvStderr ==
  LET n == Least(errBuf, Chunk) IN
  /\ pc = "stderr"
  /\ errBuf' = errBuf - n /\ gotErr' = gotErr + n
  /\ progressed' = (progressed \/ n > 0)
  /\ pc' = "pendingOut"
  /\ UNCHANGED <<remoteVars, wire, outBuf, status, eof, closed, dropped, toWrite,
                 outPending, errPending, gotOut, result, seenOut, seenErr>>

StdoutPending ==
  /\ pc = "pendingOut"
  /\ outPending' = (outBuf > 0)
  /\ seenOut' = gotOut + outBuf
  /\ pc' = "pendingErr"
  /\ UNCHANGED <<remoteVars, channelVars, toWrite, progressed, errPending,
                 gotOut, gotErr, result, seenErr>>

StderrPending ==
  /\ pc = "pendingErr"
  /\ errPending' = (errBuf > 0)
  /\ seenErr' = gotErr + errBuf
  /\ pc' = "status"
  /\ UNCHANGED <<remoteVars, channelVars, toWrite, progressed, outPending,
                 gotOut, gotErr, result, seenOut>>

\* Mutant of CanFinish: the exit status is enough.
CanFinishOnStatus == ExitStatusReady

\* Mutant of CanFinish: no data is enough.
CanFinishWhenQuiet == ~outPending /\ ~errPending

CanFinish == ExitStatusReady /\ ~outPending /\ ~errPending

Finish ==
  /\ pc = "status" /\ CanFinish
  /\ result' = status
  /\ pc' = "done"
  /\ UNCHANGED <<remoteVars, channelVars, toWrite, progressed, outPending,
                 errPending, gotOut, gotErr, seenOut, seenErr>>

\* "if progressed: continue", else on to _wait_for_activity.
Again ==
  /\ pc = "status" /\ ~CanFinish
  /\ pc' = IF progressed THEN "stdout" ELSE "wait"
  /\ progressed' = FALSE
  /\ UNCHANGED <<remoteVars, channelVars, toWrite, outPending, errPending,
                 gotOut, gotErr, result, seenOut, seenErr>>

\* The channel's descriptor is readable with data, at EOF and when closed;
\* the exit status alone does not make it so.
Readable == outBuf > 0 \/ errBuf > 0 \/ eof \/ closed

WaitWakes ==
  /\ pc = "wait" /\ Readable
  /\ pc' = "stdout"
  /\ UNCHANGED <<remoteVars, channelVars, toWrite, progressed, outPending,
                 errPending, gotOut, gotErr, result, seenOut, seenErr>>

\* Mutant of WaitTimesOut: select without the channel's timeout.
WaitForEver == pc = "wait" /\ FALSE /\ UNCHANGED vars

WaitTimesOut ==
  /\ pc = "wait" /\ timeout # "none" /\ ~Readable
  /\ pc' = "raised"
  /\ UNCHANGED <<remoteVars, channelVars, toWrite, progressed, outPending,
                 errPending, gotOut, gotErr, result, seenOut, seenErr>>

\* select raises (a descriptor that it cannot take, or none left): a pause of
\* _POLL_SECONDS instead, or of the timeout where that is shorter.  Where the
\* channel is readable a pause that raises nothing is WaitWakes.
WaitPauses ==
  /\ pc = "wait" /\ (timeout = "short" \/ ~Readable)
  /\ pc' = IF timeout = "short" THEN "raised" ELSE "stdout"
  /\ UNCHANGED <<remoteVars, channelVars, toWrite, progressed, outPending,
                 errPending, gotOut, gotErr, result, seenOut, seenErr>>

CallerWorks == \/ ExecWrite \/ ExecWriteRaises \/ ExecShutdownWrite
               \/ RecvStdout \/ RecvStderr \/ StdoutPending \/ StderrPending
               \/ Finish \/ Again \/ WaitWakes \/ WaitTimesOut

Caller == CallerWorks \/ WaitPauses

Next == Remote \/ RemoteKilled \/ Deliver \/ Drop \/ Caller

Spec == Init /\ [][Next]_vars

\* The command, the network and the calling thread make progress.  That select
\* raises is never assumed: a wait that should have ended must end without it.
RemoteFairness == WF_vars(Remote) /\ WF_vars(Deliver)
CallerFairness == WF_vars(CallerWorks)

\* From some moment on, select takes the channel's descriptor.
SelectWorks == <>[][~WaitPauses]_vars
-----------------------------------------------------------------------------
(* Properties *)

Returned == pc = "done"

\* The type invariant.
TypeOK ==
  /\ script \in Scripts /\ code \in Codes /\ timeout \in Timeouts
  /\ done \in 0..Len(script) + 1 /\ killed \in BOOLEAN
  /\ stdinBuf \in 0..SendWindow /\ stdinEof \in BOOLEAN
  /\ wire \in Seq({"out", "err", "status", "eof", "close"})
  /\ outBuf \in 0..Window /\ errBuf \in 0..Window
  /\ status \in Codes \cup {NoStatus} /\ eof \in BOOLEAN
  /\ closed \in BOOLEAN /\ dropped \in BOOLEAN
  /\ pc \in {"write", "stdout", "stderr", "pendingOut", "pendingErr", "status",
             "wait", "done", "raised"}
  /\ toWrite \in 0..InputUnits
  /\ progressed \in BOOLEAN /\ outPending \in BOOLEAN /\ errPending \in BOOLEAN
  /\ gotOut \in Nat /\ gotErr \in Nat /\ seenOut \in Nat /\ seenErr \in Nat
  /\ result \in Codes \cup {NoStatus}

\* An exit code is never invented, nor lost: a returned code is the command's
\* own, of a command that has exited, and -1 is returned only where no status
\* was ever to be had, the connection lost or the command killed.  A command
\* that exits by itself on a live connection never gives -1.
CodeIsTheCommands ==
  Returned => \/ Exited /\ result = code
              \/ result = NoStatus /\ (dropped \/ killed)

\* The result holds every unit that had arrived when the loop last looked for
\* pending data on that stream; only what arrives after that look can be lost.
LosesOnlyWhatArrivesLate ==
  Returned => gotOut >= seenOut /\ gotErr >= seenErr

\* The two streams together never overrun the one window, and what left a
\* buffer was handed to the caller: units are neither lost nor duplicated
\* before the loop returns.
NothingLostOnTheWay ==
  /\ Unread <= Window
  /\ ~dropped =>
       /\ gotOut + outBuf + Count("out", wire) = Written("out")
       /\ gotErr + errBuf + Count("err", wire) = Written("err")

\* The write waits for the command to read, the command for the client to.
BothWait ==
  /\ pc = "write" /\ toWrite > 0 /\ stdinBuf = SendWindow
  /\ done < Len(script) /\ script[done + 1] \in {"out", "err"} /\ Unread = Window

\* Without a timeout and with the connection up, a command that runs to its
\* end, or is killed, is drained to its end: neither stream can fill the window
\* and stop the other for ever.  There are two other outcomes, and no third: a
\* write that raised because the command had ended, and closed the channel,
\* before its input was written; and a write that waits for ever for a command
\* that waits for its output to be read, which exec only does after the write.
ExecCompletes ==
  (timeout = "none" /\ []~dropped /\ RemoteFairness /\ CallerFairness)
    => \/ <>(Returned \/ (pc = "raised" /\ toWrite > 0 /\ closed))
       \/ <>[]BothWait

\* With a timeout, exec comes back to its caller even if the server falls
\* silent at any point, a write that would wait for ever included: only the
\* calling thread need make progress.  Two things keep the timeout from firing.
\* A timeout above _POLL_SECONDS needs select: while select raises, the loop
\* pauses and goes round.  And select wakes at EOF: while a channel is at EOF
\* with neither a status nor a close, the loop spins.
ExecComesBack ==
  (timeout # "none" /\ CallerFairness /\ (timeout = "long" => SelectWorks))
    => \/ <>(pc \in {"done", "raised"})
       \/ <>[](eof /\ ~ExitStatusReady)

\* "Read both streams to completion and return stdout, stderr, and exit
\* status": with the connection up, the result holds all the command wrote.
ReadToCompletion ==
  (Returned /\ ~dropped) => gotOut = Written("out") /\ gotErr = Written("err")
=============================================================================
