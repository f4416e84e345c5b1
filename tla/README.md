# colosseum-messaging in TLA+

TLA+ models of the concurrent core of `colosseum_messaging`, TLC runs that
check them on small instances, and TLAPS proofs for every size of the
constants. Paths and line numbers refer to `src/colosseum_messaging/`.

## 1. The system

The library lets a test script talk to devices: it opens clients (ZMQ, MQTT,
Redis, HTTP, SSH) from a configuration, caches them, and records what they
send and receive. It is a library inside one Python process. What makes it
hard is threads: pump threads that listen or send in the background, reader
threads of background SSH commands, paramiko's and paho's network threads, and
the script's own threads that call the API.

| Component | State it keeps | Operations | Interacts with |
|---|---|---|---|
| `MessagePump`, `PumpHandle` (`_pump.py`) | thread, stop event, bounded outbox, error count; the handle's one pump | start, submit, stop, the loop `_run` | poll/offer/hook callbacks of a client |
| `ZmqClientWrapper` (`zmq/client.py`) | socket, a listen handle and a send handle, mailbox token | send, receive, start/stop listen, start/stop sender, enqueue, close | pump threads, the ZMQ socket (not thread-safe), the sim mailbox |
| `MqttClientWrapper` (`mqtt/client.py`) | paho client, incoming queue, subscribed topic, two handles | publish, receive, listen, send, close | paho's network thread, pumps, sim mailbox |
| `RedisClientWrapper` (`redis/client.py`) | redis client, pubsub object, subscribed channel, two handles | set, get, publish, receive, listen, send, close | pumps, sim mailbox, sim key-value store |
| `_MailboxStore` (`sim.py`) | per mailbox: a queue per subscriber, pending messages; one lock | subscribe, unsubscribe, publish, receive | every client with the sim driver |
| SSH `exec` (`ssh/client.py`, `ssh/_background.py`) | one channel, loop locals | write input, shut down writing, drain both streams, exit status | paramiko's transport thread, remote command |
| SSH background jobs (same files) | job registry, `BackgroundJob` records, artifact files | start, collect, close, reader thread and its callbacks | transport thread, remote commands, files |
| SSH connection (`ssh/client.py`) | paramiko client, host-key stores | connect with retries | network |
| SFTP, SCP, `exec_sequence`, file selection (`ssh/`, `scp/`) | cached SFTP client | transfers, listing, selection | remote or sim file system |
| `SimRemoteFS` (`ssh/_sim.py`) | dictionary of nodes | put, get, remove, mkdir, rename, listdir, stat | SSH client with the sim driver |
| `HttpClientWrapper` (`http/client.py`) | cookies per origin | request with redirects | network |
| Connection cache (`_cache.py`, `connections.py`) | clients by key | get or open, close all | every client |
| Listen recorder (`_listen.py`) | row index per handler | handler, verify | pumps, the core's database |
| API modules (`*/api.py`) | none | thin wrappers | cache, clients, colosseum-core |

What is hard, and what makes each part correct:

* **Pump**: start, submit and stop are check-then-act sequences without a lock
  against a thread that is ending. Correct: what `put_nowait` took is offered
  once, in order, and before the thread goes if it was taken before the stop;
  errors do not end the thread; a stop that times out loses nothing; at most
  one pump lives.
* **ZMQ client**: the socket may be used by one thread at a time. Correct: no
  two threads inside it, it is not closed under its user, every call returns.
* **Mailbox**: Correct: each subscriber hears every message from its start on,
  once and in order.
* **exec**: two streams in one flow-control window, data racing the exit
  status, timeouts, lost connections, killed commands. Correct: no deadlock, no invented exit
  code, no lost output.
* **Background jobs**: reader, collect and close share a job without a lock,
  and jobs share files by key. Correct: no code that was not harvested, none
  after the job was given up, a collect returns its own job's output, threads
  end and calls return.
* **MQTT/Redis receive**: the client's idea of its subscription against the
  broker's. **Cache**: two openers of one key, a close that raises.
  **Connection**: which errors are retried, sockets left open, which host keys
  are kept. **HTTP**: what survives a redirect. **Listen recorder**: rows of
  several listens under one key, the silences between them. **Timeouts**: how
  long a receive and a stop may take while other traffic comes. **SimRemoteFS**: a tree kept as a flat dictionary.

## 2. The plan

Order of work, most important first. All of it is done.

1. `MessagePump` with `SendService` (what it promises), `ZmqClient` over it.
2. `SimMailbox` with `BroadcastLog`.
3. `SshExec`, the draining loop against the transport thread.
4. `SshJobs`, background jobs.
5. `PubSub`, `MqttReceive`, `RedisReceive`: the client's subscription against the
   server's.
6. `ListenRecorder`, composed with 5 in `Listening`: listen, stop, receive, close
   and verify.
7. `ConnectionCache`: openers of SSH clients with their retries, close all.
8. `HttpRedirects`: the redirect loop with headers and cookies by origin, checked
   together with 7 in `Session`.
9. `RemoteFiles`: file calls and `exec_sequence`'s clean-up on `SimRemoteFS` or a
   server, in `Session` too.
10. `FileTree`: file selection as operators, checked against a reference
    definition by the transfers of 9.
11. `JobLedger`: what background jobs promise, implemented by `SshJobs`.
12. `Deadlines`: the loops of `_receive` and the join of a stop against a clock,
    with `Deadlines_proofs`.
13. `ListenGap`: the longest silence that `verify_listen` judges.
14. `HostKeys`: the keys that connection setups load, accept and keep.
15. Proofs: inductive invariants of `SshExec` (`LosesOnlyWhatArrivesLate`,
    `NothingLostOnTheWay`), of `SshJobs` (`ImplementsLedger`, `OwnOutput`), of `Listening`
    (`NothingDropped`, `ReturnsItsOwn`) and of `RemoteFiles` (`ScriptLeavesNoTrace`).
16. Proofs: `AccountsForAll`, `GapIsLongestSilence`, `TransfersComplete` (an invariant of
    trees of files through every file call, and what the walk over a tree finds)
    and `SessionTypeOK`. With them every safety property of the runs that pass is
    a theorem.

## 3. Modules

| Module | What it is |
|---|---|
| `MessagePump` | `_pump.py` |
| `SendService` | what a pump promises: items accepted, delivered in order, finished by the stop |
| `ZmqClient` | `zmq/client.py` over `MessagePump` |
| `SimMailbox` | one mailbox of `sim.py` |
| `BroadcastLog` | what a mailbox promises: a log that every subscriber reads from where it joined |
| `SshExec` | `exec` and `_pump_channel` |
| `SshJobs` | `start`, `collect`, `close` and the reader thread |
| `JobLedger` | what background jobs promise: results written once, harvested, never after a job was cut off |
| `Deadlines` | how long `_receive` of each client, a listen pump's poll and a stop wait |
| `PubSub` | subscription, waiting messages and server, for both clients |
| `MqttReceive`, `RedisReceive` | `_receive` and `close` of each client |
| `ListenRecorder` | `_listen.py`: rows in flight, stored rows, the verdict |
| `ListenGap` | `_max_gap_s` of `_listen.py` over the stamps of several threads |
| `Listening` | the script's calls, the listen pump, client, server and recorder together |
| `HttpRedirects` | `http/client.py` |
| `ConnectionCache` | `_cache.py`, `connections.py` and the connection attempts of `ssh/client.py` |
| `HostKeys` | host keys in `ssh/client.py`: which are loaded, accepted and kept |
| `FileTree` | trees of files; selection and mapping of `ssh/_file_select.py` |
| `RemoteFiles` | the file calls of `ssh/client.py` and `scp/client.py`, on the sim of `ssh/_sim.py` or a server |
| `Session` | redirects, cache, files, host keys, deadlines and silences side by side |
| `MCListening`, `MCSession` | symmetry of topics, threads, keys and listens; the paths and choices of files that transfers are given |
| `MCSshExec`, `MCSshJobs` | model constants: all remote commands up to a length; symmetry of callers |
| `ZmqClient_proofs` | theorems about `MessagePump` and `ZmqClient` |
| `RemoteFiles_proofs` | theorems about `FileTree` and the steps of `RemoteFiles` |
| `SimMailbox_proofs`, `SshExec_proofs`, `SshJobs_proofs`, `Listening_proofs`, `Deadlines_proofs`, `Session_proofs` | theorems about the module that is named |

An operator whose comment begins with "Mutant of" is a version of the next
definition with a plausible bug. It occurs in no specification; replacing the
definition by it makes the property that is named in `PROJECT.json` fail, which
shows that the property depends on that line of the code.

### MessagePump

Pumps are numbered in the order they are made (`Gens`); `handle` is
`PumpHandle._pump`. The threads are the controllers (start, stop), the
submitters (enqueue) and one thread per pump. Steps are cut where another
thread can come in between: `start` is `StartCheck` (line 162, 164),
`StartThread` (165) and `StartPublish` (166); `stop` is `StopBegin` (the event),
`StopJoined` or `StopTimeout` (the join), then `StopRaises` or `StopForgets`;
`submit` is `SubmitRead` (178), `SubmitCheck` or `SubmitRefused` (179, 73) and
`SubmitPut` or `SubmitFull` (75). The two running checks of a submit are one
step: what the second one sees is what decides. `_run` is `LoopTest`, then the
drain (`DrainTake`, `DrainOffer`, `DrainEmpty`), the timed wait (`WaitTake` ...)
of a pump without poll, `PollReturns`, `HookReturns`, and the final drain
(`FinalTake` ...). `OfferOne` and `ThreadRaises` cover exceptions; `HookStops` is
a hook that stops its own pump. `accepted`, `offered` and `owed` are history.

### ZmqClient

A PUB client never starts its listen pump and a SUB client never its send
pump (`start_listen` and `start_sender` refuse), so a client is a socket and
one pump: the same actions, extended with `use`, where a controller is in
`send`, `receive` or `close`. `UseCheck` and `UseSocket` are apart because
nothing holds the pump off between them. `close` conjoins the handle's stop
with its own program counter; `CloseRaises` is the stop that raises, which
leaves the socket open.

### SimMailbox

Each method holds the store's lock, so each is one step. `received` and `base`
record what a subscriber got and where it began.

### SshExec

`wire` carries what the server sends, in order; the transport thread
(`Deliver`) files it between any two steps of the loop, which is one step per
call on the channel: `RecvStdout` (122-126), `RecvStderr` (127-131),
`StdoutPending` (132), `StderrPending` (133), `Finish` or `Again` (134-138),
`WaitWakes`, `WaitTimesOut` or, when `select` raises, `WaitPauses` (163-176, a fixed
pause) of `_wait_for_activity`. Data is counted in units. `timeout` is the
channel's: none, at most `_POLL_SECONDS` ("short") or more ("long"), since a pause
ends a wait only if it is as long as all of the timeout; each is in every run.
A command either exits, with its status before the close, or is killed by a
signal (`RemoteKilled`) and closes without one, which `recv_exit_status` reports as
-1. The command, the SSH server and paramiko are external: their behaviour is what
the loop relies on, named in the module's header.

### SshJobs

One step per access to a job, the registry or a file. The reader's loop is
coarser than in `SshExec` (`Receive`, `Look`, `Harvest`, `GoRound`): its
interleavings with the transport are checked there, and here those with
`collect` and `close`. `ReaderPauses` is a wait that ends for nothing, after a `select`
that raised or at an EOF on its own. A command may be killed here too
(`RemoteKilled`): its reader then harvests -1. A file is a sequence of units, each the number of the job
that wrote it. `Discipline` says how callers use keys, from "any" to
"careful"; the code enforces none of it.

`Ledger` maps this to `JobLedger`: a job's channel as the server or a closer left
it, its result, and what each caller was last answered. The ledger knows
neither readers nor flags; its actions allow exactly what a caller may rely on.

### Deadlines

Time is counted in ticks that pass between any two steps, and kept as what is
left of each wait: `left` of `_receive`'s deadline, `wait` of the timed wait inside it
(`mailbox.receive`, `queue.get`, `get_message`), `nap` of the mailbox's sleep, `join` of
a stop. A turn of the loop is `Compute` (the remaining time), `Wait` (the call),
then `Take`, `PassOver` (a message of another topic) or a timeout; `client` picks the
driver, since each ends its loop by a test of its own (`Overdue`, `LastTry`). Either
the script's `receive` or a pump's poll runs the loop; `HookReturns` and `PumpPolls`
are apart, with the look at the stop event between them. A thread that is due
(`Due`) moves before time passes, but for `MaxLate` ticks over the run that stand
for the scheduler and slow hooks; every bound in the properties is off by those
that were used, `late`, and by the rest of a nap, `Overshoot`. The driver `zmq` waits
once and has no loop.

### ListenGap

A listen stamps a row (`StampMessage`, `StampError`) and enqueues it (`EnqueueRow`) in two
steps, because `datetime.now` is an argument of the call that enqueues; two
clients that listen under one key can so store their rows in another order.
`quiet` and `longest` measure the silences as they happen, without rows. `MaxGap` is
`_max_gap_s` without the sort: two stamps come next to each other in the sorted
ones if no third lies between them.

### HostKeys

A connection setup is one step, as far as keys go, over the file of `known_hosts`
or, by default, the system's store. `ConnectAuto` loads the store and lets paramiko
check the server's key or take it; only a file is there to save it to, and over
the system's store the next setup meets the host as unseen again. `ConnectNone` is
`_require_known_host_key`. `accepted` keeps, by mode, store and host, the keys that
setups went on with. `CreateFile` is the
setup of a client whose file is new and whose server does not answer. Servers
get new keys at any time (`NewServerKey`). What paramiko does with a key that it
is asked to add is external.

### Listening

One thread of the script calls `listen`, `stop_listen`, `receive`, `verify_listen` and
`close`; one pump calls `_receive` in its loop; paho's network thread or the
server, the database writer and the network act on their own. `kind` is the
client of the run: MQTT, Redis, or the MQTT client on the sim mailbox.
`_receive` is cut where others can act: `MqttBegin` (the comparison and the
unsubscribe, 119-121), `MqttSubscribe` or `MqttSubscribeFails` (122-125), then one
step per message taken from the queue (`MqttTake`, `MqttDiscard`) or
`MqttTimesOut`; `RedisBegin` (123-134) closes the old pubsub object and makes the
next, `RedisSubscribe` or `RedisSubscribeFails` (135-136), `RedisTake`,
`RedisTimesOut`, `RedisRaises`. Whoever called `_receive` takes these steps
(`ReceiveGoesOn`, `ReceiveEnds` for the script, `PollReturns`, `PollRaises` for the
pump); the two never overlap, because a receive is refused while a pump runs
and one thread makes all calls. The handler's row (`HandlerRecords`) and the
hook (`HookReturns`, `HookRaises`) are apart, so that a stop, a verdict or a write
can come in between. `recording` says whether there is a database: without one
(`_enqueue`'s returns at 141-146) rows are dropped in silence and a verdict calls the
evidence missing (92-97). `EnqueueRaises` is an `enqueue_measurement` that raises; the
handler then ends at its first row (`HandlerRaises`), which the pump takes for an
error, and "gaps" remembers it. `Store` is the writer, `Drained` the return of its drain.

The server is external: it takes subscribe and unsubscribe in order
(`requests`), forgets an MQTT session when the connection is lost (paho's
default, a clean session), and redis-py subscribes again to the channels of
its object when its connection is restored.

### FileTree, RemoteFiles

A path is the sequence of its names and a tree maps paths to what is there, so
that `Below` and `Above` are prefixes of sequences, as they are of strings in
`_sim.py`. `Walked` is `walk_dir`, a recursive function over the directories;
`Wanted` says without a walk which files a choice means, and the transfers are
checked against it. `Listed` is a tree as `walk_dir` sees it when a server refuses some
directories, whose error it swallows (66-69). A glob is the set of names that it fits (`Matching`).

A transfer is one step for its selection, its mapping and the directories it
makes (`SftpGet`, `SftpPut`), then one step per file (`GetFile`, `PutFile`), in any
order; the selection of a get on a server takes any of `Views`, the listings with any
directories refused, or raises at its `stat`. `TransferFails` is what a server or a
lost connection does in the middle of a file. `newest` and `oldest` leave any one of the files, since times are not
modelled. mkdir, remove and rename are one step each; `RenameSim` and
`RenameServer` are apart because the sim moves a single entry and a server moves
what is below. `exec_sequence` is `Upload`, `RunScript` and `CleanUp`; `RemoveRefused` is the clean-up whose
remove the server refuses, which is suppressed (376-378): the call is over, and
`call = "left"` says that its script is still there. A run of the model ends there, as
it does on a lost connection. The sim's
initial files stand for those that a test seeds it with. Listing and stat change nothing
and are left out, but for the walk of a get, which may break down
(`ListingBreaks`).

External: what a server refuses, and that paramiko leaves a part of a file
behind when a transfer breaks off. Others change only files that the call in
progress still has to read or write (`Concerned`): a change elsewhere might as well
come before or after the call. `goal`, `touched` and `torn` are history.

### HttpRedirects, ConnectionCache, Session

`request` is `Request` (up to the first exchange), then per answer one of
`Redirect`, `Refuse`, `Return` and `ExchangeFails`; each stores the answer's cookies
first, as the code does. `sent` is what goes to the server at `at` next. A cookie
is its name and its owner, so that a property can say where it may go.

A thread in `cached_resource` is in `look` (21), then `fetch` (24) or, through the
steps of an SSH connection attempt, `store` (28); a thread in
`close_cached_resources` is in `closing` (49) or `close` (55). `AttemptFails` is an
exception at any step with the `finally` block and the decision to retry.

`HttpRedirects`, `ConnectionCache`, `RemoteFiles`, `HostKeys`, `Deadlines` and `ListenGap` share
nothing. `Session` starts with a choice of one of them (`part`) and lets only that one
move, which checks all six and multiplies none.

## 4. Runs

| Run | Question | Bounds | Result |
|---|---|---|---|
| `client` | pump and socket safety, calls return | 1 controller, 1 submitter, 2 pumps, 3 items, outbox of 2, 1 error per pump | holds, 134,000 states |
| `pump_live` | the pump implements `SendService`, a stop ends it | poll and offer both, 2 submitters, 1 pump, 3 items | holds, 38,000 states |
| `exec` | exec's safety and termination | all commands of up to 4 steps, killed at any or none, window 2, input 2 units over a window of 1, timeout none, short or long | holds, 374,000 states |
| `jobs_safe` | the ledger of jobs, own output | 2 callers, 2 jobs of one key, 1 unit of output each, careful callers, commands that may be killed | holds, 2.5 million states |
| `jobs_live` | threads end, jobs settle, calls return | 2 callers, 1 job, 2 units | holds, 108,000 states |
| `mailbox` | broadcast log | 3 subscribers, 4 messages | holds, 25,000 states |
| `listen` | subscriptions, messages and verdicts of a listening script | 2 topics and a wildcard, an invalid filter, 3 calls of listen or receive, 2 messages, 1 lost connection, 1 failing hook, a database or none, any enqueue raising | holds, 4.9 million states |
| `session` | redirects; connections through the cache; file calls; host keys; deadlines; silences | 3 origins (1 https), 3 redirects, 2 requests, 1 cookie name; 2 threads, 2 keys, up to 2 attempts, 4 connections; 3 names, trees two folders deep, 3 paths, 6 choices of files, 2 calls, 1 change by others, any directories and removes refused; 2 hosts, 2 keys, both modes and stores; timeouts of 0 and 4 ticks, poll 3, stop 6, nap 2, 2 ticks late, 2 messages; 2 listens, 4 rows, 4 ticks | holds, 1.2 million states |
| `pump_left` | is everything accepted sent before a stop ends? | 1 pump, 1 item | violated |
| `exec_lost` | does exec return all output? | 1 unit of output | violated |
| `jobs_mixed` | does a collect return only its job's output? | 1 caller, 2 jobs, pairs of start and collect | violated |
| `mailbox_early` | do all subscribers get early messages? | 2 subscribers, 2 messages | violated |

Why these bounds are enough. A pump's races involve a thread that is ending
and one that is starting, so two pumps; order and the full outbox need more
items than the outbox holds, so three and two. The window of two units is the
smallest in which one stream can fill it while the other has data; the input is
one unit longer than the server's window, so that the write blocks until the
command reads, and four steps are enough for a command to fill the window,
block on its third unit of output and so never read. The races of jobs are
between a reader, a collect and a close, so two callers, and between an old and a
new job of a key, so two jobs. A change of topic that fails and is followed by
another one takes three calls; two messages can be in the wrong order, on
different topics, or on each side of a change; two requests are what one
change of topic sends. A chain that leaves an origin and comes back takes two
redirects, and a third to carry something on; `_MAX_REDIRECTS` is 5 in the code
and 3 in the run. Two keys let one be loaded while the other is closed; four
connections are two attempts of each thread, or one client opened again. Two
file calls are one that changes a tree and one that meets what it left; two
folders deep is where a limit of depth can be wrong by one, and of the three
names one is a folder, one fits the pattern and one does not. With three subscribers one can be last, one
early and one late. A nap of two ticks is one that a message can come in the
middle of; with a poll of 3 and a stop of 6 the two ticks of lateness and the rest
of a nap just suffice to make a stop raise, so both outcomes occur; two
messages are one that passes and one that is awaited. Three rows of two
listens can be stored in an order that hides a silence. Two keys of a server
are an old and a new one. One controller is the library's intended use and what
`NoOrphan` and `OneThreadInSocket` are claimed for: `start` checks
and stores without a lock, and two controllers do break them (hazard at
`_pump.py:162`).

`CHECK_DEADLOCK FALSE` is set where an `exec` is over, or all jobs are used up
and the client is closed, or the script has closed its client.

What `listen` does not claim: after a subscribe that failed, because the link
was down or paho refuses the filter, `_subscribed_topic` still names the topic
that was just unsubscribed (`mqtt/client.py:121`), and the next receive of that
topic waits without a subscription; the same happens when the MQTT session is
lost, since nothing subscribes again. `harmed` marks these times and
`WaitsSubscribed` excludes them. A verdict asked for while a pump still runs,
after a stop that raised, may miss rows (`quiet` marks the others). An enqueue that
raises loses its row, and the verdict does not know; only the pump's error count
tells. A database that is opened or closed while a listen runs is left out. With
several listens under one key "latest" is not the last message, because each
listen counts its rows from 0.

What `session` does not claim: when two threads load one key at a time the
second store hides the first client (`_cache.py:28`), and a client whose close
raises is gone from the cache already (line 50); `contended` and `stuck` mark
both. A GET that carries a body keeps it over a 302 of the same origin
(`http/client.py:90`), where the comment above it speaks of "GET with no body".

Nor does it claim anything of the files once the sim has lost a directory that
had entries: remove, rename and put replace or drop the entry alone
(`_sim.py:62-81`), and a listing above what is left fails with KeyError (`_sim.py:102`).
`torn` marks this. The sim's rename of a file onto itself deletes it. On a
server `sftp_mkdir` reports success where a file has the name
(`ssh/client.py:629-634`). SCP puts a file inside a directory that has the name it
was to get (`Landing`), and where get puts a file depends on how many were found
(`_file_select.py:184`); `TransfersComplete` follows both. A directory that the server
refuses to list is passed over in silence (`_file_select.py:66-69`): get then returns
as if nothing matched below it, and on a connection that broke in the middle of
a listing it returns with what it had. `TransfersComplete` claims the files that the
listings showed. What calls do on a connection that is lost already is left out:
they raise, but a get by a pattern returns an empty list. When the
connection is lost before the clean-up or the server refuses the remove, the
script stays on the host and the caller is not told (`ssh/client.py:377`);
`ScriptLeavesNoTrace` leaves both out.

Of timeouts: `receive(timeout=0)` is left out of `TimesOutRightly`, since the MQTT driver
and the sim of ZMQ raise then without a look at what waits, and the others look
once (`mqtt/client.py:130`, `zmq/client.py:103`). `StopInTime` says how much a slow hook
or scheduler may take before a stop raises, not that none does. The timeout of
`exec` and of a job's reader bounds a silence, not the command
(`ssh/_background.py:151-170` waits anew after each arrival), so a command that
keeps writing is never cut off; `ExecComesBack` and `ReaderEnds` count on commands
whose output ends. Two more cases escape the timeout, and the properties say so.
While `select` raises, as it does for a descriptor beyond its limit, the loop pauses
for `_POLL_SECONDS` and compares that pause with the whole timeout (line 175), so a
timeout above 0.05 s never fires. And at EOF the descriptor stays readable, so
that a server that sends neither a status nor a close keeps the loop spinning.
A command killed by a signal returns -1 on a live connection, as a lost
connection does; `CodeIsTheCommands` shows that no command which exits by itself on
a live connection does. `GapIsLongestSilence` takes the wall clock to be steady, and a silence that
lasts from the last message to the stop is no gap for the code.

Of host keys: setups over one file that overlap in time are not modelled, since
paramiko re-reads and rewrites the file in several steps. With `auth="auto"` and no
`known_hosts`, a host without an entry in the system's store is taken with whatever
key it shows, each time anew (`ssh/client.py:143-149`); there `OneKeyPerHost` claims
nothing.

### What the violations say

* `pump_left`: `submit` checks that the thread lives and then puts. If the
  thread passes its final drain in between, the payload is accepted and never
  sent, and nobody is told (`_pump.py:72-75`, 88). `StopDrains` is what does hold:
  all that was accepted before the stop was requested is sent.
* `exec_lost`: the loop looks for pending data and then for the exit status
  (`_background.py:132-134`). Output and status that arrive between the two are
  not returned. `LosesOnlyWhatArrivesLate` is what does hold.
* `jobs_mixed`: after a collect timed out, its reader may still append to the
  files which the next job of that key has just emptied (`ssh/client.py:442`).
  `OwnOutput` is what does hold, for callers that wait for the old reader.
* `mailbox_early`: the comment at `sim.py:18` says early publishes are copied into
  each new subscriber's queue; the first publish that finds a subscriber
  discards them (`sim.py:50`).

## 5. Fairness

* A pump's thread (`ThreadFairness`): poll is called with a timeout, the outbox
  wait is timed, and the clients' sends do not block for ever. Assumed for
  `StopEnds` and `DeliversInOrder` only; `CallsReturn` assumes nothing of it, since
  its point is that a pump may hang.
* A call that has begun (`CallerFairness` in `ZmqClient`, `SshExec`, `SshJobs`): the
  calling thread is scheduled until its call ends. Nobody has to begin a call.
* A reader thread (`ReaderFairness`): its channel's timeout is finite. The remote
  command is never fair in `SshJobs`: it may fall silent. `ReaderEnds` and `JobsSettle`
  also assume `WaitsWork`: from some moment on, no wait of a reader ends for nothing.
* `ExecCompletes` assumes the command, the network and the caller make progress
  and the connection stays up, and no timeout; `ExecComesBack` only the caller and,
  for a timeout above `_POLL_SECONDS`, `SelectWorks`: from some moment on `select` does
  not raise while nothing is readable.
* `SelectWorks` and `WaitsWork` are premises of properties, since nothing in the code
  ensures them, and fairness is on `CallerWorks` and `ReaderWorks`, which leave such
  pauses out: none is needed for a wait to end. Nor is it ever assumed to happen
  that a command is killed, a listing or a remove refused, or that an enqueue raises.
* `HearsAll`: each subscriber keeps calling `receive`.

Weak fairness suffices throughout: a step of one thread is disabled by another
only at the outbox, the mailbox or the channel, and then another step of that
thread is enabled.

## 6. Proofs

For every number of controllers, submitters, pumps and items, every outbox
size and both kinds of pump (`PumpAssumption`):

* `TypeCorrect`, `ExactlyOnce`, `StopDelivers`, invariants of run `client`, and
  `OnlyStopEnds`. The inductive invariant `IInv` adds to them `LocalsOK` (a call's and a
  thread's local variables agree with its program counter: an item is in hand
  exactly while it is being offered), `NewbornOK` (a pump that was not made yet
  is untouched) and `OwedOK` (`owed` never exceeds what was accepted). Without
  the first, appending the item in hand to what was offered need not preserve
  the order; without the second, a new pump could start with someone's items.
* `Implements`: each step of the pump maps to one of `SendService` or to a stutter.
* `NeverOrphaned`, `SingleOwner`: assuming `OneController`. `OwnerOK` says that the
  controller's local pump is the handle's while it is in stop, and that no
  pump lives while it is in the first half of start.
* `ClientIsPump` carries all this over to the ZMQ client; `SocketHasOneUser` and
  `CloseIsLast` follow with `ClientOK`: a controller on its way into the socket, or
  about to close it, has no live pump beside it.
* `SimMailbox_proofs`, for every number of subscribers and messages: types, the
  pending messages (`PendingLast`), `NoGap` and the implementation of `BroadcastLog`.
* `Deadlines_proofs`, for every timeout, poll, stop and nap and any number of
  messages and late ticks (`DeadlinesAssumption`): `DelayTypeCorrect`, `NeverWaitsLonger`,
  `NeverMissesInTime`, `StopsInTime`. `DelayInv` says how the waits nest (`Nested`: the inner
  one never outlasts the outer one by more than the lateness, a nap began while
  there was time), that a poll began before the stop that joins it or is over
  with the event set (`Joined`), and that a message waits no longer than the nap
  that is slept and the lateness (`Noticed`); none of the three properties is
  inductive without it, as none of them speaks of the inner waits.
* `Session_proofs`, for every number of hosts and keys (`UnseenIsNoKey`):
  `HostsKeepTheirKey`. `HostInv` adds that only keys are accepted, so that a host
  without an entry was never gone on with, but by "auto" over the system's store.
* `Session_proofs`, for every number of origins, cookies, redirects and requests
  (`RedirectsAssumption`): `SecretsNeverLeave` and `BodiesNeverLeave`. `HttpInv` adds to
  the two properties that the present and the first origin are among those
  visited; a step that stays then visits nothing new, and one that moves
  carries nothing over.
* `Session_proofs`, for every number of threads, keys, retries and
  connections (`CacheAssumption`): `NoConnectionLost` and `NoneClosedTwice`. `CacheInv`
  says that a connection has one place (`OnePlace`), stands and was never closed
  while it has one (`Standing`), that a thread holds one exactly between opening
  and storing it or between taking it out and closing it (`LocalsOK`), and that a
  thread loads an uncontended key alone (`LoadsAlone`), without which a store
  could hide a connection.
* `RemoteFiles_proofs`, for any number of names, any trees, places, choices of
  files, depths and calls (`PlacesAssumption`: names are finitely many, callers
  name places by the names of files, a depth is a number, as `max_depth` is;
  `ScriptAssumption`: no file has the script's name, which `exec_sequence` makes from
  a fresh uuid). `SelectedIsWanted`: over a tree of any depth the walk finds what the
  reference says. `ListedTree`: a whole tree is one still when a server refuses some of
  its directories, so this holds of every listing. `FilesStep`: every file call keeps `FilesInv`, from which
  `Session_proofs` has `TransfersAreComplete` and `ScriptsLeaveNoTrace`. `FilesInv` has
  these parts:
  - `TreesInv`: both sides are whole trees (`Whole`: what is above an entry is a
    directory), the remote one until the sim tears it. It takes every call that
    writes, with the directories it makes, the sim's rename of a single entry and
    the server's of a subtree. On a whole tree no listing breaks down and the walk
    reaches every directory.
  - `MappingsInv`: what is got has its directories made before the first file
    comes, and every mapping lands at a path a caller can name (`Given`), so that
    nothing but the script's own steps writes at its name.
  - `GoalInv`: no place of a transfer is another's or lies below it, wherever SCP
    lands, and what is through is where it should be with its source's content
    (`Landed`). The property alone is not inductive: without the places being
    apart a later file could replace an earlier one or the directory it is in.
  - `ScriptInv`: the script is not there while files are transferred, or a `get` or a
    `put` under way could bring it back.
* `Session_proofs`, for any number of listens, rows and ticks (`GapAssumption`):
  `GapsAreSilences`. `GapInv` counts a message as heard when it is stamped, whether or
  not its row is stored (`Heard`), and says that the last of these stamps is `quiet`
  ticks ago and that `longest` is the greatest step between neighbours among them;
  over the stored rows alone neither is inductive, since a row that comes late
  falls between two that are stored.
* `SessionTypes`: the types of all six parts, from the invariants above and `TypesInv`,
  which adds that an idle request has nothing left of the last one (`HttpTypes`),
  that attempts stay within the retries, and that a connection whose close raised
  counts as closed, so that nothing takes it away (`TriesInv`).
* `SshExec_proofs`, for every command, exit code, input and size of window and
  chunk (`ExecAssumption`): `ExecTypeCorrect`, `ReturnsTheCode`, `HandsOverWhatItSaw`,
  `LosesNothingOnTheWay`. `ExecInv` adds `StatusBeforeClose` (the exit status is on its way
  or in before the channel closes, so that an exit code of a channel that closed
  without one means a lost connection or a killed command) and `LooksLast` (a stream that was found
  with nothing pending had been handed over when it was looked at). What a
  sequence of units holds is counted by lemmas of their own (`CountAppend`,
  `CountTail`).
* `SshJobs_proofs`, for every number of callers, keys, jobs and units
  (`JobsAssumption`): `JobsTypeCorrect` and, however callers use their keys,
  `JobsKeepLedger`: each step of a reader, a caller or the remote side maps to one of
  `JobLedger` or to a stutter. `LedgerInv` relates a job's fields to where its reader is
  (`JobSound`: nothing is recorded before the reader's end, what is recorded is what
  was reported, a job is cut off only when it was given up) and a caller to its
  job (`CallSound`), and says that no two callers start the same job.
* `CarefulOwnOutput`: assuming `Discipline = "careful"`, as the run `jobs_safe`
  does. `CarefulInv` says that a key's older readers are dead
  (`OlderDead`), that the registry and every collect are about its last job
  (`RegistryLatest`, `CollectsLatest`), and that the file of a key is that job's
  (`FileWhole`, `AnswersWhole`). Of callers that are not careful the run `jobs_mixed`
  shows the opposite.
* `Listening_proofs`, for every number of topics, messages, losses, requests, calls
  and errors of hooks (`PubSubAssumption`, `ListeningAssumption`, `RecorderAssumption`):
  `ListenTypeCorrect`, `ReceivesWaitSubscribed`, `NothingIsDropped`, `ReceivesItsOwn`.
  `ListenInv` adds to them `SubInv`, what the client believes of the server: with
  requests on their way counted as served (`Settled`), an MQTT server is subscribed to
  the believed topic at most, and to it while nothing harmed the client; a Redis
  server has what the pubsub object has, which is one channel. `MessageInv`
  says that what waits is in order, after all that was returned, and is of the
  believed topic (MQTT) or of the object's channel (Redis), without which a
  change of topic could drop or return another topic's messages. `PumpInv` says
  which thread is in `_receive`: the pump's and the script's never are at once.
* `VerdictsAccountForAll`, there too: by kind, the rows in flight and in the
  table are as many as the messages that were recorded and the hooks that raised,
  and with one listen they are numbered in order (`AccountInv`); a verdict that
  waited for the writer then counts them all. This is claimed while no enqueue has
  raised; without a database (`StaysOff`) there are no rows at all.

Only model-checked:

* all liveness properties (`StopEnds`, `DeliversInOrder`, `CallsReturn`,
  `ExecCompletes`, `ExecComesBack`, `ReaderEnds`, `JobsSettle`, `CallsComeBack`, `HearsAll`):
  liveness under fairness is out of the prover's reach. The safety part of
  `DeliversInOrder` is proved, as `Implements`;
* that the four runs which expect a violation do find one.

No theorem takes an induction over data as such, which the installed provers
cannot do. The walk over a tree is a recursive function; what it computes is shown by
a function that solves its equation, and by the deepest directory at which another
solution would differ, which cannot be (`Least`, from the library's `WFMin`). `Latest`
and `MaxGap` are defined by what they choose, not by a recursion.

Proved and in no run: `PendingLast`, the mailbox's types and
`NoGap` (which `ImplementsLog` contains), `EndsOnlyWhenStopped`, `OneLivePump` (parts of what
`NoOrphan` and `StopDrains` rest on), `DelayTypeCorrect` as a theorem of its own, and the
type invariant `ClientTypeOK` of the ZMQ client, a part of `ClientOK`.

## 7. Not modelled

* The sim drivers' branches of the clients beyond the mailbox and the receives:
  sequential. The sim branch of a job's start makes a job that is done at once.
* The send pumps inside the MQTT and Redis clients: each is `MessagePump` with
  the client's publish as its offer, on a connection that paho and redis-py
  lock themselves, so they are not composed with `Listening`.
* `wait_for_activity` and channels without `fileno` in `_wait_for_activity`: for test doubles.
* `set` and `get` of the Redis client, artifact paths: input and output without
  behaviour of their own.
* Of files: drive letters, letter case, modification times, and what the sim's
  `exec` answers to a command.
* The API modules: one call each into a cached client, recorded by decorators
  of colosseum-core, which is not in this repository.
* The text of messages and errors, logging, encodings: nothing is claimed of
  them.
