--------------------------- MODULE ListenRecorder ---------------------------
(***************************************************************************)
(* The listen handler and verify_recorded (_listen.py), for the listens    *)
(* that use one key: a row per message taken off the client, a further one *)
(* when the hook raises, and the verdict over the rows that are stored.    *)
(* External: the core's database queues a row that is enqueued, and its    *)
(* writer stores the rows one by one, in order; drain waits until none is  *)
(* queued; list_measurements returns the stored rows in that order.  A     *)
(* script may run without that database, as it does outside the core's     *)
(* runner; that it is opened or closed under a running listen is left out. *)
(***************************************************************************)
EXTENDS Naturals, Sequences, FiniteSets

CONSTANTS Failing,        \* the messages whose payload fail_pattern finds
          MaxMatched,     \* verify_listen's max_matched
          MinReceived,    \* verify_listen's min_received
          MaxHookErrors   \* bound: hooks that raise over the run

ASSUME RecorderAssumption == MaxHookErrors \in Nat

VARIABLES
  index,    \* the handler's next row_index
  writes,   \* rows enqueued and not yet stored
  table,    \* the rows that list_measurements returns
  recording, \* "on"; "off": no context, or its database is not initialised;
             \* history, "gaps": an enqueue raised, and its row is lost
  raised    \* history: hooks that raised

recorderVars == <<index, writes, table, recording, raised>>

RecorderInit ==
  index = 0 /\ writes = <<>> /\ table = <<>> /\ recording \in {"on", "off"} /\ raised = 0

Device == {"PASS", "FAIL"}

\* make_handler: each listen counts its rows from 0.
MakeHandler ==
  /\ index' = 0
  /\ UNCHANGED <<writes, table, recording, raised>>

\* Without a database the row is dropped in silence.
Enqueue(m, status) ==
  /\ index' = index + 1
  /\ writes' = IF recording = "off" THEN writes
               ELSE Append(writes, [msg |-> m, index |-> index, status |-> status])
  /\ UNCHANGED <<table, recording>>

\* enqueue_measurement raises, out of the handler.
EnqueueRaises ==
  /\ recording # "off" /\ recording' = "gaps"
  /\ index' = index + 1
  /\ UNCHANGED <<writes, table>>

\* handler(message), up to the call of the hook.
RecordMessage(m) ==
  /\ Enqueue(m, IF m \in Failing THEN "FAIL" ELSE "PASS")
  /\ UNCHANGED raised

\* The handler ends at its first row.
RecordRaises == EnqueueRaises /\ UNCHANGED raised

\* The hook raised: a row of its own, after the message's.
RecordError(m) ==
  /\ raised < MaxHookErrors /\ raised' = raised + 1
  /\ Enqueue(m, "ERROR") \/ EnqueueRaises

\* The database's writer.
Store ==
  /\ writes # <<>>
  /\ table' = Append(table, Head(writes))
  /\ writes' = Tail(writes)
  /\ UNCHANGED <<index, recording, raised>>

\* Mutant of Drained: drain does not wait.
DrainedAtOnce == TRUE

\* drain_writes returns.
Drained == writes = <<>>

\* Which rows have one of the statuses.
With(rows, statuses) == {i \in DOMAIN rows : rows[i].status \in statuses}

\* _latest_payload: the first of the rows with the greatest row_index.
Latest(rows, device) ==
  LET top == CHOOSE i \in device :
               \A j \in device :
                 rows[j].index <= rows[i].index /\ (j < i => rows[j].index < rows[i].index)
  IN rows[top].msg

Missing == [status |-> "missing"]

\* verify_recorded, once it has drained.
Judge ==
  LET device   == With(table, Device)
      received == Cardinality(device)
      matched  == Cardinality(With(table, {"FAIL"}))
      errors   == Cardinality(With(table, {"ERROR"}))
      passes   == matched <= MaxMatched /\ errors = 0 /\ received >= MinReceived
  IN IF recording = "off" \/ (device = {} /\ MinReceived > 0) THEN Missing
     ELSE [status   |-> IF passes THEN "PASS" ELSE "FAIL",
           received |-> received, matched |-> matched, errors |-> errors,
           latest   |-> IF device = {} THEN 0 ELSE Latest(table, device)]
=============================================================================
