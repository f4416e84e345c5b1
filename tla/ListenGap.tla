----------------------------- MODULE ListenGap -----------------------------
(***************************************************************************)
(* The longest silence that verify_listen judges (_listen.py): each thread *)
(* that listens under the key stamps a row with the clock and then hands   *)
(* it to the database, so that rows of two clients are stored in another   *)
(* order than they are stamped; a row of a failed hook has a stamp too.    *)
(* External: the database's queue keeps the order in which rows come.      *)
(***************************************************************************)
EXTENDS Integers, Sequences, FiniteSetsExt

CONSTANTS Listens,   \* the threads that listen under the key
          MaxClock,  \* bound: the clock's ticks
          MaxRows    \* bound: rows of the run

ASSUME GapAssumption == MaxClock \in Nat

VARIABLES
  doing,    \* per listen: "poll", "device", "hook", "error"
  stamp,    \* per listen: the timestamp of the row it is about to enqueue
  rows,     \* the rows in the order of the database
  clock,
  quiet,    \* history: ticks since a message was last stamped, or -1
  longest   \* history: the longest such time between two messages

gapVars == <<doing, stamp, rows, clock, quiet, longest>>

GapInit ==
  /\ doing = [l \in Listens |-> "poll"] /\ stamp = [l \in Listens |-> 0]
  /\ rows = <<>> /\ clock = 0 /\ quiet = -1 /\ longest = 0

\* handler: datetime.now for the row of a message, then of its hook's error.
StampMessage(l) ==
  /\ doing[l] = "poll" /\ doing' = [doing EXCEPT ![l] = "device"]
  /\ stamp' = [stamp EXCEPT ![l] = clock]
  /\ longest' = IF quiet > longest THEN quiet ELSE longest
  /\ quiet' = 0 /\ UNCHANGED <<rows, clock>>

StampError(l) ==
  /\ doing[l] = "hook" /\ doing' = [doing EXCEPT ![l] = "error"]
  /\ stamp' = [stamp EXCEPT ![l] = clock]
  /\ UNCHANGED <<rows, clock, quiet, longest>>

\* enqueue_measurement.
EnqueueRow(l) ==
  /\ doing[l] \in {"device", "error"} /\ Len(rows) < MaxRows
  /\ rows' = Append(rows, [status |-> doing[l], timestamp |-> stamp[l]])
  /\ doing' = [doing EXCEPT ![l] = IF doing[l] = "device" THEN "hook" ELSE "poll"]
  /\ stamp' = [stamp EXCEPT ![l] = 0]
  /\ UNCHANGED <<clock, quiet, longest>>

ListensOn(l) ==
  /\ doing[l] = "hook" /\ doing' = [doing EXCEPT ![l] = "poll"]
  /\ UNCHANGED <<stamp, rows, clock, quiet, longest>>

TimePasses ==
  /\ clock < MaxClock /\ clock' = clock + 1
  /\ quiet' = IF quiet = -1 THEN -1 ELSE quiet + 1
  /\ UNCHANGED <<doing, stamp, rows, longest>>

GapNext ==
  \/ TimePasses
  \/ \E l \in Listens : StampMessage(l) \/ StampError(l) \/ EnqueueRow(l) \/ ListensOn(l)
-----------------------------------------------------------------------------
\* The rows that max_gap_s is computed over, and what comes of their order.
Stamped == {i \in DOMAIN rows : rows[i].status = "device"}
Stamp(i) == rows[i].timestamp

GreatestStep(next) == Max({0} \cup {Stamp(p[2]) - Stamp(p[1]) : p \in next})

\* Mutant of MaxGap: without the sort.
MaxGapAsStored ==
  GreatestStep({p \in Stamped \X Stamped :
                  p[1] < p[2] /\ \A i \in Stamped : ~(p[1] < i /\ i < p[2])})

\* _max_gap_s: one stamp comes next to another in the sorted ones if no third
\* is between them.
MaxGap ==
  GreatestStep({p \in Stamped \X Stamped :
                  /\ Stamp(p[1]) <= Stamp(p[2])
                  /\ \A i \in Stamped : ~(Stamp(p[1]) < Stamp(i) /\ Stamp(i) < Stamp(p[2]))})

\* Once every row that is stamped is stored, max_gap_s is "the longest gap
\* between stored timestamps after the first message": the longest time no
\* client that listens under the key heard a message, in whatever order their
\* threads stored the rows, and rows of failed hooks do not shorten it.
GapIsLongestSilence ==
  (\A l \in Listens : doing[l] # "device") => MaxGap = longest
=============================================================================
