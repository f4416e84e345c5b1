---------------------------- MODULE BroadcastLog ----------------------------
(***************************************************************************)
(* What a mailbox promises its subscribers: one log of messages, numbered  *)
(* in the order they were published, and a cursor per subscriber.  Joining *)
(* places the cursor somewhere in the log; from there the subscriber reads *)
(* every later message once, in order, until it leaves.                    *)
(***************************************************************************)
EXTENDS Naturals

CONSTANT Subscribers

VARIABLES
  posted,   \* messages published so far
  joined,   \* the subscribers that are in
  cursor,   \* the last message each of them has read or skipped
  heard     \* the message the last read of each returned

logVars == <<posted, joined, cursor, heard>>

LInit == /\ posted = 0 /\ joined = {}
         /\ cursor = [s \in Subscribers |-> 0]
         /\ heard = [s \in Subscribers |-> 0]

Post == posted' = posted + 1 /\ UNCHANGED <<joined, cursor, heard>>

Join(s) == /\ s \notin joined
           /\ joined' = joined \cup {s}
           /\ \E from \in 0..posted : cursor' = [cursor EXCEPT ![s] = from]
           /\ UNCHANGED <<posted, heard>>

Leave(s) == /\ s \in joined
            /\ joined' = joined \ {s}
            /\ UNCHANGED <<posted, cursor, heard>>

Hear(s) == /\ s \in joined /\ cursor[s] < posted
           /\ cursor' = [cursor EXCEPT ![s] = @ + 1]
           /\ heard' = [heard EXCEPT ![s] = cursor[s] + 1]
           /\ UNCHANGED <<posted, joined>>

LNext == Post \/ \E s \in Subscribers : Join(s) \/ Leave(s) \/ Hear(s)

LSafe == LInit /\ [][LNext]_logVars

\* A subscriber that keeps receiving hears every message.
LSpec == LSafe /\ \A s \in Subscribers : WF_logVars(Hear(s))
=============================================================================
