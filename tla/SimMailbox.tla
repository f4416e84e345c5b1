----------------------------- MODULE SimMailbox -----------------------------
(***************************************************************************)
(* One mailbox of _MailboxStore (sim.py), the bus of the sim drivers: a    *)
(* queue per subscriber token, and the messages kept for subscribers to    *)
(* come.  Every method holds the store's lock, so each is one step;        *)
(* receive's polling loop takes one step per turn that finds a message.    *)
(* Messages are numbered in the order they are published.  Mailboxes of    *)
(* other keys share nothing with this one but the counter of tokens.       *)
(***************************************************************************)
EXTENDS Naturals, Sequences

CONSTANTS MaxTokens,    \* bound: subscribe calls over the run
          MaxMessages   \* bound: publish calls over the run

ASSUME MailboxAssumption == MaxTokens \in Nat /\ MaxMessages \in Nat

Tokens   == 1..MaxTokens
Messages == 1..MaxMessages

VARIABLES
  issued,     \* tokens handed out
  live,       \* _subscribers: the tokens that have a queue
  queues,     \* the queue of each token
  pending,    \* _pending
  published,  \* history: messages published so far
  early,      \* history: messages published when the first token was issued
  base,       \* history: the message before the first one of each token
  received    \* history: what receive returned to each token, in order

vars == <<issued, live, queues, pending, published, early, base, received>>

Init ==
  /\ issued = 0 /\ live = {} /\ published = 0 /\ early = 0 /\ pending = <<>>
  /\ queues = [t \in Tokens |-> <<>>]
  /\ base = [t \in Tokens |-> 0]
  /\ received = [t \in Tokens |-> <<>>]

\* The new queue starts as a copy of the pending messages.
Subscribe(t) ==
  /\ t = issued + 1
  /\ issued' = t
  /\ live' = live \cup {t}
  /\ queues' = [queues EXCEPT ![t] = pending]
  /\ base' = [base EXCEPT ![t] = published - Len(pending)]
  /\ early' = IF t = 1 THEN published ELSE early
  /\ UNCHANGED <<pending, published, received>>

\* The last subscriber to leave takes the pending messages with it.
Unsubscribe(t) ==
  /\ t \in live
  /\ live' = live \ {t}
  /\ queues' = [queues EXCEPT ![t] = <<>>]
  /\ pending' = IF live = {t} THEN <<>> ELSE pending
  /\ UNCHANGED <<issued, published, early, base, received>>

UnsubscribeUnknown(t) ==                 \* "if mailbox_key is None: return"
  /\ t \notin live
  /\ UNCHANGED vars

\* Mutant of Publish: a present subscriber takes the message for all.
PublishToOne ==
  /\ published < MaxMessages
  /\ published' = published + 1
  /\ IF live # {}
     THEN /\ \E t \in live : queues' = [queues EXCEPT ![t] = Append(@, published + 1)]
          /\ pending' = <<>>
     ELSE /\ pending' = Append(pending, published + 1)
          /\ UNCHANGED queues
  /\ UNCHANGED <<issued, live, early, base, received>>

Publish ==
  /\ published < MaxMessages
  /\ published' = published + 1
  /\ IF live # {}
     THEN /\ queues' = [t \in Tokens |->
             IF t \in live THEN Append(queues[t], published + 1) ELSE queues[t]]
          /\ pending' = <<>>
     ELSE /\ pending' = Append(pending, published + 1)
          /\ UNCHANGED queues
  /\ UNCHANGED <<issued, live, early, base, received>>

\* Mutant of Receive: the newest message first.
ReceiveNewest(t) ==
  LET n == Len(queues[t]) IN
  /\ t \in live /\ queues[t] # <<>>
  /\ queues' = [queues EXCEPT ![t] = SubSeq(@, 1, n - 1)]
  /\ received' = [received EXCEPT ![t] = Append(@, queues[t][n])]
  /\ UNCHANGED <<issued, live, pending, published, early, base>>

Receive(t) ==
  /\ t \in live /\ queues[t] # <<>>
  /\ queues' = [queues EXCEPT ![t] = Tail(@)]
  /\ received' = [received EXCEPT ![t] = Append(@, Head(queues[t]))]
  /\ UNCHANGED <<issued, live, pending, published, early, base>>

\* The deadline passes with nothing queued: None.
ReceiveNothing(t) ==
  /\ t \in live => queues[t] = <<>>
  /\ UNCHANGED vars

Next == \/ Publish
        \/ \E t \in Tokens : \/ Subscribe(t) \/ Unsubscribe(t) \/ UnsubscribeUnknown(t)
                            \/ Receive(t) \/ ReceiveNothing(t)

Spec == Init /\ [][Next]_vars

\* Every subscriber keeps calling receive.
FairSpec == Spec /\ \A t \in Tokens : WF_vars(Receive(t))
-----------------------------------------------------------------------------
(* Properties *)

\* The type invariant.
TypeOK ==
  /\ issued \in 0..MaxTokens /\ live \in SUBSET (1..issued)
  /\ published \in 0..MaxMessages /\ early \in 0..published /\ pending \in Seq(Messages)
  /\ queues \in [Tokens -> Seq(Messages)] /\ received \in [Tokens -> Seq(Messages)]
  /\ base \in [Tokens -> 0..MaxMessages]

\* The messages n - Len(p) + 1, ..., n in order.
LastOf(p, n) ==
  /\ Len(p) <= n
  /\ \A i \in 1..Len(p) : p[i] = n - Len(p) + i

\* The messages kept for subscribers to come are the last ones published.
PendingIsSuffix == LastOf(pending, published)

\* r followed by q is b + 1, ..., n in order.
GapFree(b, r, q, n) ==
  /\ Len(r) + Len(q) = n - b
  /\ \A i \in 1..Len(r) : r[i] = b + i
  /\ \A i \in 1..Len(q) : q[i] = b + Len(r) + i

\* From the first message it was given on, a subscriber gets every message
\* once and in the order of publication: what it has received and what is
\* queued for it have no gap, no duplicate, and end with the last message.
NoGap == \A t \in live : GapFree(base[t], received[t], queues[t], published)

\* The mailbox is a broadcast log.
Log == INSTANCE BroadcastLog WITH
  Subscribers <- Tokens,
  posted <- published,
  joined <- live,
  cursor <- [t \in Tokens |-> base[t] + Len(received[t])],
  heard  <- [t \in Tokens |-> IF received[t] = <<>> THEN 0
                              ELSE received[t][Len(received[t])]]

ImplementsLog == Log!LSafe
HearsAll == Log!LSpec

\* "Publishes that arrived before any subscriber; copied into each new
\* subscriber queue": while the first subscriber stays, every other one is
\* given what had been published before the first came.
EarlyPublishesReachAll ==
  1 \in live /\ early > 0 => \A t \in live : base[t] = 0
=============================================================================
