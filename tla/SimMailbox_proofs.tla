------------------------- MODULE SimMailbox_proofs -------------------------
(***************************************************************************)
(* Theorems about SimMailbox, for every number of subscriptions and        *)
(* messages: no subscriber misses, repeats or reorders a message, and the  *)
(* mailbox is a broadcast log.                                             *)
(***************************************************************************)
EXTENDS SimMailbox, SequenceTheorems, TLAPS

\* Tokens not handed out yet have no history, and no base lies in the future.
FreshOK ==
  /\ \A t \in Tokens : t > issued => received[t] = <<>>
  /\ \A t \in Tokens : base[t] <= published

MInv == TypeOK /\ PendingIsSuffix /\ NoGap /\ FreshOK

-----------------------------------------------------------------------------
(* What Append and Tail do to a sequence of messages *)

LEMMA AppendFacts ==
  \A s \in Seq(Messages), m \in Messages :
    /\ Append(s, m) \in Seq(Messages)
    /\ Len(Append(s, m)) = Len(s) + 1
    /\ \A i \in 1..Len(s) : Append(s, m)[i] = s[i]
    /\ Append(s, m)[Len(s) + 1] = m
OBVIOUS

LEMMA TailFacts ==
  \A s \in Seq(Messages) : s # <<>> =>
    /\ Head(s) \in Messages /\ Head(s) = s[1]
    /\ Tail(s) \in Seq(Messages)
    /\ Len(s) \in Nat \ {0} /\ Len(Tail(s)) = Len(s) - 1
    /\ \A i \in 1..Len(Tail(s)) : Tail(s)[i] = s[i + 1]
OBVIOUS

LEMMA EmptyFacts == <<>> \in Seq(Messages) /\ Len(<<>>) = 0
OBVIOUS

-----------------------------------------------------------------------------
(* What the operations do to the numbers in a queue *)

LEMMA LastOfEmpty == \A n \in Nat : LastOf(<<>>, n)
BY EmptyFacts DEF LastOf

LEMMA LastOfAppend ==
  ASSUME NEW p \in Seq(Messages), NEW n \in Nat, n + 1 \in Messages, LastOf(p, n)
  PROVE  LastOf(Append(p, n + 1), n + 1)
<1> DEFINE s == Append(p, n + 1)
<1>1. /\ Len(s) = Len(p) + 1
      /\ \A i \in 1..Len(p) : s[i] = p[i]
      /\ s[Len(p) + 1] = n + 1
  BY AppendFacts, Zenon
<1>2. Len(p) \in Nat
  OBVIOUS
<1> HIDE DEF s
<1>3. \A i \in 1..Len(s) : s[i] = (n + 1) - Len(s) + i
  <2> SUFFICES ASSUME NEW i \in 1..Len(s) PROVE s[i] = (n + 1) - Len(s) + i
    OBVIOUS
  <2>1. CASE i \in 1..Len(p)
    BY <1>1, <1>2, <2>1 DEF LastOf
  <2>2. CASE i = Len(p) + 1
    BY <1>1, <1>2, <2>2
  <2> QED BY <1>1, <1>2, <2>1, <2>2
<1> QED BY <1>1, <1>2, <1>3 DEF LastOf, s

LEMMA GapFreeJoin ==
  ASSUME NEW p \in Seq(Messages), NEW n \in Nat, LastOf(p, n)
  PROVE  GapFree(n - Len(p), <<>>, p, n)
<1>1. Len(p) \in Nat
  OBVIOUS
<1> QED BY <1>1, EmptyFacts DEF LastOf, GapFree

LEMMA GapFreePublish ==
  ASSUME NEW r \in Seq(Messages), NEW q \in Seq(Messages), NEW b \in Nat, NEW n \in Nat,
         n + 1 \in Messages, GapFree(b, r, q, n)
  PROVE  GapFree(b, r, Append(q, n + 1), n + 1)
<1> DEFINE s == Append(q, n + 1)
<1>1. /\ Len(s) = Len(q) + 1
      /\ \A i \in 1..Len(q) : s[i] = q[i]
      /\ s[Len(q) + 1] = n + 1
  BY AppendFacts, Zenon
<1>2. Len(q) \in Nat /\ Len(r) \in Nat /\ Len(r) + Len(q) = n - b
  BY DEF GapFree
<1> HIDE DEF s
<1>3. \A i \in 1..Len(s) : s[i] = b + Len(r) + i
  <2> SUFFICES ASSUME NEW i \in 1..Len(s) PROVE s[i] = b + Len(r) + i
    OBVIOUS
  <2>1. CASE i \in 1..Len(q)
    BY <1>1, <1>2, <2>1 DEF GapFree
  <2>2. CASE i = Len(q) + 1
    BY <1>1, <1>2, <2>2
  <2> QED BY <1>1, <1>2, <2>1, <2>2
<1> QED BY <1>1, <1>2, <1>3 DEF GapFree, s

LEMMA GapFreeReceive ==
  ASSUME NEW r \in Seq(Messages), NEW q \in Seq(Messages), NEW b \in Nat, NEW n \in Nat,
         q # <<>>, GapFree(b, r, q, n)
  PROVE  /\ Head(q) = b + Len(r) + 1 /\ b + Len(r) < n
         /\ GapFree(b, Append(r, Head(q)), Tail(q), n)
<1> DEFINE s == Append(r, Head(q))
           u == Tail(q)
<1>1. /\ Head(q) \in Messages /\ Head(q) = q[1]
      /\ u \in Seq(Messages)
      /\ Len(q) \in Nat \ {0} /\ Len(u) = Len(q) - 1
      /\ \A i \in 1..Len(u) : u[i] = q[i + 1]
  BY TailFacts, Zenon
<1>2. /\ Len(s) = Len(r) + 1
      /\ \A i \in 1..Len(r) : s[i] = r[i]
      /\ s[Len(r) + 1] = Head(q)
  BY <1>1, AppendFacts, Zenon
<1>3. Len(r) \in Nat /\ Len(r) + Len(q) = n - b
  BY DEF GapFree
<1> HIDE DEF s, u
<1>4. Head(q) = b + Len(r) + 1 /\ b + Len(r) < n
  BY <1>1, <1>3 DEF GapFree
<1>5. \A i \in 1..Len(s) : s[i] = b + i
  <2> SUFFICES ASSUME NEW i \in 1..Len(s) PROVE s[i] = b + i
    OBVIOUS
  <2>1. CASE i \in 1..Len(r)
    BY <1>2, <1>3, <2>1 DEF GapFree
  <2>2. CASE i = Len(r) + 1
    BY <1>2, <1>3, <1>4, <2>2
  <2> QED BY <1>2, <1>3, <2>1, <2>2
<1>6. \A i \in 1..Len(u) : u[i] = b + Len(s) + i
  <2> SUFFICES ASSUME NEW i \in 1..Len(u) PROVE u[i] = b + Len(s) + i
    OBVIOUS
  <2>1. i + 1 \in 1..Len(q) /\ u[i] = q[i + 1]
    BY <1>1
  <2> QED BY <1>2, <1>3, <2>1 DEF GapFree
<1>7. Len(s) + Len(u) = n - b
  <2>1. Len(s) = Len(r) + 1 /\ Len(u) = Len(q) - 1
    BY <1>1, <1>2, Zenon
  <2>2. Len(r) \in Nat /\ Len(q) \in Nat /\ Len(r) + Len(q) = n - b
    BY <1>3
  <2> QED BY <2>1, <2>2
<1> QED BY <1>4, <1>5, <1>6, <1>7 DEF GapFree, s, u

-----------------------------------------------------------------------------
(* The invariant *)

LEMMA InitMInv == Init => MInv
<1> SUFFICES ASSUME Init PROVE MInv
  OBVIOUS
<1>1. TypeOK
  BY EmptyFacts, MailboxAssumption DEF Init, TypeOK, Tokens
<1>2. PendingIsSuffix
  BY LastOfEmpty DEF Init, PendingIsSuffix
<1> QED BY <1>1, <1>2 DEF Init, MInv, NoGap, FreshOK

LEMMA SubscribeStep ==
  ASSUME MInv, NEW t \in Tokens, Subscribe(t)
  PROVE  MInv'
<1> USE MailboxAssumption DEF MInv, TypeOK, Subscribe, Tokens
<1>1. /\ Len(pending) \in Nat /\ Len(pending) <= published /\ published \in Nat
      /\ pending \in Seq(Messages)
  BY DEF PendingIsSuffix, LastOf
<1>2. received[t] = <<>> /\ t \notin live
  BY DEF FreshOK
<1>3. published - Len(pending) \in 0..published
  BY <1>1
<1>4. TypeOK'
  BY <1>1, <1>3
<1>5. PendingIsSuffix'
  BY DEF PendingIsSuffix
<1>6. FreshOK'
  <2>1. \A u \in Tokens : u # t => base'[u] = base[u]
    OBVIOUS
  <2>2. base'[t] = published - Len(pending)
    OBVIOUS
  <2>3. \A u \in Tokens : base'[u] <= published
    BY <1>3, <2>1, <2>2 DEF FreshOK
  <2>4. issued \in Nat /\ issued' = issued + 1 /\ received' = received
        /\ published' = published
    OBVIOUS
  <2>5. \A u \in Tokens : u > issued' => received'[u] = <<>>
    BY <2>4 DEF FreshOK
  <2> QED BY <2>3, <2>4, <2>5 DEF FreshOK
<1>7. NoGap'
  <2> SUFFICES ASSUME NEW u \in live'
               PROVE  GapFree(base'[u], received'[u], queues'[u], published')
    BY DEF NoGap
  <2>1. CASE u = t
    <3>1. GapFree(published - Len(pending), <<>>, pending, published)
      BY <1>1, GapFreeJoin DEF PendingIsSuffix
    <3>2. /\ base'[t] = published - Len(pending) /\ received'[t] = <<>>
          /\ queues'[t] = pending /\ published' = published
      BY <1>2
    <3> QED BY <2>1, <3>1, <3>2
  <2>2. CASE u # t
    <3>1. /\ u \in live /\ base'[u] = base[u] /\ received'[u] = received[u]
          /\ queues'[u] = queues[u] /\ published' = published
      BY <2>2
    <3> QED BY <3>1 DEF NoGap
  <2> QED BY <2>1, <2>2
<1> QED BY <1>4, <1>5, <1>6, <1>7 DEF MInv

LEMMA UnsubscribeStep ==
  ASSUME MInv, NEW t \in Tokens, Unsubscribe(t)
  PROVE  MInv'
<1> USE MailboxAssumption DEF MInv, TypeOK, Unsubscribe, Tokens
<1>1. TypeOK'
  BY EmptyFacts
<1>2. PendingIsSuffix'
  BY LastOfEmpty DEF PendingIsSuffix
<1>3. FreshOK'
  BY DEF FreshOK
<1>4. NoGap'
  <2> SUFFICES ASSUME NEW u \in live'
               PROVE  GapFree(base'[u], received'[u], queues'[u], published')
    BY DEF NoGap
  <2>1. /\ u \in live /\ base'[u] = base[u] /\ received'[u] = received[u]
        /\ queues'[u] = queues[u] /\ published' = published
    OBVIOUS
  <2> QED BY <2>1 DEF NoGap
<1> QED BY <1>1, <1>2, <1>3, <1>4 DEF MInv

LEMMA PublishStep ==
  ASSUME MInv, Publish
  PROVE  MInv'
<1> USE MailboxAssumption DEF MInv, TypeOK, Publish
<1>0. published + 1 \in Messages /\ published \in Nat /\ published' = published + 1
  BY DEF Messages
<1>1. /\ \A u \in Tokens : /\ queues[u] \in Seq(Messages) /\ received[u] \in Seq(Messages)
                           /\ base[u] \in Nat
      /\ pending \in Seq(Messages)
  OBVIOUS
<1>2. FreshOK'
  BY <1>0 DEF FreshOK
<1>3. CASE live # {}
  <2>1. \A u \in Tokens :
          queues'[u] = IF u \in live THEN Append(queues[u], published + 1) ELSE queues[u]
    BY <1>3
  <2>2. \A u \in Tokens : Append(queues[u], published + 1) \in Seq(Messages)
    BY <1>0, <1>1, AppendFacts, Zenon
  <2>3. queues' \in [Tokens -> Seq(Messages)]
    BY <1>1, <1>3, <2>2
  <2>4. TypeOK'
    BY <1>0, <1>3, <2>3, EmptyFacts
  <2>5. PendingIsSuffix'
    <3>1. pending' = <<>> /\ published' \in Nat
      BY <1>0, <1>3
    <3> QED BY <3>1, LastOfEmpty DEF PendingIsSuffix
  <2>6. NoGap'
    <3> SUFFICES ASSUME NEW u \in live
                 PROVE  GapFree(base[u], received[u], queues'[u], published + 1)
      BY <1>0 DEF NoGap
    <3>1. u \in Tokens
      BY DEF Tokens
    <3>2. queues'[u] = Append(queues[u], published + 1)
      BY <2>1, <3>1
    <3>3. GapFree(base[u], received[u], queues[u], published)
      BY DEF NoGap
    <3> QED BY <1>0, <1>1, <3>1, <3>2, <3>3, GapFreePublish
  <2> QED BY <1>2, <2>4, <2>5, <2>6 DEF MInv
<1>4. CASE live = {}
  <2>1. pending' = Append(pending, published + 1)
    BY <1>4
  <2>2. pending' \in Seq(Messages)
    BY <1>0, <1>1, <2>1, AppendFacts, Zenon
  <2>3. TypeOK'
    BY <1>0, <1>4, <2>2
  <2>4. PendingIsSuffix'
    BY <1>0, <1>1, <2>1, LastOfAppend DEF PendingIsSuffix
  <2>5. NoGap'
    BY <1>4 DEF NoGap
  <2> QED BY <1>2, <2>3, <2>4, <2>5 DEF MInv
<1> QED BY <1>3, <1>4

LEMMA ReceiveStep ==
  ASSUME MInv, NEW t \in Tokens, Receive(t)
  PROVE  /\ MInv'
         /\ Head(queues[t]) = base[t] + Len(received[t]) + 1
         /\ base[t] + Len(received[t]) < published
         /\ Append(received[t], Head(queues[t])) \in Seq(Messages)
         /\ Len(Append(received[t], Head(queues[t]))) = Len(received[t]) + 1
<1> USE MailboxAssumption DEF MInv, TypeOK, Receive
<1>0. /\ queues[t] \in Seq(Messages) /\ received[t] \in Seq(Messages) /\ queues[t] # <<>>
      /\ t \in live /\ base[t] \in Nat /\ published \in Nat
  OBVIOUS
<1>1. Head(queues[t]) \in Messages /\ Tail(queues[t]) \in Seq(Messages)
  BY <1>0, TailFacts, Zenon
<1>2. /\ Append(received[t], Head(queues[t])) \in Seq(Messages)
      /\ Len(Append(received[t], Head(queues[t]))) = Len(received[t]) + 1
  BY <1>0, <1>1, AppendFacts, Zenon
<1>3. TypeOK'
  BY <1>1, <1>2
<1>4. PendingIsSuffix'
  BY DEF PendingIsSuffix
<1>5. FreshOK'
  <2>1. t <= issued
    BY <1>0 DEF Tokens
  <2>2. \A u \in Tokens : u # t => received'[u] = received[u]
    OBVIOUS
  <2>3. base' = base /\ published' = published /\ issued' = issued /\ issued \in Nat
    OBVIOUS
  <2>4. \A u \in Tokens : u > issued => u # t
    BY <2>1, <2>3 DEF Tokens
  <2> QED BY <2>2, <2>3, <2>4 DEF FreshOK
<1>6. GapFree(base[t], received[t], queues[t], published)
  BY <1>0 DEF NoGap
<1>7. /\ Head(queues[t]) = base[t] + Len(received[t]) + 1
      /\ base[t] + Len(received[t]) < published
      /\ GapFree(base[t], Append(received[t], Head(queues[t])), Tail(queues[t]), published)
  BY <1>0, <1>6, GapFreeReceive
<1>8. NoGap'
  <2> SUFFICES ASSUME NEW u \in live
               PROVE  GapFree(base[u], received'[u], queues'[u], published)
    BY DEF NoGap
  <2>1. CASE u = t
    <3>1. queues'[t] = Tail(queues[t])
      OBVIOUS
    <3>2. received'[t] = Append(received[t], Head(queues[t]))
      OBVIOUS
    <3> QED BY <1>7, <2>1, <3>1, <3>2
  <2>2. CASE u # t
    <3>1. u \in Tokens /\ received'[u] = received[u] /\ queues'[u] = queues[u]
      BY <2>2 DEF Tokens
    <3> QED BY <3>1 DEF NoGap
  <2> QED BY <2>1, <2>2
<1> QED BY <1>2, <1>3, <1>4, <1>5, <1>7, <1>8 DEF MInv

LEMMA StutterStep == MInv /\ UNCHANGED vars => MInv'
BY DEF MInv, TypeOK, PendingIsSuffix, NoGap, FreshOK, vars

LEMMA MInvStep == MInv /\ [Next]_vars => MInv'
BY SubscribeStep, UnsubscribeStep, PublishStep, ReceiveStep, StutterStep
   DEF Next, UnsubscribeUnknown, ReceiveNothing

\* However publishes and receives follow each other, the cursors fit the log.
THEOREM Inductive == Spec => []MInv
BY InitMInv, MInvStep, PTL DEF Spec

\* The type invariant holds of every mailbox.
THEOREM TypeCorrect == Spec => []TypeOK
BY Inductive, PTL DEF MInv

\* The messages kept for subscribers to come are the last ones published
\* (publish, subscribe and unsubscribe of _MailboxStore together).
THEOREM PendingLast == Spec => []PendingIsSuffix
BY Inductive, PTL DEF MInv

\* From the first message it is given on, a subscriber gets every message
\* once and in order (publish, receive).
THEOREM Complete == Spec => []NoGap
BY Inductive, PTL DEF MInv

-----------------------------------------------------------------------------
(* The mailbox is a broadcast log *)

LEMMA LogInit == Init => Log!LInit
BY EmptyFacts DEF Init, Log!LInit

LEMMA LogStep == MInv /\ [Next]_vars => [Log!LNext]_(Log!logVars)
<1> SUFFICES ASSUME MInv, [Next]_vars PROVE [Log!LNext]_(Log!logVars)
  OBVIOUS
<1> USE MailboxAssumption DEF MInv, TypeOK
<1> DEFINE Cursor(b, r) == [u \in Tokens |-> b[u] + Len(r[u])]
           Heard(r) == [u \in Tokens |-> IF r[u] = <<>> THEN 0 ELSE r[u][Len(r[u])]]
<1>1. CASE UNCHANGED vars
  BY <1>1 DEF vars, Log!logVars
<1>2. CASE Publish
  BY <1>2 DEF Publish, Log!LNext, Log!Post
<1>3. ASSUME NEW t \in Tokens, Subscribe(t) PROVE Log!Join(t)
  <2>1. t \notin live /\ received[t] = <<>> /\ received' = received
    BY <1>3 DEF Subscribe, FreshOK, Tokens
  <2>2. published - Len(pending) \in 0..published
    BY <1>3 DEF PendingIsSuffix, LastOf
  <2>3. base' = [base EXCEPT ![t] = published - Len(pending)]
    BY <1>3 DEF Subscribe
  <2>4. (published - Len(pending)) + Len(received[t]) = published - Len(pending)
    BY <2>1, <2>2, EmptyFacts
  <2>5. Cursor(base', received) = [Cursor(base, received) EXCEPT ![t] = published - Len(pending)]
    BY <2>3, <2>4
  <2>6. /\ live' = live \cup {t} /\ published' = published
        /\ Heard(received') = Heard(received)
    BY <1>3, <2>1 DEF Subscribe
  <2>7. \E from \in 0..published :
          Cursor(base', received') = [Cursor(base, received) EXCEPT ![t] = from]
    BY <2>1, <2>2, <2>5
  <2> QED BY <2>1, <2>6, <2>7 DEF Log!Join
<1>4. ASSUME NEW t \in Tokens, Unsubscribe(t) PROVE Log!Leave(t)
  BY <1>4 DEF Unsubscribe, Log!Leave
<1>5. ASSUME NEW t \in Tokens, Receive(t) PROVE Log!Hear(t)
  <2> DEFINE s == Append(received[t], Head(queues[t]))
             n == base[t] + Len(received[t])
  <2>1. /\ Head(queues[t]) = n + 1 /\ n < published
        /\ s \in Seq(Messages) /\ Len(s) = Len(received[t]) + 1
    BY <1>5, ReceiveStep
  <2>2. Head(queues[t]) \in Messages
    BY <1>5, TailFacts, Zenon DEF Receive
  <2>3. s[Len(received[t]) + 1] = Head(queues[t])
    BY <2>2, AppendFacts, Zenon
  <2>4. Len(received[t]) \in Nat /\ base[t] \in Nat
    OBVIOUS
  <2>5. s # <<>>
    <3>1. Len(s) # 0
      BY <2>1, <2>4
    <3> QED BY <3>1, EmptyFacts
  <2>6. /\ received' = [received EXCEPT ![t] = s] /\ base' = base
        /\ published' = published /\ live' = live /\ t \in live
    BY <1>5 DEF Receive
  <2> HIDE DEF s
  <2>7. base[t] + Len(s) = n + 1
    BY <2>1, <2>4
  <2>8. \A u \in Tokens : base'[u] + Len(received'[u])
                            = IF u = t THEN n + 1 ELSE base[u] + Len(received[u])
    BY <2>6, <2>7
  <2>9. \A u \in Tokens : (IF received'[u] = <<>> THEN 0 ELSE received'[u][Len(received'[u])])
                            = IF u = t THEN n + 1
                              ELSE IF received[u] = <<>> THEN 0
                                   ELSE received[u][Len(received[u])]
    BY <2>1, <2>3, <2>5, <2>6
  <2>10. Cursor(base', received') = [Cursor(base, received) EXCEPT ![t] = Cursor(base, received)[t] + 1]
    BY <2>8
  <2>11. Heard(received') = [Heard(received) EXCEPT ![t] = Cursor(base, received)[t] + 1]
    BY <2>9
  <2> QED BY <2>1, <2>6, <2>10, <2>11 DEF Log!Hear
<1> QED BY <1>1, <1>2, <1>3, <1>4, <1>5
        DEF Next, UnsubscribeUnknown, ReceiveNothing, Log!LNext

\* Every behaviour of the mailbox is one of the log (safety; that every
\* message is heard is left to the model checker).
THEOREM Implements == Spec => ImplementsLog
BY LogInit, LogStep, Inductive, PTL DEF Spec, ImplementsLog, Log!LSafe
=============================================================================
