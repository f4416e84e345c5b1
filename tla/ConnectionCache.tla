-------------------------- MODULE ConnectionCache --------------------------
(***************************************************************************)
(* The cache of clients (_cache.py, connections.py) with what opens an SSH *)
(* client (ssh/client.py, _connect_paramiko): several threads get clients  *)
(* by key, opening the ones that are missing, while close_all runs.        *)
(* Nothing holds a lock; a dictionary access is atomic.  A connection is   *)
(* numbered when it is opened and stands for its socket, transport and     *)
(* client.  External: the network, and whether a close raises.             *)
(***************************************************************************)
EXTENDS Naturals

CONSTANTS Threads, Keys,
          MaxRetries,     \* bound: the caller's retries
          MaxConnections  \* bound: connections opened over the run

ASSUME CacheAssumption == MaxRetries \in Nat /\ MaxConnections \in Nat

VARIABLES
  retries,   \* get_ssh_client's retries, the same in every call
  pc,        \* where each thread is
  key,       \* the key a thread was asked for
  attempt,   \* its connection attempt
  conn,      \* the connection it holds, 0 if none
  todo,      \* keys_to_close
  cache,     \* resource_cache: the connection by key, 0 if none
  open,      \* connections that stand
  made,      \* connections opened so far
  closes,    \* history: how often close was called, by connection
  stuck,     \* history: connections whose close raised
  contended  \* history: keys that two threads were loading at a time

cacheVars == <<retries, pc, key, attempt, conn, todo, cache, open, made, closes, stuck, contended>>

NoKey == "none"

CacheInit ==
  /\ retries \in 0..MaxRetries
  /\ pc = [t \in Threads |-> "idle"] /\ key = [t \in Threads |-> NoKey]
  /\ attempt = [t \in Threads |-> 0] /\ conn = [t \in Threads |-> 0]
  /\ todo = [t \in Threads |-> {}] /\ cache = [k \in Keys |-> 0]
  /\ open = {} /\ made = 0 /\ closes = [c \in 1..MaxConnections |-> 0]
  /\ stuck = {} /\ contended = {}

At(t, from) == pc[t] = from

Goto(t, to) == pc' = [pc EXCEPT ![t] = to]

\* The call ends; what the thread still held is its caller's from here on.
Leave(t) ==
  /\ Goto(t, "idle") /\ key' = [key EXCEPT ![t] = NoKey]
  /\ attempt' = [attempt EXCEPT ![t] = 0] /\ conn' = [conn EXCEPT ![t] = 0]

-----------------------------------------------------------------------------
(* cached_resource *)

Loading == {"connect", "handshake", "hostKey", "auth", "store"}

Get(t, k) ==
  /\ At(t, "idle") /\ Goto(t, "look") /\ key' = [key EXCEPT ![t] = k]
  /\ UNCHANGED <<retries, attempt, conn, todo, cache, open, made, closes, stuck, contended>>

Found(t) ==
  /\ At(t, "look") /\ cache[key[t]] # 0 /\ Goto(t, "fetch")
  /\ UNCHANGED <<retries, key, attempt, conn, todo, cache, open, made, closes, stuck, contended>>

\* cache[key] is returned, or raises KeyError if it was closed meanwhile.
Fetch(t) ==
  /\ At(t, "fetch") /\ Leave(t)
  /\ UNCHANGED <<retries, todo, cache, open, made, closes, stuck, contended>>

Missing(t) ==
  /\ At(t, "look") /\ cache[key[t]] = 0 /\ Goto(t, "connect")
  /\ attempt' = [attempt EXCEPT ![t] = 1]
  /\ contended' = IF \E u \in Threads \ {t} : key[u] = key[t] /\ pc[u] \in Loading
                  THEN contended \cup {key[t]} ELSE contended
  /\ UNCHANGED <<retries, key, conn, todo, cache, open, made, closes, stuck>>

Store(t) ==
  /\ At(t, "store") /\ cache' = [cache EXCEPT ![key[t]] = conn[t]] /\ Leave(t)
  /\ UNCHANGED <<retries, todo, open, made, closes, stuck, contended>>

-----------------------------------------------------------------------------
(* _connect_paramiko and _connect_once *)

\* _connection_attempts
Attempts == IF retries = 0 THEN 1 ELSE retries

\* The TCP connection stands: socket.create_connection, or the first half of
\* paramiko's connect.
Connect(t) ==
  /\ At(t, "connect") /\ made < MaxConnections
  /\ made' = made + 1 /\ open' = open \cup {made + 1}
  /\ conn' = [conn EXCEPT ![t] = made + 1] /\ Goto(t, "handshake")
  /\ UNCHANGED <<retries, key, attempt, todo, cache, closes, stuck, contended>>

Proceed(t, from, to) ==
  /\ At(t, from) /\ Goto(t, to)
  /\ UNCHANGED <<retries, key, attempt, conn, todo, cache, open, made, closes, stuck, contended>>

Handshake(t) == Proceed(t, "handshake", "hostKey")
HostKey(t)   == Proceed(t, "hostKey", "auth")
Auth(t)      == Proceed(t, "auth", "store")

\* Mutant of Abandoned: the finally block closes nothing.
AbandonedOpen(t) == open

\* What stands after the finally block of a failed attempt.
Abandoned(t) == open \ {conn[t]}

\* Mutant of LastAttempt: the first attempt is not counted as one of them.
LastAttemptPlusOne(t) == attempt[t] > Attempts

LastAttempt(t) == attempt[t] = Attempts

\* The attempt fails, at any step.  Only a transient error is tried again: a
\* wrong host key, a refused authentication or an error of the local machine
\* is not.
AttemptFails(t, transient) ==
  /\ pc[t] \in Loading \ {"store"}
  /\ open' = Abandoned(t)
  /\ IF transient /\ ~LastAttempt(t)
     THEN /\ Goto(t, "connect") /\ attempt' = [attempt EXCEPT ![t] = @ + 1]
          /\ conn' = [conn EXCEPT ![t] = 0] /\ UNCHANGED key
     ELSE Leave(t)
  /\ UNCHANGED <<retries, todo, cache, made, closes, stuck, contended>>

-----------------------------------------------------------------------------
(* close_cached_resources *)

CloseAll(t) ==
  /\ At(t, "idle") /\ Goto(t, "closing")
  /\ todo' = [todo EXCEPT ![t] = {k \in Keys : cache[k] # 0}]
  /\ UNCHANGED <<retries, key, attempt, conn, cache, open, made, closes, stuck, contended>>

\* Mutant of Popped: the entry is looked up and stays.
PoppedNothing(k) == cache

Popped(k) == [cache EXCEPT ![k] = 0]

\* The next key; somebody else may have closed its client already, and may
\* have put another one in its place.
Pop(t, k) ==
  /\ At(t, "closing") /\ k \in todo[t]
  /\ todo' = [todo EXCEPT ![t] = @ \ {k}]
  /\ conn' = [conn EXCEPT ![t] = cache[k]] /\ cache' = Popped(k)
  /\ IF cache[k] = 0 THEN UNCHANGED pc ELSE Goto(t, "close")
  /\ UNCHANGED <<retries, key, attempt, open, made, closes, stuck, contended>>

\* close() returns, or raises and leaves the connection as it is.
Close(t) ==
  /\ At(t, "close") /\ Goto(t, "closing")
  /\ closes' = [closes EXCEPT ![conn[t]] = @ + 1]
  /\ conn' = [conn EXCEPT ![t] = 0]
  /\ \/ open' = open \ {conn[t]} /\ UNCHANGED stuck
     \/ stuck' = stuck \cup {conn[t]} /\ UNCHANGED open
  /\ UNCHANGED <<retries, key, attempt, todo, cache, made, contended>>

AllClosed(t) ==
  /\ At(t, "closing") /\ todo[t] = {} /\ Leave(t)
  /\ UNCHANGED <<retries, todo, cache, open, made, closes, stuck, contended>>

CacheNext ==
  \E t \in Threads :
    \/ \E k \in Keys : Get(t, k) \/ Pop(t, k)
    \/ Found(t) \/ Fetch(t) \/ Missing(t) \/ Store(t)
    \/ Connect(t) \/ Handshake(t) \/ HostKey(t) \/ Auth(t)
    \/ \E transient \in BOOLEAN : AttemptFails(t, transient)
    \/ CloseAll(t) \/ Close(t) \/ AllClosed(t)
-----------------------------------------------------------------------------
(* Properties *)

\* A connection that stands can be reached and closed: it is in the cache or
\* in the hands of the thread that opens or closes it.  Failed attempts leave
\* nothing open.  Left out are a close that raised and a key that two threads
\* were loading at a time, where the code does lose connections.
EveryConnectionOwned ==
  contended = {} =>
    \A c \in open \ stuck : \/ \E k \in Keys : cache[k] = c
                            \/ \E t \in Threads : conn[t] = c

\* No client is closed twice, whoever calls close_all at the same time, and
\* none is handed out of the cache after its close has begun.
ClosesOnce ==
  /\ \A c \in 1..MaxConnections : closes[c] <= 1
  /\ \A k \in Keys : cache[k] # 0 =>
       /\ cache[k] \in open /\ closes[cache[k]] = 0
       /\ ~\E t \in Threads : pc[t] = "close" /\ conn[t] = cache[k]
=============================================================================
