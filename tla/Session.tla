------------------------------- MODULE Session -------------------------------
(***************************************************************************)
(* What a script does with the clients it keeps over a session: threads    *)
(* that get and close clients through the cache, the requests of an HTTP   *)
(* client, the file calls of an SSH client, the host keys that connection  *)
(* setups accept, the waits of receive and of a listen, and the silences   *)
(* that listens record.  The six share no state, so a behaviour is one of  *)
(* them, never a product.                                                  *)
(***************************************************************************)
EXTENDS HttpRedirects, ConnectionCache, RemoteFiles, HostKeys, Deadlines, ListenGap

VARIABLES part   \* which of the six this behaviour is of

Parts == {"http", "cache", "files", "hosts", "receive", "gap"}

sessionVars == <<part, httpVars, cacheVars, fileVars, hostVars, delayVars, gapVars>>

\* What a part's behaviours choose at first is one thing in all others.
SessionInit ==
  /\ part \in Parts
  /\ HttpInit /\ CacheInit /\ FilesInit /\ HostKeysInit /\ DelayInit /\ GapInit
  /\ part # "cache" => retries = 0
  /\ part # "files" => driver = "sim"
  /\ part # "receive" => client = "mqtt"
  /\ part # "hosts" =>
       /\ ~exists /\ stored["system"] = stored["file"]
       /\ \A h \in HostIds : shows[h] = CHOOSE k \in ServerKeys : TRUE

notHttp    == <<cacheVars, fileVars, hostVars, delayVars, gapVars>>
notCache   == <<httpVars, fileVars, hostVars, delayVars, gapVars>>
notFiles   == <<httpVars, cacheVars, hostVars, delayVars, gapVars>>
notHosts   == <<httpVars, cacheVars, fileVars, delayVars, gapVars>>
notReceive == <<httpVars, cacheVars, fileVars, hostVars, gapVars>>
notGap     == <<httpVars, cacheVars, fileVars, hostVars, delayVars>>

SessionNext ==
  \/ part = "http" /\ HttpNext /\ UNCHANGED <<part, notHttp>>
  \/ part = "cache" /\ CacheNext /\ UNCHANGED <<part, notCache>>
  \/ part = "files" /\ FilesNext /\ UNCHANGED <<part, notFiles>>
  \/ part = "hosts" /\ HostKeysNext /\ UNCHANGED <<part, notHosts>>
  \/ part = "receive" /\ DelayNext /\ UNCHANGED <<part, notReceive>>
  \/ part = "gap" /\ GapNext /\ UNCHANGED <<part, notGap>>

SessionSpec == SessionInit /\ [][SessionNext]_sessionVars
-----------------------------------------------------------------------------
(* Properties *)

\* The type invariant.
SessionTypeOK ==
  /\ part \in Parts /\ FilesTypeOK /\ DelayTypeOK
  /\ stored \in [Stores -> [HostIds -> ServerKeys \cup {Unseen}]]
  /\ doing \in [Listens -> {"poll", "device", "hook", "error"}] /\ clock \in 0..MaxClock
  /\ jar \in [Origins -> SUBSET Names] /\ requests \in 0..MaxRequests
  /\ asked = Idle <=> sent = Idle /\ visited = {}
  /\ asked # Idle =>
       /\ sent.method \in Methods /\ {sent.body, sent.auth, sent.framing} \subseteq BOOLEAN
       /\ DOMAIN sent.cookies \subseteq Names /\ at \in visited /\ visited \subseteq Origins
       /\ \A n \in DOMAIN sent.cookies : sent.cookies[n] \in Origins \cup {User}
       /\ redirects \in 0..MaxRedirects
  /\ retries \in 0..MaxRetries /\ made \in 0..MaxConnections
  /\ pc \in [Threads -> {"idle", "look", "fetch", "closing", "close"} \cup Loading]
  /\ key \in [Threads -> Keys \cup {NoKey}] /\ attempt \in [Threads -> 0..Attempts]
  /\ conn \in [Threads -> 0..made] /\ todo \in [Threads -> SUBSET Keys]
  /\ cache \in [Keys -> 0..made] /\ open \subseteq 1..made /\ stuck \subseteq open
  /\ contended \subseteq Keys
=============================================================================
