------------------------------ MODULE HostKeys ------------------------------
(***************************************************************************)
(* Which server keys a connection setup accepts and keeps (ssh/client.py): *)
(* clients of both modes over a known_hosts file that they share or over   *)
(* the system's store, while servers may get new keys.  auth="auto" takes  *)
(* a first-seen key, and keeps it in the file; over the system's store,    *)
(* which is the default, it keeps it in the client's own memory only, and  *)
(* meets the host as unseen again.  auth="none" takes none.  External:     *)
(* paramiko's check in connect and its AutoAddPolicy, which saves the key  *)
(* before the login.  Setups over one file do not overlap in time here:    *)
(* paramiko rewrites the file in several steps, and how it merges two is   *)
(* not modelled.                                                           *)
(***************************************************************************)
CONSTANTS HostIds,     \* hosts as they are looked up: name, or [name]:port
          ServerKeys,  \* the keys that servers have
          Unseen       \* no key: the store has no entry

ASSUME UnseenIsNoKey == Unseen \notin ServerKeys

Stores == {"file", "system"}   \* known_hosts given or not
Auths  == {"auto", "none"}

VARIABLES
  exists,    \* whether the known_hosts file exists
  stored,    \* per store: the key of each host
  shows,     \* the key that each server has now
  accepted   \* history, per mode, store and host: keys that setups went on with

hostVars == <<exists, stored, shows, accepted>>

HostKeysInit ==
  /\ exists \in BOOLEAN
  /\ stored \in [Stores -> [HostIds -> ServerKeys \cup {Unseen}]]
  /\ ~exists => stored["file"] = [h \in HostIds |-> Unseen]
  /\ shows \in [HostIds -> ServerKeys]
  /\ accepted = [auth \in Auths |-> [s \in Stores |-> [h \in HostIds |-> {}]]]

\* The server is installed anew.
NewServerKey(h) ==
  /\ \E k \in ServerKeys : shows' = [shows EXCEPT ![h] = k]
  /\ UNCHANGED <<exists, stored, accepted>>

Accept(auth, s, h) ==
  accepted' = [accepted EXCEPT ![auth][s][h] = @ \cup {shows[h]}]

\* _load_host_keys of "auto" creates the file; the server may not answer then.
CreateFile ==
  /\ ~exists /\ exists' = TRUE
  /\ UNCHANGED <<stored, shows, accepted>>

\* _connect_once: AutoAddPolicy for a host without an entry, which only the
\* file gets; BadHostKeyException, without a change, for another key.
ConnectAuto(s, h) ==
  /\ stored[s][h] \in {Unseen, shows[h]}
  /\ IF s = "file"
     THEN exists' = TRUE /\ stored' = [stored EXCEPT ![s][h] = shows[h]]
     ELSE UNCHANGED <<exists, stored>>
  /\ Accept("auto", s, h) /\ UNCHANGED shows

\* Mutant of Trusts: the entry is not compared.
TrustsPresent(s, h) == stored[s][h] # Unseen

\* _require_known_host_key, _store_trusts_key: of the two stores that are
\* looked at only the configured one is filled; False and None raise alike.
Trusts(s, h) == stored[s][h] = shows[h]

\* _connect_auth_none; a file that does not exist raises when it is loaded.
ConnectNone(s, h) ==
  /\ s = "file" => exists
  /\ Trusts(s, h)
  /\ Accept("none", s, h) /\ UNCHANGED <<exists, stored, shows>>

HostKeysNext ==
  \/ CreateFile
  \/ \E h \in HostIds :
       NewServerKey(h) \/ \E s \in Stores : ConnectAuto(s, h) \/ ConnectNone(s, h)
-----------------------------------------------------------------------------
\* A host keeps the identity that a store has for it: whichever clients, of
\* either mode, set up connections over a store and in whatever order servers
\* change keys meanwhile, all went on with the one key the store has now.  So
\* of a file "newly accepted keys are saved there", "existing known keys are
\* checked", and auth="none" never goes on with a key that was neither enrolled
\* nor saved, whatever auth="auto" took meanwhile.  Nothing is claimed of "auto"
\* over the system's store for a host that has no entry there: each setup takes
\* the key it is shown, and successive ones may take different keys.
OneKeyPerHost ==
  \A auth \in Auths, s \in Stores, h \in HostIds :
    \/ accepted[auth][s][h] \subseteq {stored[s][h]}
    \/ auth = "auto" /\ s = "system" /\ stored[s][h] = Unseen
=============================================================================
