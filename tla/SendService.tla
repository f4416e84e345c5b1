---------------------------- MODULE SendService ----------------------------
(***************************************************************************)
(* What start_sender / enqueue / stop_sender promise, without threads: a   *)
(* first-in first-out delivery service per pump.  A payload the service    *)
(* accepted is offered to the socket at most once and in the order of      *)
(* acceptance, and everything accepted before the stop was requested is    *)
(* offered before the service goes down.  The service promises nothing     *)
(* about a payload accepted while it is stopping.                          *)
(***************************************************************************)
EXTENDS Naturals, Sequences

CONSTANTS Pumps,     \* the pumps a handle ever holds, one per start
          Items      \* payloads handed to enqueue

VARIABLES accepted,  \* accepted[p]: payloads taken by enqueue, in order
          offered,   \* offered[p]: payloads handed to the socket, in order
          phase,     \* phase[p]: "new", "up", "stopping" or "down"
          owed       \* owed[p]: how many payloads the stop must still let out

svars == <<accepted, offered, phase, owed>>

SInit == /\ accepted = [p \in Pumps |-> <<>>]
         /\ offered  = [p \in Pumps |-> <<>>]
         /\ phase    = [p \in Pumps |-> "new"]
         /\ owed     = [p \in Pumps |-> 0]

SStart(p) == /\ phase[p] = "new"
             /\ phase' = [phase EXCEPT ![p] = "up"]
             /\ UNCHANGED <<accepted, offered, owed>>

\* The caller was told "accepted" (no exception).
SAccept(p, i) == /\ phase[p] # "new"
                 /\ accepted' = [accepted EXCEPT ![p] = Append(@, i)]
                 /\ UNCHANGED <<offered, phase, owed>>

\* The next accepted payload, never another one, goes to the socket.
SOffer(p) == /\ phase[p] \in {"up", "stopping"}
             /\ Len(offered[p]) < Len(accepted[p])
             /\ offered' = [offered EXCEPT ![p] =
                              Append(@, accepted[p][Len(offered[p]) + 1])]
             /\ UNCHANGED <<accepted, phase, owed>>

SStop(p) == /\ phase[p] = "up"
            /\ phase' = [phase EXCEPT ![p] = "stopping"]
            /\ owed'  = [owed EXCEPT ![p] = Len(accepted[p])]
            /\ UNCHANGED <<accepted, offered>>

\* Down only after a stop, and only with the owed payloads out.
SDown(p) == /\ phase[p] = "stopping"
            /\ Len(offered[p]) >= owed[p]
            /\ phase' = [phase EXCEPT ![p] = "down"]
            /\ UNCHANGED <<accepted, offered, owed>>

SNext == \E p \in Pumps :
            \/ SStart(p) \/ SOffer(p) \/ SStop(p) \/ SDown(p)
            \/ \E i \in Items : SAccept(p, i)

SSafe == SInit /\ [][SNext]_svars

SSpec == SSafe /\ \A p \in Pumps : WF_svars(SOffer(p))
=============================================================================
