----------------------------- MODULE ZmqClient -----------------------------
(***************************************************************************)
(* A ZmqClientWrapper (zmq/client.py) around its pump.  A PUB client has   *)
(* one-shot send and a send pump, a SUB client one-shot receive and a      *)
(* listen pump; the other handle of the pair is never started, so a        *)
(* client is its socket and one pump.  The controllers of MessagePump call *)
(* send or receive and close besides start and stop; HasPoll and HasOffer  *)
(* say which of the two clients it is.                                     *)
(***************************************************************************)
EXTENDS MessagePump

VARIABLES
  socket,  \* "open", or "closed" once self._socket is None
  use      \* where each controller is in send, receive or close

clientVars == <<socket, use>>
allVars == <<vars, clientVars>>

ClientInit ==
  /\ Init
  /\ socket = "open"
  /\ use = [c \in Controllers |-> "idle"]

Free(c) == use[c] = "idle" /\ ctl[c] = "idle"

Enter(c, from, to) == use[c] = from /\ use' = [use EXCEPT ![c] = to]

-----------------------------------------------------------------------------
(* send and receive *)

UseRefused(c) ==                         \* raises "ZMQ pump owns this socket"
  /\ Free(c) /\ Running
  /\ UNCHANGED allVars

\* Mutant of UseCheck: nobody asks whether the pump owns the socket.
UseUnchecked(c) ==
  /\ Free(c)
  /\ Enter(c, "idle", "checked")
  /\ UNCHANGED <<vars, socket>>

\* _pump_owns_socket() is false.
UseCheck(c) ==
  /\ Free(c) /\ ~Running
  /\ Enter(c, "idle", "checked")
  /\ UNCHANGED <<vars, socket>>

\* _send and _receive read self._socket, and raise if it is None.
UseSocket(c) ==
  /\ Enter(c, "checked", IF socket = "open" THEN "inside" ELSE "idle")
  /\ UNCHANGED <<vars, socket>>

\* The call on the socket returns, or raises.
UseReturns(c) ==
  /\ Enter(c, "inside", "idle")
  /\ UNCHANGED <<vars, socket>>

-----------------------------------------------------------------------------
(* close: stop the pump, and only then close the socket *)

CloseStopsNothing(c) ==
  /\ Free(c) /\ StopNothing(c)
  /\ Enter(c, "idle", "closeSocket")
  /\ UNCHANGED socket

CloseStops(c) ==
  /\ Free(c) /\ StopBegin(c)
  /\ Enter(c, "idle", "stopping")
  /\ UNCHANGED socket

CloseJoins(c) ==
  /\ use[c] = "stopping" /\ (StopJoined(c) \/ StopTimeout(c))
  /\ UNCHANGED clientVars

\* Mutant of CloseRaises: close goes on although the pump did not stop.
CloseGoesOn(c) ==
  /\ StopRaises(c)
  /\ Enter(c, "stopping", "closeSocket")
  /\ UNCHANGED socket

\* stop raises "did not stop": close ends with the socket still open.
CloseRaises(c) ==
  /\ StopRaises(c)
  /\ Enter(c, "stopping", "idle")
  /\ UNCHANGED socket

CloseForgets(c) ==
  /\ StopForgets(c)
  /\ Enter(c, "stopping", "closeSocket")
  /\ UNCHANGED socket

CloseSocket(c) ==
  /\ Enter(c, "closeSocket", "idle")
  /\ socket' = "closed"
  /\ UNCHANGED vars

-----------------------------------------------------------------------------
Client(c) ==
  \/ UseRefused(c) \/ UseCheck(c) \/ UseSocket(c) \/ UseReturns(c)
  \/ CloseStopsNothing(c) \/ CloseStops(c) \/ CloseJoins(c)
  \/ CloseRaises(c) \/ CloseForgets(c) \/ CloseSocket(c)

\* start_listen, start_sender, stop_listen and stop_sender go to the handle.
StartStop(c) == use[c] = "idle" /\ Caller(c) /\ UNCHANGED clientVars

ClientNext ==
  \/ \E c \in Controllers : Client(c) \/ StartStop(c)
  \/ \E s \in Submitters : Submitter(s) /\ UNCHANGED clientVars
  \/ \E g \in Gens : Thread(g) /\ UNCHANGED clientVars

ClientSpec == ClientInit /\ [][ClientNext]_allVars

\* A call that has begun is scheduled until it ends (a one-shot receive has a
\* timeout); the pump's thread may hang in the socket or in the hook for ever.
InProgress(c) ==
  \/ UseSocket(c) \/ UseReturns(c)
  \/ CloseJoins(c) \/ CloseRaises(c) \/ CloseForgets(c) \/ CloseSocket(c)
  \/ /\ use[c] = "idle" /\ UNCHANGED clientVars
     /\ \/ StartThread(c) \/ StartPublish(c)
        \/ StopJoined(c) \/ StopTimeout(c) \/ StopRaises(c) \/ StopForgets(c)
CallerFairness == \A c \in Controllers : WF_allVars(InProgress(c))
-----------------------------------------------------------------------------
(* Properties *)

\* The type invariant of the client's own state; a close that is stopping the
\* pump is in the handle's stop.
ClientTypeOK ==
  /\ socket \in {"open", "closed"}
  /\ use \in [Controllers -> {"idle", "checked", "inside", "stopping", "closeSocket"}]
  /\ \A c \in Controllers : use[c] = "stopping" => ctl[c] \in {"join", "joined"}

\* A pump's thread is in poll or offer, which use the socket.
PumpInside(g) == pc[g] \in {"poll", "offerDrain", "offerWait", "offerFinal"}
CallerInside(c) == use[c] = "inside"

\* "The listen thread owns the SUB socket, and the send thread owns the PUB
\* socket": no caller is inside the socket together with the pump.
PumpOwnsSocket ==
  \A c \in Controllers, g \in Gens : ~(CallerInside(c) /\ PumpInside(g))

\* With one controlling thread, no two threads are ever inside one socket,
\* which its library does not allow; a pump that could not be stopped, in a
\* stop or in a close, keeps the caller and the next pump out.
OneThreadInSocket ==
  /\ PumpOwnsSocket
  /\ \A c, d \in Controllers : CallerInside(c) /\ CallerInside(d) => c = d
  /\ \A g, h \in Gens : PumpInside(g) /\ PumpInside(h) => g = h

\* close never takes the socket away from a thread that is inside it.
NeverClosedUnderUse ==
  [][socket' # socket =>
       /\ \A c \in Controllers : ~CallerInside(c)
       /\ \A g \in Gens : ~PumpInside(g)]_allVars

\* Every call of a client, close among them, comes back to its caller even if
\* the pump's thread never takes another step.
CallsReturn == CallerFairness => \A c \in Controllers : ~Free(c) ~> Free(c)
=============================================================================
