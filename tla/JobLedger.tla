----------------------------- MODULE JobLedger -----------------------------
(***************************************************************************)
(* What background commands promise their callers, whatever readers,       *)
(* collects and closes do to each other: a job's result is written once    *)
(* and is the status its channel was closed with, or says that there is    *)
(* none; a channel that a collect cuts off has no result from that moment; *)
(* and a collect answers with nothing but such a result.                   *)
(***************************************************************************)
CONSTANTS Jobs, Callers, Codes, NoStatus

VARIABLES
  channel,  \* per job <<"none">>, <<"open">> or <<"closed", status>>
  result,   \* per job <<"unknown">>, <<"void">> or <<"code", status>>
  answer    \* per caller <<>> or what its last collect returned

Init ==
  /\ channel = [j \in Jobs |-> <<"none">>] /\ result = [j \in Jobs |-> <<"unknown">>]
  /\ answer = [c \in Callers |-> <<>>]

Start(c, j) ==
  /\ channel[j] = <<"none">> /\ channel' = [channel EXCEPT ![j] = <<"open">>]
  /\ answer' = [answer EXCEPT ![c] = <<>>] /\ UNCHANGED result

\* The command exits, or close takes the channels of several jobs away.
Ends(jobs, status) ==
  /\ \A j \in jobs : channel[j] = <<"open">>
  /\ channel' = [j \in Jobs |-> IF j \in jobs THEN <<"closed", status>> ELSE channel[j]]
  /\ UNCHANGED <<result, answer>>

\* A collect gives the job up while its channel is open.
CutsOff(j) ==
  /\ channel[j] = <<"open">>
  /\ channel' = [channel EXCEPT ![j] = <<"closed", NoStatus>>]
  /\ result' = [result EXCEPT ![j] = <<"void">>] /\ UNCHANGED answer

Settles(j) ==
  /\ result[j] = <<"unknown">> /\ channel[j] # <<"none">>
  /\ \/ result' = [result EXCEPT ![j] = <<"void">>]
     \/ /\ channel[j] # <<"open">>
        /\ result' = [result EXCEPT ![j] = <<"code", channel[j][2]>>]
  /\ UNCHANGED <<channel, answer>>

Asks(c) == answer' = [answer EXCEPT ![c] = <<>>] /\ UNCHANGED <<channel, result>>

Answers(c, j) ==
  /\ result[j][1] = "code" /\ answer' = [answer EXCEPT ![c] = <<j, result[j][2]>>]
  /\ UNCHANGED <<channel, result>>

Next ==
  \/ \E c \in Callers : Asks(c) \/ \E j \in Jobs : Start(c, j) \/ Answers(c, j)
  \/ \E j \in Jobs : CutsOff(j) \/ Settles(j) \/ \E code \in Codes : Ends({j}, code)
  \/ \E jobs \in SUBSET Jobs : Ends(jobs, NoStatus)

Spec == Init /\ [][Next]_<<channel, result, answer>>
=============================================================================
