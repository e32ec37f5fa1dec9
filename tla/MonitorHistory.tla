--------------------------- MODULE MonitorHistory ---------------------------
(***************************************************************************)
(* Monitor with a history of the call in progress: what was true at some   *)
(* instant since it began.  The properties say in what sense the answers   *)
(* of two non-atomic loops can be trusted: an answer may mix readings of   *)
(* different instants, but each reading was right at an instant of the     *)
(* call, and what held all through the call is never missed.               *)
(***************************************************************************)
EXTENDS Monitor

VARIABLES
  sawIdle, sawBusy,     \* devices whose flag was (was not) set at some instant
  sawPing, sawPort,     \* clients that were pingable, listening at some instant
  sawDown               \* clients that were not reachable at some instant

historyVars == <<sawIdle, sawBusy, sawPing, sawPort, sawDown>>
varsH == <<vars, historyVars>>

IdleNow == {d \in Devices : idleState[d]}

Reachable(c) == c \in pingable /\ (c \in WithPort => c \in listening)
DownNow == {c \in Clients : ~Reachable(c)}

TypeOKH ==
  /\ TypeOK
  /\ sawIdle \subseteq Devices
  /\ sawBusy \subseteq Devices
  /\ sawPing \subseteq Clients
  /\ sawPort \subseteq WithPort
  /\ sawDown \subseteq Clients

\* What a history becomes when 'now' holds after the step: it covers the
\* instants of the call in progress only.
Seen(history, now) ==
  IF call' = "none" THEN {}
  ELSE (IF call = "none" THEN {} ELSE history) \union now

RecordHistory ==
  /\ sawIdle' = Seen(sawIdle, IdleNow')
  /\ sawBusy' = Seen(sawBusy, Devices \ IdleNow')
  /\ sawPing' = Seen(sawPing, pingable')
  /\ sawPort' = Seen(sawPort, listening')
  /\ sawDown' = Seen(sawDown, DownNow')

InitH ==
  /\ Init
  /\ sawIdle = {} /\ sawBusy = {} /\ sawPing = {} /\ sawPort = {} /\ sawDown = {}

NextH == Next /\ RecordHistory

SpecH == InitH /\ [][NextH]_varsH

-----------------------------------------------------------------------------
Returned(method) == call \in method /\ call' = "none"

(* Monitor::isTheMachineIdle answers "idle" only if every gating device's  *)
(* flag was set at some instant of the scan, and "busy" only if one of     *)
(* them was not: a gating device that is busy all through the scan always  *)
(* keeps the machine awake, whatever the others do meanwhile.              *)
ScanIsRegular ==
  [][Returned({"scan"}) =>
       IF result' THEN Gating \subseteq sawIdle
                  ELSE Gating \intersect sawBusy # {}]_varsH

\* The client answered a ping at some instant of the call and, if it has a
\* port, accepted a connection at some instant, maybe another one.
Glimpsed(c) == c \in sawPing /\ (c \in WithPort => c \in sawPort)

(* Monitor::areClientsConnected answers "online" only if some client was   *)
(* there, and, when the network loses nothing, it does so whenever some    *)
(* client was reachable all through the call, at whatever place of the     *)
(* list it stands and whatever the clients after it answer.                *)
ProbeIsRegular ==
  [][Returned({"ping", "connect"}) =>
       /\ result' => \E c \in Clients : Glimpsed(c)
       /\ ~LossyNetwork /\ Clients \ sawDown # {} => result']_varsH

-----------------------------------------------------------------------------
(* The inductive form of the two: what the loop has established about the  *)
(* part of the list it has passed.                                         *)
ScanInv ==
  call = "scan" =>
    /\ \A d \in Gating : d < next => d \in sawIdle
    /\ \A d \in Devices : d \in (IF idleState[d] THEN sawIdle ELSE sawBusy)

ProbeInv ==
  call \in {"ping", "connect"} =>
    /\ pingable \subseteq sawPing
    /\ listening \subseteq sawPort
    /\ \A c \in Clients : ~Reachable(c) => c \in sawDown
    /\ call = "connect" => next \in sawPing
    /\ result => \E c \in Clients : Glimpsed(c)
    /\ ~LossyNetwork => \A c \in Clients \ sawDown : c < next => result

IInv == TypeOKH /\ ScanInv /\ ProbeInv

=============================================================================
