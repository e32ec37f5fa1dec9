------------------------------ MODULE Monitor ------------------------------
(***************************************************************************)
(* The two questions the manager's thread asks of class Monitor:           *)
(* areClientsConnected probes the configured IP addresses one after the    *)
(* other, isTheMachineIdle reads the idle flags of the monitored devices   *)
(* one after the other, each under that device's own mutex.  Neither takes *)
(* a snapshot: between two of their steps the device threads write flags   *)
(* and the clients come and go.                                            *)
(***************************************************************************)
EXTENDS Naturals

CONSTANTS
  NumDevices,   \* m_cpusToMonitor followed by m_disksToMonitor
  Gating,       \* the devices with m_shouldSuspendIfIdle
  NumClients,   \* m_ipsToWatch
  WithPort,     \* the clients whose port is not DEFAULT_PORT
  LossyNetwork  \* may a ping or a connection attempt to a live host fail?

Devices == 1 .. NumDevices
Clients == 1 .. NumClients

MonitorConstants ==
  /\ NumDevices \in Nat
  /\ NumClients \in Nat
  /\ Gating \subseteq Devices
  /\ WithPort \subseteq Clients
  /\ LossyNetwork \in BOOLEAN

ASSUME MonitorAssumption == MonitorConstants

VARIABLES
  idleState,    \* m_deviceIsIdle of each device, written by its thread
  pingable,     \* the clients that answer a ping now
  listening,    \* those with a port that accept a connection on it now
  call,         \* the method the manager's thread is executing
  next,         \* its loop index
  result        \* isAnyClientOnline, then the value the method returned

deviceVars == <<idleState>>
clientVars == <<pingable, listening>>
callVars   == <<call, next, result>>
vars       == <<idleState, pingable, listening, call, next, result>>

TypeOK ==
  /\ idleState \in [Devices -> BOOLEAN]
  /\ pingable \subseteq Clients
  /\ listening \subseteq WithPort
  /\ call \in {"none", "ping", "connect", "scan"}
  /\ next \in 1 .. (NumDevices + NumClients + 1)
  /\ result \in BOOLEAN
  /\ call = "connect" => next \in WithPort

\* A device is constructed busy; nothing is known of the clients.
Init ==
  /\ idleState = [d \in Devices |-> FALSE]
  /\ pingable \in SUBSET Clients
  /\ listening \in SUBSET WithPort
  /\ call = "none"
  /\ next = 1
  /\ result = FALSE

\* Leave the method with this value.
Return(value) ==
  /\ call' = "none"
  /\ next' = 1
  /\ result' = value

-----------------------------------------------------------------------------
(* areClientsConnected: every client is probed, also after one was found.  *)

AreClientsConnected ==
  /\ call = "none"
  /\ call' = "ping"
  /\ next' = 1
  /\ result' = FALSE
  /\ UNCHANGED <<deviceVars, clientVars>>

\* What one ping, or one connect, may report of a host that is (not) there.
Reply(there) == {r \in BOOLEAN : (r <=> there) \/ (LossyNetwork /\ ~r)}

\* A slip: the last answer counts.
AnswerLastWins(online) ==
  /\ result' = online
  /\ next' = next + 1
  /\ call' = "ping"

\* Count this client's answer and go on with the next one.
Answer(online) ==
  /\ result' = (result \/ online)
  /\ next' = next + 1
  /\ call' = "ping"

\* A slip: a client that answers the ping is online, its port is not tried.
PingClientOnly ==
  /\ call = "ping"
  /\ next \in Clients
  /\ \E answered \in Reply(next \in pingable) : Answer(answered)
  /\ UNCHANGED <<deviceVars, clientVars>>

\* isIpAddressOnline; only a client that answered and has a port goes on to
\* isPortOpen.
PingClient ==
  /\ call = "ping"
  /\ next \in Clients
  /\ \E answered \in Reply(next \in pingable) :
       IF answered /\ next \in WithPort
         THEN call' = "connect" /\ UNCHANGED <<next, result>>
         ELSE Answer(answered)
  /\ UNCHANGED <<deviceVars, clientVars>>

ConnectClient ==
  /\ call = "connect"
  /\ \E open \in Reply(next \in listening) : Answer(open)
  /\ UNCHANGED <<deviceVars, clientVars>>

ReturnClients ==
  /\ call = "ping"
  /\ next \notin Clients
  /\ Return(result)
  /\ UNCHANGED <<deviceVars, clientVars>>

-----------------------------------------------------------------------------
(* isTheMachineIdle: the first gating device that is not idle ends the scan. *)

IsTheMachineIdle ==
  /\ call = "none"
  /\ call' = "scan"
  /\ next' = 1
  /\ UNCHANGED <<result, deviceVars, clientVars>>

KeepsAwake(d) == d \in Gating /\ ~idleState[d]

ScanPast ==
  /\ call = "scan"
  /\ next \in Devices
  /\ ~KeepsAwake(next)
  /\ next' = next + 1
  /\ UNCHANGED <<call, result, deviceVars, clientVars>>

FoundBusy ==
  /\ call = "scan"
  /\ next \in Devices
  /\ KeepsAwake(next)
  /\ Return(FALSE)
  /\ UNCHANGED <<deviceVars, clientVars>>

\* A slip: the loop stops before the last device.
FoundAllIdleButLast ==
  /\ call = "scan"
  /\ next >= NumDevices
  /\ Return(TRUE)
  /\ UNCHANGED <<deviceVars, clientVars>>

FoundAllIdle ==
  /\ call = "scan"
  /\ next \notin Devices
  /\ Return(TRUE)
  /\ UNCHANGED <<deviceVars, clientVars>>

\* Set once by the configuration: is there a device to wait for at all?
CanBeSuspended == \E d \in Devices : d \in Gating

-----------------------------------------------------------------------------
(* The environment: device threads and clients.                            *)

SetIdleState(d, state) ==
  /\ idleState' = [idleState EXCEPT ![d] = state]
  /\ UNCHANGED <<callVars, clientVars>>

ClientChanges(c) ==
  /\ \/ pingable' = (pingable \ {c}) \union ({c} \ pingable) /\ UNCHANGED listening
     \/ /\ c \in WithPort
        /\ listening' = (listening \ {c}) \union ({c} \ listening)
        /\ UNCHANGED pingable
  /\ UNCHANGED <<callVars, deviceVars>>

Environment ==
  \/ \E d \in Devices, state \in BOOLEAN : SetIdleState(d, state)
  \/ \E c \in Clients : ClientChanges(c)

\* The steps inside a call.
Step ==
  \/ PingClient \/ ConnectClient \/ ReturnClients
  \/ ScanPast \/ FoundBusy \/ FoundAllIdle

Next == AreClientsConnected \/ IsTheMachineIdle \/ Step \/ Environment

Spec == Init /\ [][Next]_vars

-----------------------------------------------------------------------------
(* Type correctness of a step, for the modules that are built on this one. *)

\* A step inside a call moves its index within the list, or starts anew.
LEMMA NextType ==
  ASSUME TypeOK, next' \in {1, next} \/ (next' = next + 1 /\ next \in Devices \union Clients)
  PROVE  next' \in 1 .. (NumDevices + NumClients + 1)
BY MonitorAssumption DEF MonitorConstants, TypeOK, Devices, Clients

\* Every step of Monitor keeps Monitor's own state in its type.
LEMMA TypeStep == TypeOK /\ [Next]_vars => TypeOK'
<1> SUFFICES ASSUME TypeOK, [Next]_vars PROVE TypeOK'
  OBVIOUS
<1> USE DEF TypeOK, deviceVars, clientVars, callVars
<1>1. CASE AreClientsConnected
  BY <1>1, NextType DEF AreClientsConnected
<1>2. CASE IsTheMachineIdle
  BY <1>2, NextType DEF IsTheMachineIdle
<1>3. CASE PingClient
  <2>1. PICK answered \in BOOLEAN :
          IF answered /\ next \in WithPort
            THEN call' = "connect" /\ UNCHANGED <<next, result>>
            ELSE Answer(answered)
    BY <1>3 DEF PingClient, Reply
  <2>2. next' \in 1 .. (NumDevices + NumClients + 1)
    BY <1>3, <2>1, NextType DEF PingClient, Answer
  <2> QED
    BY <1>3, <2>1, <2>2 DEF PingClient, Answer
<1>4. CASE ConnectClient
  <2>1. PICK open \in BOOLEAN : Answer(open)
    BY <1>4 DEF ConnectClient, Reply
  <2>2. next' \in 1 .. (NumDevices + NumClients + 1)
    BY <1>4, <2>1, NextType, MonitorAssumption DEF MonitorConstants, ConnectClient, Answer
  <2> QED
    BY <1>4, <2>1, <2>2 DEF ConnectClient, Answer
<1>5. CASE ReturnClients
  BY <1>5, NextType DEF ReturnClients, Return
<1>6. CASE ScanPast
  BY <1>6, NextType DEF ScanPast
<1>7. CASE FoundBusy
  BY <1>7, NextType DEF FoundBusy, Return
<1>8. CASE FoundAllIdle
  BY <1>8, NextType DEF FoundAllIdle, Return
<1>9. CASE Environment
  <2>1. CASE \E d \in Devices, state \in BOOLEAN : SetIdleState(d, state)
    BY <2>1 DEF SetIdleState
  <2>2. CASE \E c \in Clients : ClientChanges(c)
    BY <2>2 DEF ClientChanges
  <2> QED
    BY <1>9, <2>1, <2>2 DEF Environment
<1>10. CASE UNCHANGED vars
  BY <1>10 DEF vars
<1> QED
  BY <1>1, <1>2, <1>3, <1>4, <1>5, <1>6, <1>7, <1>8, <1>9, <1>10 DEF Next, Step

=============================================================================
