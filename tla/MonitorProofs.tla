---------------------------- MODULE MonitorProofs ----------------------------
(***************************************************************************)
(* The answers of Monitor::areClientsConnected and isTheMachineIdle are    *)
(* regular, for every number of devices and clients: the inductive         *)
(* invariant of MonitorHistory, and the two action properties from it.     *)
(***************************************************************************)
EXTENDS MonitorHistory, TLAPS

\* Nothing was seen before the first call.
LEMMA InitOK == InitH => IInv
<1> SUFFICES ASSUME InitH PROVE IInv
  OBVIOUS
<1>1. next \in 1 .. (NumDevices + NumClients + 1)
  BY MonitorAssumption DEF MonitorConstants, InitH, Init
<1>2. TypeOK
  BY <1>1 DEF InitH, Init, TypeOK
<1> QED
  BY <1>2 DEF InitH, Init, IInv, TypeOKH, ScanInv, ProbeInv

-----------------------------------------------------------------------------
(* The inductive invariant.                                                *)

\* During a call the history only grows, and covers the present.
LEMMA HistoryGrows ==
  ASSUME RecordHistory, call' # "none"
  PROVE  /\ IdleNow' \subseteq sawIdle' /\ (Devices \ IdleNow') \subseteq sawBusy'
         /\ pingable' \subseteq sawPing' /\ listening' \subseteq sawPort'
         /\ DownNow' \subseteq sawDown'
         /\ call # "none" =>
              /\ sawIdle \subseteq sawIdle' /\ sawBusy \subseteq sawBusy'
              /\ sawPing \subseteq sawPing' /\ sawPort \subseteq sawPort'
              /\ sawDown \subseteq sawDown'
BY DEF RecordHistory, Seen

\* What was seen are devices and clients.
LEMMA HistoryType ==
  ASSUME TypeOKH, TypeOK', RecordHistory
  PROVE  TypeOKH'
BY DEF TypeOKH, TypeOK, RecordHistory, Seen, IdleNow, DownNow

\* A step keeps what the scan knows of the devices before its index.
LEMMA ScanStep == IInv /\ Next /\ RecordHistory => ScanInv'
<1> SUFFICES ASSUME IInv, Next, RecordHistory, call' = "scan" PROVE ScanInv'
  BY DEF ScanInv
<1> USE DEF IInv, TypeOKH, TypeOK
<1>1. \A d \in Devices : d \in (IF idleState[d] THEN sawIdle ELSE sawBusy)'
  BY HistoryGrows DEF IdleNow
<1>2. SUFFICES ASSUME NEW d \in Gating, d < next' PROVE d \in sawIdle'
  BY <1>1 DEF ScanInv
<1>3. d \in Devices /\ d \in Nat /\ d >= 1
  BY MonitorAssumption DEF MonitorConstants, Devices
<1>4. CASE IsTheMachineIdle
  BY <1>2, <1>3, <1>4 DEF IsTheMachineIdle
<1>5. CASE ScanPast
  <2>1. CASE d < next
    BY <1>5, <2>1, HistoryGrows DEF ScanPast, ScanInv
  <2>2. CASE d = next
    BY <1>3, <1>5, <2>2, HistoryGrows DEF ScanPast, KeepsAwake, IdleNow, deviceVars
  <2> QED
    BY <1>2, <1>3, <1>5, <2>1, <2>2 DEF ScanPast
<1>6. CASE Environment
  <2>1. call = "scan" /\ next' = next
    BY <1>6 DEF Environment, SetIdleState, ClientChanges, callVars
  <2> QED
    BY <1>2, <2>1, HistoryGrows DEF ScanInv
<1>7. ~ (AreClientsConnected \/ PingClient \/ ConnectClient \/ ReturnClients
         \/ FoundBusy \/ FoundAllIdle)
  BY DEF AreClientsConnected, PingClient, ConnectClient, ReturnClients, FoundBusy,
         FoundAllIdle, Return, Answer
<1> QED
  BY <1>4, <1>5, <1>6, <1>7 DEF Next, Step

\* During a call, what was seen of a client is not forgotten.
LEMMA GlimpsedGrows ==
  ASSUME RecordHistory, call # "none", call' # "none", NEW c, Glimpsed(c)
  PROVE  Glimpsed(c)'
BY HistoryGrows DEF Glimpsed

\* An answer of a client that is not lost tells the truth about it, an answer
\* that is heard always does.
LEMMA ProbeStep == IInv /\ Next /\ RecordHistory => ProbeInv'
<1> SUFFICES ASSUME IInv, Next, RecordHistory, call' \in {"ping", "connect"} PROVE ProbeInv'
  BY DEF ProbeInv
<1> USE DEF IInv, TypeOKH, TypeOK
<1>1. /\ pingable' \subseteq sawPing'
      /\ listening' \subseteq sawPort'
      /\ \A c \in Clients : ~Reachable(c)' => c \in sawDown'
  BY HistoryGrows DEF DownNow
<1>2. \A c \in Clients : c \in Nat /\ c >= 1
  BY MonitorAssumption DEF MonitorConstants, Clients
<1>3. CASE AreClientsConnected
  BY <1>1, <1>2, <1>3 DEF AreClientsConnected, ProbeInv
<1>4. ASSUME NEW r \in BOOLEAN, Answer(r), NEW client \in Clients, next = client,
             call \in {"ping", "connect"},
             r => Glimpsed(client)',
             ~LossyNetwork /\ client \notin sawDown' => r
      PROVE  ProbeInv'
  <2>1. result' => \E c \in Clients : Glimpsed(c)'
    BY <1>4, GlimpsedGrows DEF Answer, ProbeInv
  <2>2. ASSUME ~LossyNetwork, NEW c \in Clients \ sawDown', c < next'
        PROVE  result'
    <3>1. CASE c < next
      BY <1>4, <2>2, <3>1, HistoryGrows DEF Answer, ProbeInv
    <3>2. CASE c = next
      BY <1>4, <2>2, <3>2 DEF Answer
    <3> QED
      BY <1>2, <1>4, <2>2, <3>1, <3>2 DEF Answer
  <2> QED
    BY <1>1, <1>4, <2>1, <2>2 DEF Answer, ProbeInv
<1>5. CASE PingClient
  <2> USE <1>5 DEF PingClient, Reply, clientVars
  <2>1. PICK r \in BOOLEAN :
          /\ (r <=> next \in pingable) \/ (LossyNetwork /\ ~r)
          /\ IF r /\ next \in WithPort
               THEN call' = "connect" /\ UNCHANGED <<next, result>>
               ELSE Answer(r)
    OBVIOUS
  <2> PICK client \in Clients : next = client
    OBVIOUS
  <2>2. CASE r /\ next \in WithPort
    <3>1. next \in sawPing'
      BY <1>1, <2>1, <2>2
    <3>2. result' => \E c \in Clients : Glimpsed(c)'
      BY <2>1, <2>2, GlimpsedGrows DEF ProbeInv
    <3>3. ~LossyNetwork => \A c \in Clients \ sawDown' : c < next' => result'
      BY <2>1, <2>2, HistoryGrows DEF ProbeInv
    <3> QED
      BY <1>1, <2>1, <2>2, <3>1, <3>2, <3>3 DEF ProbeInv
  <2>3. CASE ~ (r /\ next \in WithPort)
    <3>1. r => Glimpsed(client)'
      BY <1>1, <2>1, <2>3 DEF Glimpsed
    <3>2. ~LossyNetwork /\ client \notin sawDown' => r
      BY <1>1, <2>1 DEF Reachable
    <3> QED
      BY <1>4, <2>1, <2>3, <3>1, <3>2
  <2> QED
    BY <2>2, <2>3
<1>6. CASE ConnectClient
  <2> USE <1>6 DEF ConnectClient, Reply, clientVars
  <2>1. PICK r \in BOOLEAN :
          /\ (r <=> next \in listening) \/ (LossyNetwork /\ ~r)
          /\ Answer(r)
    OBVIOUS
  <2>2. PICK client \in Clients : next = client
    BY MonitorAssumption DEF MonitorConstants
  <2>3. r => Glimpsed(client)'
    BY <1>1, <2>1, <2>2, HistoryGrows DEF Glimpsed, ProbeInv
  <2>4. ~LossyNetwork /\ client \notin sawDown' => r
    BY <1>1, <2>1, <2>2, MonitorAssumption DEF MonitorConstants, Reachable
  <2> QED
    BY <1>4, <2>1, <2>2, <2>3, <2>4
<1>7. CASE Environment
  <2>1. call' = call /\ next' = next /\ result' = result
    BY <1>7 DEF Environment, SetIdleState, ClientChanges, callVars
  <2>2. call = "connect" => next \in sawPing'
    BY <2>1, HistoryGrows DEF ProbeInv
  <2>3. result' => \E c \in Clients : Glimpsed(c)'
    BY <2>1, GlimpsedGrows DEF ProbeInv
  <2>4. ~LossyNetwork => \A c \in Clients \ sawDown' : c < next' => result'
    BY <2>1, HistoryGrows DEF ProbeInv
  <2> QED
    BY <1>1, <2>1, <2>2, <2>3, <2>4 DEF ProbeInv
<1>8. ~ (IsTheMachineIdle \/ ReturnClients \/ ScanPast \/ FoundBusy \/ FoundAllIdle)
  BY DEF IsTheMachineIdle, ReturnClients, ScanPast, FoundBusy, FoundAllIdle, Return
<1> QED
  BY <1>3, <1>5, <1>6, <1>7, <1>8 DEF Next, Step

\* The invariant is inductive.
LEMMA InvStep == IInv /\ [NextH]_varsH => IInv'
<1> SUFFICES ASSUME IInv, [NextH]_varsH PROVE IInv'
  OBVIOUS
<1>1. CASE NextH
  <2>1. TypeOK'
    BY <1>1, TypeStep DEF NextH, IInv, TypeOKH
  <2>2. TypeOKH'
    BY <1>1, <2>1, HistoryType DEF NextH, IInv
  <2> QED
    BY <1>1, <2>2, ScanStep, ProbeStep DEF NextH, IInv
<1>2. CASE UNCHANGED varsH
  BY <1>2 DEF varsH, historyVars, vars, IInv, TypeOKH, TypeOK, ScanInv, ProbeInv, Glimpsed,
       Reachable
<1> QED
  BY <1>1, <1>2

(* Every state of Monitor satisfies the inductive invariant: its types,    *)
(* and what the two loops have established about the part of their list    *)
(* they have passed.                                                       *)
THEOREM Invariance == SpecH => []IInv
BY InitOK, InvStep, PTL DEF SpecH

-----------------------------------------------------------------------------
(* The verdict of Monitor::isTheMachineIdle is regular: "idle" has seen    *)
(* every gating device idle, "busy" has seen one of them busy.             *)
THEOREM ScanRegularity == SpecH => ScanIsRegular
<1>1. IInv /\ NextH /\ Returned({"scan"}) =>
        IF result' THEN Gating \subseteq sawIdle ELSE Gating \intersect sawBusy # {}
  <2> SUFFICES ASSUME IInv, NextH, call = "scan", call' = "none"
               PROVE  IF result' THEN Gating \subseteq sawIdle
                                 ELSE Gating \intersect sawBusy # {}
    BY DEF Returned
  <2>1. CASE FoundAllIdle
    <3>1. \A d \in Gating : d < next
      BY <2>1, MonitorAssumption DEF MonitorConstants, FoundAllIdle, Devices, IInv, TypeOKH, TypeOK
    <3> QED
      BY <2>1, <3>1 DEF FoundAllIdle, Return, IInv, ScanInv
  <2>2. CASE FoundBusy
    BY <2>2 DEF FoundBusy, Return, KeepsAwake, IInv, ScanInv
  <2> QED
    BY <2>1, <2>2 DEF NextH, Next, Step, Environment, AreClientsConnected, IsTheMachineIdle,
         PingClient, ConnectClient, ReturnClients, ScanPast, SetIdleState, ClientChanges,
         callVars
<1>2. IInv /\ [NextH]_varsH =>
        [Returned({"scan"}) => IF result' THEN Gating \subseteq sawIdle
                               ELSE Gating \intersect sawBusy # {}]_varsH
  BY <1>1
<1> QED
  BY <1>2, Invariance, PTL DEF SpecH, ScanIsRegular

(* The answer of Monitor::areClientsConnected is regular: "online" has     *)
(* seen a client, and no client that was reachable all through the call is *)
(* missed when the network loses nothing.                                  *)
THEOREM ProbeRegularity == SpecH => ProbeIsRegular
<1>1. IInv /\ NextH /\ Returned({"ping", "connect"}) =>
        /\ result' => \E c \in Clients : Glimpsed(c)
        /\ ~LossyNetwork /\ Clients \ sawDown # {} => result'
  <2> SUFFICES ASSUME IInv, NextH, call \in {"ping", "connect"}, call' = "none"
               PROVE  /\ result' => \E c \in Clients : Glimpsed(c)
                      /\ ~LossyNetwork /\ Clients \ sawDown # {} => result'
    BY DEF Returned
  <2>1. ReturnClients
    BY DEF NextH, Next, Step, Environment, AreClientsConnected, IsTheMachineIdle, PingClient,
       ConnectClient, Answer, ScanPast, FoundBusy, FoundAllIdle, SetIdleState, ClientChanges,
       callVars
  <2>2. \A c \in Clients : c < next
    BY <2>1, MonitorAssumption DEF MonitorConstants, ReturnClients, Clients, IInv, TypeOKH, TypeOK
  <2> QED
    BY <2>1, <2>2 DEF ReturnClients, Return, IInv, ProbeInv
<1>2. IInv /\ [NextH]_varsH =>
        [Returned({"ping", "connect"}) =>
           /\ result' => \E c \in Clients : Glimpsed(c)
           /\ ~LossyNetwork /\ Clients \ sawDown # {} => result']_varsH
  BY <1>1
<1> QED
  BY <1>2, Invariance, PTL DEF SpecH, ProbeIsRegular

=============================================================================
