--------------------------- MODULE SspenderProofs ---------------------------
(***************************************************************************)
(* For any number of devices and clients and all timers: the program's     *)
(* threads together are what each module says of its own, and a machine is *)
(* suspended in time if it is not used, and kept up if it is.              *)
(***************************************************************************)
EXTENDS SspenderHistory, ManagerProofs, TLAPS

\* The ages of the device threads' timers.
AgesOK == startAge \in [Dev!Devices -> 0 .. MaxDeviceAge]

\* Manager's devices and Device's are the same.
LEMMA DevicesAre == Dev!Devices = 1 .. NumDevices /\ Mon!Devices = 1 .. NumDevices
BY DEF Dev!Devices, Mon!Devices

\* What a thread of a device leaves alone, and what it may do to the flags.
LEMMA ThreadStep ==
  ASSUME NEW d \in Dev!Devices, Dev!Thread(d)
  PROVE  /\ ~asleep /\ asleep' = asleep
         /\ \/ idleState' = idleState
            \/ \E state \in BOOLEAN : idleState' = [idleState EXCEPT ![d] = state]
         /\ startAge' = startAge \/ startAge' = [startAge EXCEPT ![d] = 0]
BY DEF Dev!Thread, Dev!Judge, Dev!CalculateUsage, Dev!FoundBusy, Dev!FoundCalm, Dev!FoundIdle,
   Dev!SpunDown, Dev!SetIdleState

\* The manager's thread writes no flag, and suspends an awake machine if any.
LEMMA ManagerLeaves ==
  ASSUME ManagerStep
  PROVE  idleState' = idleState /\ ~asleep /\ (asleep' = TRUE \/ UNCHANGED asleep)
<1> USE DEF At, monitorVars, Mon!deviceVars
<1>1. CASE StartCheck \/ StayOnline \/ NobodyOnline \/ MonitorAgain \/ StartScan
  BY <1>1 DEF StartCheck, StayOnline, NobodyOnline, MonitorAgain, StartScan,
     Mon!AreClientsConnected, Mon!ReturnClients, Mon!IsTheMachineIdle
<1>2. CASE InMonitor
  BY <1>2 DEF InMonitor, Mon!PingClient, Mon!ConnectClient, Mon!ScanPast
<1>3. CASE EndScan
  BY <1>3 DEF EndScan, Mon!FoundBusy, Mon!FoundAllIdle
<1>4. CASE KeepRunning \/ SuspendTheMachine \/ Resumed
  BY <1>4 DEF KeepRunning, SuspendTheMachine, Resumed
<1>5. CASE RtcWake
  <2>1. asleep = FALSE /\ (asleep' = TRUE \/ asleep' = FALSE) /\ idleState' = idleState
    BY <1>5 DEF RtcWake
  <2> QED
    BY <2>1
<1> QED
  BY <1>1, <1>2, <1>3, <1>4, <1>5 DEF ManagerStep

-----------------------------------------------------------------------------
\* Every step of the program is one of the manager in its environment.
LEMMA ManagerStepRefines == [SystemNext]_systemVars => [Next]_vars
<1> SUFFICES ASSUME [SystemNext]_systemVars PROVE [Next]_vars
  OBVIOUS
<1>1. CASE TimePasses
  BY <1>1 DEF TimePasses, Next
<1>2. CASE WakeUp
  BY <1>2 DEF WakeUp, Next, Happening, Resume
<1>3. CASE OthersSuspendTheMachine \/ ManagerThread
  BY <1>3 DEF OthersSuspendTheMachine, ManagerThread, Next, Happening
<1>4. CASE ClientsChange
  BY <1>4 DEF ClientsChange, Next, Happening, Environment
<1>5. ASSUME NEW d \in Dev!Devices, DeviceThread(d) PROVE [Next]_vars
  <2>1. CASE idleState' = idleState
    BY <1>5, <2>1, ThreadStep DEF DeviceThread, vars, monitorVars
  <2>2. CASE \E state \in BOOLEAN : idleState' = [idleState EXCEPT ![d] = state]
    <3>1. PICK state \in BOOLEAN : Mon!SetIdleState(d, state)
      BY <1>5, <2>2 DEF DeviceThread, Mon!SetIdleState, Mon!clientVars, Mon!callVars
    <3> QED
      BY <1>5, <3>1, ThreadStep, DevicesAre DEF DeviceThread, Next, Happening, Environment
  <2> QED
    BY <1>5, <2>1, <2>2, ThreadStep DEF DeviceThread
<1>6. CASE UNCHANGED systemVars
  BY <1>6 DEF systemVars
<1> QED
  BY <1>1, <1>2, <1>3, <1>4, <1>5, <1>6 DEF SystemNext

\* The ages of the threads stay within their bound.
LEMMA AgesStep == AgesOK /\ [SystemNext]_systemVars => AgesOK'
<1> SUFFICES ASSUME AgesOK, [SystemNext]_systemVars PROVE AgesOK'
  OBVIOUS
<1> USE SystemAssumption DEF AgesOK, Dev!DeviceConstants
<1>1. CASE TimePasses \/ WakeUp
  <2>1. PICK ticks \in Nat : startAge' = [d \in Dev!Devices |-> Dev!Aged(startAge[d], ticks)]
    <3>1. CASE TimePasses
      <4>1. 1 \in Nat /\ startAge' = [d \in Dev!Devices |-> Dev!Aged(startAge[d], 1)]
        BY <3>1 DEF TimePasses, Dev!Tick
      <4> QED
        BY <4>1
    <3>2. CASE WakeUp
      <4>1. PICK ticks \in 0 .. MaxAge : Dev!ResumeAfter(ticks)
        BY <3>2 DEF WakeUp
      <4>2. ticks \in Nat /\ startAge' = [d \in Dev!Devices |-> Dev!Aged(startAge[d], ticks)]
        BY <4>1, ManagerAssumption DEF Dev!ResumeAfter
      <4> QED
        BY <4>2
    <3> QED
      BY <1>1, <3>1, <3>2
  <2>2. \A d \in Dev!Devices : Dev!Aged(startAge[d], ticks) \in 0 .. MaxDeviceAge
    BY DEF Dev!Aged
  <2> QED
    BY <2>1, <2>2
<1>2. ASSUME NEW d \in Dev!Devices, DeviceThread(d) PROVE AgesOK'
  BY <1>2, ThreadStep DEF DeviceThread
<1>3. CASE OthersSuspendTheMachine \/ ManagerThread \/ ClientsChange \/ UNCHANGED systemVars
  BY <1>3 DEF OthersSuspendTheMachine, ManagerThread, ClientsChange, systemVars, deviceVars
<1> QED
  BY <1>1, <1>2, <1>3 DEF SystemNext

\* A sleep too long for the bound of a device's ages is one as long as it.
LEMMA SleepIsBounded ==
  ASSUME AgesOK, NEW ticks \in 0 .. MaxAge, Dev!ResumeAfter(ticks) PROVE Dev!Resume
<1> USE SystemAssumption, ManagerAssumption DEF Dev!DeviceConstants
<1> DEFINE less == IF ticks <= MaxDeviceAge THEN ticks ELSE MaxDeviceAge
<1>1. less \in 0 .. MaxDeviceAge
  OBVIOUS
<1>2. \A d \in Dev!Devices : Dev!Aged(startAge[d], ticks) = Dev!Aged(startAge[d], less)
  BY DEF Dev!Aged, AgesOK
<1>3. Dev!ResumeAfter(less)
  BY <1>2 DEF Dev!ResumeAfter
<1> QED
  BY <1>1, <1>3 DEF Dev!Resume

\* Every step of the program is one of the device threads and their machine.
LEMMA DeviceStepRefines == AgesOK /\ [SystemNext]_systemVars => [Dev!Next]_(Dev!vars)
<1> SUFFICES ASSUME AgesOK, [SystemNext]_systemVars PROVE [Dev!Next]_(Dev!vars)
  OBVIOUS
<1>1. CASE TimePasses
  BY <1>1 DEF TimePasses, Dev!Next
<1>2. CASE WakeUp
  BY <1>2, SleepIsBounded DEF WakeUp, Dev!Next
<1>3. CASE OthersSuspendTheMachine
  BY <1>3 DEF OthersSuspendTheMachine, SuspendedByOthers, monitorVars, deviceVars, Dev!Next, Dev!Suspend,
     Dev!threadVars
<1>4. CASE ManagerThread
  BY <1>4, ManagerLeaves DEF ManagerThread, deviceVars, Dev!Next, Dev!Suspend, Dev!threadVars, Dev!vars
<1>5. CASE ClientsChange
  BY <1>5 DEF ClientsChange, Mon!ClientChanges, Mon!deviceVars, deviceVars, Dev!threadVars, Dev!vars
<1>6. ASSUME NEW d \in Dev!Devices, DeviceThread(d) PROVE Dev!Next
  BY <1>6 DEF DeviceThread, Dev!Next
<1>7. CASE UNCHANGED systemVars
  BY <1>7 DEF systemVars, vars, monitorVars, deviceVars, Dev!threadVars, Dev!vars
<1> QED
  BY <1>1, <1>2, <1>3, <1>4, <1>5, <1>6, <1>7 DEF SystemNext

-----------------------------------------------------------------------------
\* The device threads, which share flags, clock and sleep with it, do nothing
\* that Manager does not expect of its environment, so that what is proved of
\* the manager's thread holds of the program (Manager::monitorSystemUsage,
\* Device::monitorDeviceUsage).  SystemInvariance rests on it.
THEOREM ManagerRefinement == SystemSpec => Steps
BY ManagerStepRefines, PTL DEF SystemSpec, SystemInit, Steps

\* The manager does nothing to the device threads but to suspend the machine,
\* so that what is proved of them holds of the program; for the safety part of
\* ImplementsDevice (Manager::monitorSystemUsage).
THEOREM DeviceRefinement == SystemSpec => Dev!Steps
<1>1. SystemInit => AgesOK
  BY SystemAssumption DEF SystemInit, Dev!Init, AgesOK, Dev!DeviceConstants
<1> QED
  BY <1>1, AgesStep, DeviceStepRefines, PTL DEF SystemSpec, SystemInit, Dev!Steps

-----------------------------------------------------------------------------
(* The invariants of the parts hold of the program.                        *)

\* A step of the program that is one of each history, or leaves it alone.
HistoryStep == SystemNext /\ [NextH]_varsH /\ [DevH!NextH]_deviceVarsH /\ RecordUnused

\* The devices' history is one of DeviceHistory.
LEMMA DeviceHistoryStep == [HistoryStep]_systemVarsH => [DevH!NextH]_(DevH!varsH)
BY DEF HistoryStep, systemVarsH, deviceVarsH, deviceVars, DevH!varsH, DevH!vars, DevH!threadVars,
   DevH!useVars, DevH!calmVars

\* What is assumed of the devices and their histories.
LEMMA HistoryAssumed == DevH!DeviceConstants /\ DevH!HistoryAssumption
BY SystemAssumption, UseAssumption
   DEF Dev!DeviceConstants, DevH!DeviceConstants, Dev!Devices, DevH!Devices

\* What the parts know of themselves.
PartsInv == IInv /\ DevH!IInv

\* Every step of the program has its histories: it is one of Manager and one
\* of Device, or leaves them alone.
LEMMA HistoriesStep == PartsInv /\ [SystemNextH]_systemVarsH => [HistoryStep]_systemVarsH
<1> SUFFICES ASSUME PartsInv, SystemNextH PROVE HistoryStep
  OBVIOUS
<1>1. SystemNext /\ RecordUnused
  BY DEF SystemNextH
<1>2. [NextH]_varsH
  BY <1>1, ManagerStepRefines DEF SystemNextH, RecordManager
<1>3. AgesOK
  BY DEF PartsInv, DevH!IInv, DevH!TypeOKH, DevH!TypeOK, AgesOK, Dev!Devices, DevH!Devices
<1>4. [DevH!NextH]_deviceVarsH
  BY <1>1, <1>3, DeviceStepRefines DEF SystemNextH, RecordDevices
<1> QED
  BY <1>1, <1>2, <1>4 DEF HistoryStep

LEMMA PartsInit == SystemInitH => PartsInv
BY InitOK, DevH!InitOK, HistoryAssumed DEF SystemInitH, PartsInv, DevH!HistoryAssumption

LEMMA PartsStep == PartsInv /\ [HistoryStep]_systemVarsH => PartsInv'
<1> SUFFICES ASSUME PartsInv, [HistoryStep]_systemVarsH PROVE PartsInv'
  OBVIOUS
<1>1. IInv'
  BY InvStep DEF PartsInv, HistoryStep, systemVarsH
<1>2. DevH!IInv'
  BY DeviceHistoryStep, DevH!InvStep, HistoryAssumed DEF PartsInv, DevH!HistoryAssumption
<1> QED
  BY <1>1, <1>2 DEF PartsInv

-----------------------------------------------------------------------------
(* How the histories go on with the steps of the program.                  *)

\* The bounds of the device threads are natural numbers.
LEMMA BoundsType ==
  \A d \in Mon!Devices : DevH!ReactionTime(d) \in Nat /\ DevH!SettlingTime(d) \in Nat
<1>1. /\ DevH!Sample \in Nat \ {0} /\ DevH!Overdue \in Nat
      /\ \A d \in DevH!Devices : DevH!ReactionTime(d) \in Nat /\ DevH!CalmAtMost(d) \in Nat
  BY DevH!BoundsType, DevH!RestBoundsType, HistoryAssumed DEF DevH!HistoryAssumption
<1>2. DeviceLag \in Nat
  BY HistoryAssumed DEF DevH!DeviceConstants
<1> QED
  BY <1>1, <1>2 DEF DevH!SettlingTime, DevH!Devices, Mon!Devices

\* A thread that moves on counts its ticks anew.
LEMMA ThreadRestarts ==
  ASSUME NEW d \in Dev!Devices, Dev!Thread(d) PROVE spent' = [spent EXCEPT ![d] = 0]
BY DEF Dev!Thread, Dev!Judge, Dev!CalculateUsage, Dev!FoundBusy, Dev!FoundCalm, Dev!FoundIdle,
   Dev!SpunDown, Dev!StartSample, Dev!GoTo

\* The devices' histories tick with the program and with nothing else.
LEMMA OneClock ==
  ASSUME PartsInv, HistoryStep, NEW d \in Mon!Devices
  PROVE  IF TimePasses THEN DevH!Tick /\ DevH!RecordUse ELSE UNCHANGED <<busyFor, stillFor>>
<1>1. d \in DevH!Devices /\ d \in Dev!Devices /\ spent \in [DevH!Devices -> Nat]
  BY DevicesAre DEF PartsInv, DevH!IInv, DevH!TypeOKH, DevH!TypeOK, DevH!Devices, Mon!Devices
<1>2. [DevH!NextH]_(DevH!varsH) /\ SystemNext
  BY DeviceHistoryStep DEF HistoryStep
<1>3. DevH!Devices = Dev!Devices
  BY DEF DevH!Devices, Dev!Devices
<1>4. DevH!Tick => ~asleep /\ ~asleep' /\ \A e \in DevH!Devices : spent'[e] = spent[e] + 1
  BY DEF DevH!Tick
<1>5. CASE TimePasses
  <2>1. ~asleep /\ ~asleep' /\ \A e \in DevH!Devices : spent'[e] = spent[e] + 1
    BY <1>3, <1>5 DEF TimePasses, Dev!Tick
  <2>2. \A e \in DevH!Devices : spent'[e] # spent[e] /\ spent'[e] # 0
    BY <1>1, <2>1
  <2>3. ~DevH!Suspend /\ ~DevH!Resume
    BY <2>1 DEF DevH!Suspend, DevH!Resume, DevH!ResumeAfter
  <2>4. \A e \in DevH!Devices : ~DevH!Thread(e)
    BY <2>2, DevH!ThreadStep, HistoryAssumed DEF PartsInv, DevH!IInv, DevH!HistoryAssumption
  <2>5. ~UNCHANGED DevH!varsH
    BY <1>1, <2>2 DEF DevH!varsH, DevH!vars, DevH!threadVars
  <2> QED
    BY <1>2, <1>5, <2>3, <2>4, <2>5 DEF DevH!NextH, DevH!RecordTick, DevH!RecordSuspend,
       DevH!RecordThread
<1>6. CASE ~TimePasses
  <2>1. ~DevH!Tick
    <3>1. CASE WakeUp
      BY <1>4, <3>1 DEF WakeUp, ResumeAfter
    <3>2. CASE OthersSuspendTheMachine
      BY <1>4, <3>2 DEF OthersSuspendTheMachine, SuspendedByOthers
    <3>3. CASE ManagerThread \/ ClientsChange
      BY <1>1, <1>4, <3>3 DEF ManagerThread, ClientsChange, deviceVars
    <3>4. ASSUME NEW e \in Dev!Devices, DeviceThread(e) PROVE ~DevH!Tick
      <4>1. spent'[e] = 0 /\ spent[e] \in Nat
        BY <1>1, <1>3, <3>4, ThreadRestarts DEF DeviceThread
      <4> QED
        BY <1>3, <1>4, <4>1
    <3> QED
      BY <1>2, <1>6, <3>1, <3>2, <3>3, <3>4 DEF SystemNext
  <2> QED
    BY <1>2, <1>6, <2>1 DEF DevH!NextH, DevH!RecordTick, DevH!RecordSuspend,
       DevH!RecordThread, DevH!varsH, DevH!useVars
<1> QED
  BY <1>5, <1>6

\* A suspension by others is over when the check or the stay that ended it is.
LEMMA InterruptionEnds ==
  ASSUME [NextH]_varsH, interrupted, ~interrupted'
  PROVE  Disturbed \/ IdleTimerRestarts
BY DEF NextH, RecordQuiet, varsH

-----------------------------------------------------------------------------
(* What a check has seen of the use of a device.                           *)

SeenOf(d) ==
  /\ Passed(d) => busyFor[d] <= DevH!ReactionTime(d) + lag
  /\ Checking /\ ~interrupted =>
       \/ idleAge <= Taken
       \/ busyFor[d] <= DevH!ReactionTime(d) + MaxLag + Taken

\* The types of what SeenOf compares, and where a scan is.
LEMMA SeenType ==
  ASSUME PartsInv, NEW d \in Watched
  PROVE  /\ d \in Mon!Devices /\ d \in Nat \ {0} /\ d <= NumDevices /\ NumDevices \in Nat
         /\ next \in Nat \ {0}
         /\ busyFor[d] \in Nat /\ DevH!ReactionTime(d) \in Nat /\ MaxLag \in Nat
         /\ lag \in 0 .. MaxLag /\ idleAge \in Nat /\ Taken \in Int
         /\ Checking => Taken \in Nat
         /\ idleState[d] => busyFor[d] <= DevH!ReactionTime(d)
         /\ call = "scan" => pc = "scan"
         /\ ~interrupted /\ asleep => pc = "resumed"
<1>1. d \in Mon!Devices /\ d \in Readable
  BY ManagerAssumption DEF Watched, Mon!MonitorConstants
<1>2. d \in Nat \ {0} /\ d <= NumDevices /\ NumDevices \in Nat
  BY <1>1, ManagerAssumption DEF Mon!Devices, Mon!MonitorConstants
<1>3. busyFor[d] \in Nat /\ (idleState[d] => busyFor[d] <= DevH!ReactionTime(d))
  BY <1>1, DevH!FlagsOK, HistoryAssumed
     DEF PartsInv, DevH!IInv, DevH!TypeOKH, DevH!FlagReactsToUse, DevH!HistoryAssumption
<1>4. next \in Nat \ {0} /\ lag \in 0 .. MaxLag /\ idleAge \in Nat /\ MaxLag \in Nat
  BY ManagerAssumption DEF PartsInv, IInv, TypeOKH, TypeOK, Mon!TypeOK
<1>5. Taken \in Int /\ (Checking => Taken \in Nat)
  BY PeriodType, TakenType DEF PartsInv, IInv, TypeOKH, TypeOK, Taken, Checking
<1>6. (call = "scan" => pc = "scan") /\ (~interrupted /\ asleep => pc = "resumed")
  BY DEF PartsInv, IInv, LoopInv, QuietInv
<1> QED
  BY <1>1, <1>2, <1>3, <1>4, <1>5, <1>6, BoundsType

\* Time passes for the use and for the check alike.
LEMMA SeenTick ==
  ASSUME PartsInv, HistoryStep, NEW d \in Watched, SeenOf(d), TimePasses
  PROVE  SeenOf(d)'
<1>1. busyFor'[d] <= busyFor[d] + 1 /\ busyFor'[d] \in Nat
  <2>1. busyFor' = [e \in Readable |-> IF load[e] = "busy" THEN DevH!Longer(busyFor[e]) ELSE 0]
    BY OneClock, SeenType DEF DevH!RecordUse
  <2>2. DevH!Longer(busyFor[d]) <= busyFor[d] + 1 /\ DevH!Longer(busyFor[d]) \in Nat
    BY SeenType, HistoryAssumed DEF DevH!Longer, DevH!HistoryAssumption
  <2> QED
    BY <2>1, <2>2, SeenType DEF Watched
<1>2. /\ UNCHANGED <<call, next, result, pc>> /\ idleAge' <= idleAge + 1 /\ idleAge' \in Nat
  BY SeenType, ManagerAssumption DEF TimePasses, Tick, monitorVars, Aged
<1>3. ~interrupted' => ~interrupted
  BY <1>2, InterruptionEnds DEF HistoryStep, Disturbed, IdleTimerRestarts
<1>4. Taken' = Taken + 1 /\ (pc \in {"scan", "decide"} => lag' = lag + 1)
  <2>1. sleepLeft \in Nat /\ lag \in Nat /\ SleepFor(CheckIfIdleEvery) \in Nat
    BY PeriodType, SeenType DEF PartsInv, IInv, TypeOKH, TypeOK
  <2>2. SleepFor(CheckIfIdleEvery)' = SleepFor(CheckIfIdleEvery)
    BY DEF SleepFor
  <2> QED
    BY <2>1, <2>2 DEF TimePasses, Tick, Sleeping, Taken
<1> QED
  BY <1>1, <1>2, <1>3, <1>4, SeenType DEF SeenOf, Passed, Checking

\* The manager's thread counts what its scan passes and restarts its timer.
LEMMA SeenManager ==
  ASSUME PartsInv, HistoryStep, NEW d \in Watched, SeenOf(d), ManagerStep,
         busyFor'[d] = busyFor[d]
  PROVE  SeenOf(d)'
<1> USE DEF At, GoToSleep, paceVars, timerVars
<1>1. UNCHANGED paceVars => Taken' = Taken
  BY DEF Taken, SleepFor
<1>2. pc \in {"check", "clients", "scan"} /\ pc' # "check" /\ ~interrupted' => ~interrupted
  BY InterruptionEnds DEF HistoryStep, Disturbed, IdleTimerRestarts
<1>3. CASE StartCheck
  <2>1. /\ UNCHANGED <<lag, idleAge>> /\ Taken' = Taken /\ pc = "check" /\ pc' = "clients"
        /\ ~Passed(d)'
    BY <1>1, <1>3 DEF StartCheck, Mon!AreClientsConnected, Passed
  <2> QED
    BY <1>2, <2>1 DEF SeenOf, Checking
<1>4. CASE InMonitor
  <2>1. UNCHANGED <<lag, idleAge, pc>> /\ Taken' = Taken /\ pc \in {"clients", "scan"}
    BY <1>1, <1>4 DEF InMonitor, Mon!PingClient, Mon!ConnectClient, Mon!ScanPast,
       PartsInv, IInv, LoopInv
  <2>2. Passed(d)' => Passed(d) \/ idleState[d]
    <3> SUFFICES ASSUME Passed(d)' PROVE Passed(d) \/ idleState[d]
      OBVIOUS
    <3>1. Mon!ScanPast /\ next' = next + 1 /\ next + 1 > d
      BY <1>4, <2>1 DEF InMonitor, Mon!PingClient, Mon!ConnectClient, Mon!ScanPast, Mon!Answer, Passed
    <3>2. CASE next = d
      BY <3>1, <3>2 DEF Mon!ScanPast, Mon!KeepsAwake, Watched
    <3>3. CASE next # d
      BY <3>1, <3>3, SeenType DEF Mon!ScanPast, Passed
    <3> QED
      BY <3>2, <3>3
  <2> QED
    BY <1>2, <2>1, <2>2, SeenType DEF SeenOf, Checking
<1>5. CASE StayOnline
  BY <1>5 DEF StayOnline, Mon!ReturnClients, Mon!Return, SeenOf, Passed, Checking
<1>6. CASE NobodyOnline
  <2>1. UNCHANGED <<lag, idleAge>> /\ Taken' = Taken /\ pc = "clients" /\ pc' = "scan" /\ ~Passed(d)'
    BY <1>1, <1>6 DEF NobodyOnline, Mon!ReturnClients, Mon!Return, Passed
  <2> QED
    BY <1>2, <2>1 DEF SeenOf, Checking
<1>7. CASE MonitorAgain \/ Resumed
  <2>1. idleAge' = 0 /\ Taken' = 0 /\ pc' = "check" /\ call' # "scan"
    BY <1>7, PeriodType, SeenType DEF MonitorAgain, Resumed, RestartTimers, monitorVars, Taken, SleepFor
  <2> QED
    BY <2>1 DEF SeenOf, Passed
<1>8. CASE StartScan
  <2>1. UNCHANGED <<lag, idleAge, pc>> /\ Taken' = Taken /\ pc = "scan" /\ next' = 1
    BY <1>1, <1>8 DEF StartScan, Mon!IsTheMachineIdle
  <2>2. ~Passed(d)'
    BY <2>1, SeenType DEF Passed
  <2> QED
    BY <1>2, <2>1, <2>2 DEF SeenOf, Checking
<1>9. CASE EndScan
  <2>1. /\ UNCHANGED <<lag, idleAge>> /\ Taken' = Taken /\ pc = "scan" /\ pc' = "decide"
        /\ call = "scan" /\ call' = "none" /\ (result' => next \notin Mon!Devices)
    BY <1>1, <1>9 DEF EndScan, Mon!FoundBusy, Mon!FoundAllIdle, Mon!Return
  <2>2. Passed(d)' => Passed(d)
    BY <2>1, SeenType DEF Passed, Mon!Devices
  <2> QED
    BY <1>2, <2>1, <2>2 DEF SeenOf, Checking
<1>10. CASE KeepRunning
  <2>1. /\ lag' = 0 /\ Taken' = 0 /\ pc = "decide" /\ pc' = "check" /\ call' # "scan"
        /\ idleAge' = 0 \/ result
    BY <1>10, PeriodType, SeenType DEF KeepRunning, UpdateTimers, monitorVars, Taken, SleepFor
  <2>2. CASE idleAge' = 0
    BY <2>1, <2>2 DEF SeenOf, Passed
  <2>3. CASE result
    BY <2>1, <2>3, SeenType DEF SeenOf, Passed
  <2> QED
    BY <2>1, <2>2, <2>3
<1>11. CASE SuspendTheMachine \/ RtcWake
  BY <1>11, SeenType DEF SuspendTheMachine, RtcWake, monitorVars, SeenOf, Passed, Checking
<1> QED
  BY <1>3, <1>4, <1>5, <1>6, <1>7, <1>8, <1>9, <1>10, <1>11 DEF ManagerStep

\* Everything else leaves the checks alone, but for the age of the idle timer
\* when the machine wakes up from a suspension by others.
LEMMA SeenOthers ==
  ASSUME PartsInv, HistoryStep, NEW d \in Watched, SeenOf(d), busyFor'[d] = busyFor[d],
         WakeUp \/ OthersSuspendTheMachine \/ ClientsChange
           \/ \E e \in Dev!Devices : DeviceThread(e)
  PROVE  SeenOf(d)'
<1>1. UNCHANGED <<call, next, result, pc, sleepLeft, lag>>
  BY DEF WakeUp, ResumeAfter, OthersSuspendTheMachine, SuspendedByOthers, ClientsChange,
     Mon!ClientChanges, Mon!callVars, DeviceThread, monitorVars, paceVars
<1>2. Taken' = Taken /\ (~interrupted' => ~interrupted)
  BY <1>1, InterruptionEnds DEF Taken, SleepFor, HistoryStep, Disturbed, IdleTimerRestarts
<1>3. idleAge' = idleAge \/ asleep
  BY DEF WakeUp, ResumeAfter, OthersSuspendTheMachine, SuspendedByOthers, ClientsChange,
     DeviceThread, timerVars
<1> QED
  BY <1>1, <1>2, <1>3, SeenType DEF SeenOf, Passed, Checking

\* What the checks have seen stays what the devices did.
LEMMA SeenStep == PartsInv /\ SeenInv /\ [HistoryStep]_systemVarsH => SeenInv'
<1> SUFFICES ASSUME PartsInv, SeenInv, [HistoryStep]_systemVarsH, NEW d \in Watched
             PROVE  SeenOf(d)'
  BY DEF SeenInv, SeenOf, Watched
<1>1. SeenOf(d)
  BY DEF SeenInv, SeenOf
<1>2. CASE HistoryStep /\ TimePasses
  BY <1>1, <1>2, SeenTick
<1>3. CASE HistoryStep /\ ~TimePasses
  <2>1. busyFor'[d] = busyFor[d]
    BY <1>3, OneClock, SeenType
  <2> QED
    BY <1>1, <1>3, <2>1, SeenManager, SeenOthers DEF HistoryStep, SystemNext, ManagerThread
<1>4. CASE UNCHANGED systemVarsH
  BY <1>1, <1>4 DEF systemVarsH, varsH, vars, monitorVars, paceVars, timerVars, deviceVarsH, SeenOf,
     Passed, Checking, Taken, SleepFor
<1> QED
  BY <1>2, <1>3, <1>4

-----------------------------------------------------------------------------
(* How long the machine is up for nothing.                                 *)

SomeAnswer == \E c \in Mon!Clients : Answers(c)

\* The types of what is compared.
LEMMA UnusedType ==
  ASSUME PartsInv
  PROVE  /\ lag \in 0 .. MaxLag /\ MaxLag \in Nat /\ sleepLeft \in Nat /\ waited \in Nat
         /\ Stay \in Nat /\ Stay = MaxLag + SleepFor(StopMonitoringFor)
         /\ pc = "online" => sleepLeft <= SleepFor(StopMonitoringFor)
         /\ pc \notin {"check", "online"} => sleepLeft = 0
         /\ \A d \in Gating :
              /\ d \in Mon!Devices /\ DevH!SettlingTime(d) \in Nat /\ Late(d) \in Nat
              /\ DevH!SettlingTime(d) + MaxLag <= Late(d) /\ Stay + MaxLag <= Late(d)
<1>1. /\ lag \in 0 .. MaxLag /\ MaxLag \in Nat /\ sleepLeft \in Nat /\ waited \in Nat
      /\ pc = "online" => sleepLeft <= SleepFor(StopMonitoringFor)
      /\ pc \notin {"check", "online"} => sleepLeft = 0
  BY ManagerAssumption DEF PartsInv, IInv, TypeOKH, TypeOK, PaceInv
<1>2. Stay \in Nat /\ Stay = MaxLag + SleepFor(StopMonitoringFor)
  BY SleepType, ManagerAssumption DEF Stay
<1>3. ASSUME NEW d \in Gating
      PROVE  /\ d \in Mon!Devices /\ DevH!SettlingTime(d) \in Nat /\ Late(d) \in Nat
             /\ DevH!SettlingTime(d) + MaxLag <= Late(d) /\ Stay + MaxLag <= Late(d)
  <2>1. d \in Mon!Devices
    BY ManagerAssumption DEF Mon!MonitorConstants
  <2>2. DevH!SettlingTime(d) \in Nat
    BY <2>1, BoundsType
  <2> QED
    BY <1>1, <1>2, <2>1, <2>2 DEF Late
<1> QED
  BY <1>1, <1>2, <1>3

\* A time that starts anew is within every bound.
LEMMA NewTime == PartsInv /\ unusedFor = 0 => UnusedInv
<1> SUFFICES ASSUME PartsInv, unusedFor = 0 PROVE UnusedInv
  OBVIOUS
<1>1. pc = "online" => 0 <= Stay + lag - sleepLeft
  BY UnusedType, SleepType, ManagerAssumption
<1>2. 0 <= lag /\ \A d \in Gating : 0 <= DevH!SettlingTime(d) + lag /\ 0 <= Late(d) + waited
  BY UnusedType
<1>3. \A d \in Watched : 0 <= stillFor[d]
  BY DEF PartsInv, DevH!IInv, DevH!TypeOKH, Watched
<1> QED
  BY <1>1, <1>2, <1>3 DEF UnusedInv

\* The same of a step.
LEMMA StartsAnew == PartsInv' /\ unusedFor' = 0 => UnusedInv'
<1> DEFINE New == unusedFor = 0
<1>1. PartsInv /\ New => UnusedInv
  BY NewTime
<1> HIDE DEF New
<1>2. PartsInv' /\ New' => UnusedInv'
  BY <1>1, PTL
<1> QED
  BY <1>2 DEF New

\* The wait of the manager goes on, but where it is disturbed.
LEMMA WaitedGrows ==
  ASSUME PartsInv, [NextH]_varsH, ~Disturbed, ~asleep'
  PROVE  waited <= waited'
<1>1. waited \in Nat
  BY DEF PartsInv, IInv, TypeOKH
<1> QED
  BY <1>1 DEF NextH, RecordQuiet, Longer, SuspendedByOthers, varsH

\* It is counted with the ticks, as long as it is within its bound.
LEMMA WaitedTicks ==
  ASSUME PartsInv, [NextH]_varsH, Tick, waited <= WaitingTime
  PROVE  waited' = waited + 1
<1> USE DEF PartsInv, IInv, TypeOKH, TypeOK, At, GoToSleep, paceVars
<1>1. /\ sleepLeft \in Nat /\ lag \in Nat /\ waited \in Nat
      /\ sleepLeft' = sleepLeft - 1 \/ lag' = lag + 1
      /\ pc' = pc /\ ~asleep /\ ~asleep' /\ UNCHANGED monitorVars
  BY DEF Tick
<1>2. ~UNCHANGED paceVars
  BY <1>1
<1>3. ~Resume /\ ~SuspendedByOthers /\ ~Environment
  BY <1>1, <1>2 DEF Resume, ResumeAfter, SuspendedByOthers, Environment
<1>4. ~ManagerStep
  BY <1>1, <1>2 DEF ManagerStep, StartCheck, InMonitor, StayOnline, NobodyOnline, MonitorAgain,
     StartScan, EndScan, KeepRunning, SuspendTheMachine, RtcWake, Resumed
<1>5. WaitingTime \in Int
  BY PeriodType DEF WaitingTime
<1> QED
  BY <1>1, <1>2, <1>3, <1>4, <1>5 DEF NextH, RecordQuiet, varsH, vars, Longer

\* A tick of an unused machine is one of every count.
LEMMA UnusedTick ==
  ASSUME PartsInv, PartsInv', UnusedInv, HistoryStep, TimePasses
  PROVE  UnusedInv'
<1>1. CASE ~Unused
  BY <1>1, StartsAnew DEF HistoryStep, RecordUnused
<1>2. CASE Unused
  <2>1. unusedFor \in Nat /\ unusedFor' = DevH!Longer(unusedFor) /\ MaxUse \in Nat
    BY <1>2, HistoryAssumed DEF HistoryStep, RecordUnused, UnusedInv, DevH!HistoryAssumption
  <2>2. unusedFor' \in Nat /\ unusedFor' <= unusedFor + 1
    BY <2>1 DEF DevH!Longer
  <2>3. /\ UNCHANGED <<pc, result, pingable, listening>>
        /\ IF Sleeping THEN sleepLeft' = sleepLeft - 1 /\ lag' = lag ELSE lag' = lag + 1 /\ sleepLeft' = sleepLeft
        /\ Sleeping => pc \in {"check", "online"}
    BY DEF TimePasses, Tick, Sleeping, monitorVars
  <2>4. ASSUME NEW d \in Watched PROVE unusedFor' <= stillFor'[d]
    <3>1. d \in Readable /\ d \in Mon!Devices /\ load[d] = "calm" /\ stillFor[d] \in Nat
          /\ unusedFor <= stillFor[d]
      BY <1>2, <2>4, SeenType
         DEF Unused, Calm, Watched, UnusedInv, PartsInv, DevH!IInv, DevH!TypeOKH
    <3>2. stillFor'[d] = DevH!Longer(stillFor[d])
      BY <3>1, OneClock DEF DevH!RecordUse
    <3> QED
      BY <2>1, <3>1, <3>2 DEF DevH!Longer
  <2>5. ~SomeAnswer'
    BY <1>2, <2>3 DEF Unused, SomeAnswer, Answers
  <2>6. ASSUME pc \in {"suspend", "resumed", "decide", "clients"} PROVE lag' = lag + 1
    BY <2>3, <2>6
  <2>7. ASSUME pc = "online" PROVE unusedFor' <= Stay + lag' - sleepLeft'
    <3>1. unusedFor <= Stay + lag - sleepLeft
      BY <2>7 DEF UnusedInv
    <3> QED
      BY <2>1, <2>2, <2>3, <3>1, UnusedType
  <2>8. ASSUME Gating # {}, Gating \subseteq Readable, pc # "online",
               ResetMonitoringAfter * Minute > CheckPeriod
        PROVE  \E d \in Gating : unusedFor' <= Late(d) + waited'
    <3>1. Mon!CanBeSuspended
      BY <2>8, ManagerAssumption DEF Mon!CanBeSuspended, Mon!MonitorConstants
    <3>2. waited <= WaitingTime
      BY <2>8, <3>1, WaitOK DEF PartsInv, SuspendedInTime
    <3>3. waited' = waited + 1
      BY <3>2, WaitedTicks DEF HistoryStep, TimePasses
    <3>4. PICK d \in Gating : unusedFor <= Late(d) + waited
      BY <2>8 DEF UnusedInv
    <3>5. unusedFor' <= Late(d) + waited'
      BY <2>1, <2>2, <3>3, <3>4, UnusedType
    <3> QED
      BY <3>5
  <2>9. ASSUME Gating # {}, Gating \subseteq Readable, pc = "decide", ~result
        PROVE  \E d \in Gating : unusedFor' <= DevH!SettlingTime(d) + lag'
    <3>1. PICK d \in Gating : unusedFor <= DevH!SettlingTime(d) + lag
      BY <2>9 DEF UnusedInv
    <3>2. unusedFor' <= DevH!SettlingTime(d) + lag'
      BY <2>1, <2>2, <2>6, <2>9, <3>1, UnusedType
    <3> QED
      BY <3>2
  <2>10. ASSUME unusedFor <= lag, lag' = lag + 1 PROVE unusedFor' <= lag'
    BY <2>1, <2>2, <2>10, UnusedType
  <2>11. (pc \in {"suspend", "resumed"} \/ (pc = "clients" /\ result)) => unusedFor' <= lag'
    BY <2>6, <2>10 DEF UnusedInv
  <2>12. /\ ResetMonitoringAfter' = ResetMonitoringAfter
         /\ \A d \in Gating : Late(d)' = Late(d) /\ DevH!SettlingTime(d)' = DevH!SettlingTime(d)
         /\ Stay' = Stay /\ CheckPeriod' = CheckPeriod
    BY DEF Late, Stay, CheckPeriod, SleepFor, DevH!SettlingTime
  <2> QED
    BY <2>2, <2>3, <2>4, <2>5, <2>7, <2>8, <2>9, <2>11, <2>12 DEF UnusedInv, SomeAnswer
<1> QED
  BY <1>1, <1>2

\* What bounds the unused time but the place of the manager's thread.
UseOfMachine ==
  /\ unusedFor \in Nat
  /\ \A d \in Watched : unusedFor <= stillFor[d]
  /\ SomeAnswer => unusedFor = 0

\* The bounds of the next state, from the places and the counts of that state.
LEMMA UnusedThere ==
  ASSUME UseOfMachine',
         pc' \in {"suspend", "resumed"} => unusedFor' <= lag',
         pc' = "clients" /\ result' => unusedFor' <= lag',
         pc' = "online" => unusedFor' <= Stay + lag' - sleepLeft',
         ASSUME Gating # {}, Gating \subseteq Readable, pc' = "decide", ~result'
         PROVE  \E d \in Gating : unusedFor' <= DevH!SettlingTime(d) + lag',
         ASSUME Gating # {}, Gating \subseteq Readable, pc' # "online",
                ResetMonitoringAfter * Minute > CheckPeriod
         PROVE  \E d \in Gating : unusedFor' <= Late(d) + waited'
  PROVE  UnusedInv'
<1>1. /\ \A d \in Gating : Late(d)' = Late(d) /\ DevH!SettlingTime(d)' = DevH!SettlingTime(d)
      /\ Stay' = Stay /\ CheckPeriod' = CheckPeriod
  BY DEF Late, Stay, CheckPeriod, SleepFor, DevH!SettlingTime
<1> QED
  BY <1>1 DEF UnusedInv, UseOfMachine, SomeAnswer

\* The manager's thread keeps the unused machine up within the bounds.
LEMMA UnusedManager ==
  ASSUME PartsInv, UnusedInv, HistoryStep, ManagerStep, UseOfMachine',
         unusedFor' = unusedFor, ~asleep', pc' # "suspend"
  PROVE  UnusedInv'
<1> USE DEF At, GoToSleep, paceVars
<1>1. unusedFor \in Nat
  BY DEF UnusedInv
<1>2. ~Disturbed => waited <= waited'
  BY WaitedGrows DEF HistoryStep
<1>3. waited' \in Nat
  BY PartsStep DEF PartsInv, IInv, TypeOKH, HistoryStep
<1>4. ASSUME ~Disturbed, pc # "online", Gating # {}, Gating \subseteq Readable,
             ResetMonitoringAfter * Minute > CheckPeriod
      PROVE  \E d \in Gating : unusedFor' <= Late(d) + waited'
  <2>1. PICK d \in Gating : unusedFor <= Late(d) + waited
    BY <1>4 DEF UnusedInv
  <2>2. unusedFor' <= Late(d) + waited'
    BY <1>1, <1>2, <1>3, <1>4, <2>1, UnusedType
  <2> QED
    BY <2>2
<1>5. CASE StartCheck
  BY <1>4, <1>5, UnusedThere DEF StartCheck, Mon!AreClientsConnected, Disturbed
<1>6. CASE InMonitor
  <2>1. pc' = pc /\ lag' = lag /\ pc \in {"clients", "scan"} /\ ~Disturbed
    BY <1>6 DEF InMonitor, Mon!PingClient, Mon!ConnectClient, Mon!ScanPast, PartsInv, IInv, LoopInv,
       Disturbed
  <2>2. ASSUME pc = "clients", result' PROVE unusedFor <= lag
    <3>1. CASE result
      BY <2>2, <3>1 DEF UnusedInv
    <3>2. CASE ~result
      <4>1. next \in Mon!Clients /\ Answers(next)
        <5>1. CASE Mon!PingClient
          BY <2>2, <3>2, <5>1 DEF Mon!PingClient, Mon!Reply, Mon!Answer, Answers
        <5>2. CASE Mon!ConnectClient
          <6>1. next \in WithPort /\ WithPort \subseteq Mon!Clients
            BY <5>2, ManagerAssumption DEF Mon!ConnectClient, PartsInv, IInv, TypeOKH, TypeOK,
               Mon!TypeOK, Mon!MonitorConstants
          <6>2. next \in listening
            BY <2>2, <3>2, <5>2 DEF Mon!ConnectClient, Mon!Reply, Mon!Answer
          <6> QED
            BY <6>1, <6>2 DEF Answers
        <5>3. CASE Mon!ScanPast
          BY <2>2, <3>2, <5>3 DEF Mon!ScanPast
        <5> QED
          BY <1>6, <5>1, <5>2, <5>3 DEF InMonitor
      <4> QED
        BY <4>1, UnusedType DEF UnusedInv
    <3> QED
      BY <3>1, <3>2
  <2> QED
    BY <1>4, <2>1, <2>2, UnusedThere
<1>7. CASE StayOnline
  <2>1. unusedFor <= lag /\ lag' = 0 /\ sleepLeft' = SleepFor(StopMonitoringFor) /\ pc' = "online"
    BY <1>7 DEF StayOnline, UnusedInv
  <2>2. unusedFor' <= Stay + lag' - sleepLeft'
    BY <1>1, <2>1, UnusedType, SleepType, ManagerAssumption
  <2> QED
    BY <2>1, <2>2, UnusedThere
<1>8. CASE NobodyOnline \/ StartScan
  BY <1>4, <1>8, UnusedThere DEF NobodyOnline, StartScan, Disturbed
<1>9. CASE MonitorAgain \/ Resumed
  <2>1. pc' = "check" /\ \A d \in Gating : unusedFor' <= Late(d) + waited'
    <3>1. pc' = "check" /\ unusedFor <= Stay + MaxLag
      <4>1. CASE MonitorAgain
        BY <4>1, UnusedType DEF MonitorAgain, UnusedInv
      <4>2. CASE Resumed
        BY <1>1, <4>2, UnusedType DEF Resumed, UnusedInv
      <4> QED
        BY <1>9, <4>1, <4>2
    <3> QED
      BY <1>1, <1>3, <3>1, UnusedType
  <2> QED
    BY <2>1, UnusedThere
<1>10. CASE EndScan
  <2>1. /\ pc = "scan" /\ pc' = "decide" /\ lag' = lag /\ ~Disturbed
        /\ ~result' => next \in Gating /\ ~idleState[next]
    BY <1>10 DEF EndScan, Mon!FoundBusy, Mon!FoundAllIdle, Mon!Return, Mon!KeepsAwake, Disturbed
  <2>2. ASSUME Gating \subseteq Readable, ~result'
        PROVE  \E d \in Gating : unusedFor' <= DevH!SettlingTime(d) + lag'
    <3>1. next \in Gating /\ next \in Watched /\ ~idleState[next]
      BY <2>1, <2>2 DEF Watched
    <3>2. unusedFor <= stillFor[next] /\ stillFor[next] <= DevH!SettlingTime(next)
          /\ stillFor[next] \in Nat
      BY <3>1, DevH!FlagsOK, HistoryAssumed DEF UnusedInv, PartsInv, DevH!IInv, DevH!TypeOKH,
         DevH!FlagReactsToRest, DevH!HistoryAssumption, Watched
    <3>3. unusedFor' <= DevH!SettlingTime(next) + lag'
      BY <1>1, <2>1, <3>1, <3>2, UnusedType
    <3> QED
      BY <3>1, <3>3
  <2> QED
    BY <1>4, <2>1, <2>2, UnusedThere
<1>11. CASE KeepRunning
  <2>1. pc = "decide" /\ pc' = "check" /\ (result => ~Disturbed)
    BY <1>11 DEF KeepRunning, Disturbed
  <2>2. ASSUME ~result, Gating # {}, Gating \subseteq Readable
        PROVE  \E d \in Gating : unusedFor' <= Late(d) + waited'
    <3>1. PICK d \in Gating : unusedFor <= DevH!SettlingTime(d) + lag
      BY <2>1, <2>2 DEF UnusedInv
    <3>2. unusedFor' <= Late(d) + waited'
      BY <1>1, <1>3, <3>1, UnusedType
    <3> QED
      BY <3>2
  <2> QED
    BY <1>4, <2>1, <2>2, UnusedThere
<1>12. CASE RtcWake
  <2>1. pc = "suspend" /\ pc' = "resumed" /\ lag' = lag /\ ~Disturbed
    BY <1>12 DEF RtcWake, Disturbed
  <2> QED
    BY <1>4, <2>1, UnusedThere DEF UnusedInv
<1>13. ~SuspendTheMachine
  BY DEF SuspendTheMachine
<1> QED
  BY <1>5, <1>6, <1>7, <1>8, <1>9, <1>10, <1>11, <1>12, <1>13 DEF ManagerStep

\* The device threads, the clients and a machine that wakes up leave the
\* manager's thread where it is.
LEMMA UnusedOthers ==
  ASSUME PartsInv, UnusedInv, HistoryStep, UseOfMachine', unusedFor' = unusedFor, ~asleep',
         WakeUp \/ OthersSuspendTheMachine \/ ClientsChange
           \/ \E e \in Dev!Devices : DeviceThread(e)
  PROVE  UnusedInv'
<1>1. UNCHANGED <<result, pc, sleepLeft, lag>>
  BY DEF WakeUp, ResumeAfter, OthersSuspendTheMachine, SuspendedByOthers, ClientsChange,
     Mon!ClientChanges, Mon!callVars, DeviceThread, monitorVars, paceVars
<1>2. waited <= waited' /\ waited' \in Nat
  BY <1>1, WaitedGrows, PartsStep DEF Disturbed, PartsInv, IInv, TypeOKH, HistoryStep
<1>3. ASSUME pc # "online", Gating # {}, Gating \subseteq Readable,
             ResetMonitoringAfter * Minute > CheckPeriod
      PROVE  \E d \in Gating : unusedFor' <= Late(d) + waited'
  <2>1. PICK d \in Gating : unusedFor <= Late(d) + waited
    BY <1>3 DEF UnusedInv
  <2>2. unusedFor' <= Late(d) + waited'
    BY <1>2, <2>1, UnusedType DEF UnusedInv
  <2> QED
    BY <2>2
<1> QED
  BY <1>1, <1>3, UnusedThere DEF UnusedInv

\* The unused machine is kept up no longer than the invariant says.
LEMMA UnusedStep == PartsInv /\ UnusedInv /\ [HistoryStep]_systemVarsH => UnusedInv'
<1> SUFFICES ASSUME PartsInv, UnusedInv, [HistoryStep]_systemVarsH PROVE UnusedInv'
  OBVIOUS
<1>1. PartsInv'
  BY PartsStep
<1>2. CASE HistoryStep /\ TimePasses
  BY <1>1, <1>2, UnusedTick
<1>3. CASE HistoryStep /\ ~TimePasses
  <2>1. CASE unusedFor' = 0
    BY <1>1, <2>1, StartsAnew
  <2>2. CASE unusedFor' # 0
    <3>1. unusedFor' = unusedFor /\ ~asleep' /\ pc' # "suspend" /\ ~SomeAnswer'
      BY <1>3, <2>2 DEF HistoryStep, RecordUnused, SomeAnswer
    <3>2. \A d \in Watched : stillFor'[d] = stillFor[d]
      BY <1>3, OneClock, SeenType
    <3>3. UseOfMachine'
      BY <3>1, <3>2 DEF UseOfMachine, UnusedInv, Watched
    <3> QED
      BY <1>3, <3>1, <3>3, UnusedManager, UnusedOthers DEF HistoryStep, SystemNext, ManagerThread
  <2> QED
    BY <2>1, <2>2
<1>4. CASE UNCHANGED systemVarsH
  BY <1>4 DEF systemVarsH, varsH, vars, monitorVars, paceVars, timerVars, deviceVarsH, UnusedInv,
     Answers, Stay, Late, CheckPeriod, SleepFor, DevH!SettlingTime
<1> QED
  BY <1>2, <1>3, <1>4

-----------------------------------------------------------------------------
\* The invariant of the whole program.
WholeInv == PartsInv /\ SystemInv

LEMMA WholeInit == SystemInitH => WholeInv
<1> SUFFICES ASSUME SystemInitH PROVE WholeInv
  OBVIOUS
<1>1. PartsInv
  BY PartsInit
<1>2. UnusedInv
  BY <1>1, NewTime DEF SystemInitH
<1>3. ASSUME NEW d \in Watched PROVE SeenOf(d)
  <2>1. call = "none" /\ pc = "check" /\ idleAge = 0 /\ Taken \in Nat
    BY <1>1, SeenType DEF SystemInitH, SystemInit, Init, Mon!Init, Checking
  <2> QED
    BY <2>1 DEF SeenOf, Passed
<1> QED
  BY <1>1, <1>2, <1>3 DEF WholeInv, SystemInv, SeenInv, SeenOf

LEMMA WholeStep == WholeInv /\ [SystemNextH]_systemVarsH => WholeInv'
BY HistoriesStep, PartsStep, SeenStep, UnusedStep DEF WholeInv, SystemInv

(* Every state of the program satisfies the invariants of its manager, of  *)
(* its devices and of the two together.                                    *)
THEOREM SystemInvariance == SystemSpecH => [](PartsInv /\ SystemInv)
BY WholeInit, WholeStep, PTL DEF SystemSpecH, WholeInv

(* For all timers, thresholds and delays, the machine is not suspended     *)
(* while a watched device has been busy for longer than its grace, unless  *)
(* others suspended it (Device::monitorDeviceUsage and                     *)
(* Manager::monitorSystemUsage together).                                  *)
THEOREM UseIsSeen == SystemSpecH => UseKeepsAwake
<1>1. WholeInv /\ [SystemNextH]_systemVarsH =>
        [SuspendTheMachine /\ ~interrupted /\ SuspendAfter * Minute > CheckPeriod =>
           \A d \in Watched : busyFor[d] <= Grace(d)]_systemVarsH
  <2> SUFFICES ASSUME WholeInv, SuspendTheMachine, ~interrupted,
                      SuspendAfter * Minute > CheckPeriod, NEW d \in Watched
               PROVE  busyFor[d] <= Grace(d)
    OBVIOUS
  <2>1. SeenOf(d) /\ PartsInv
    BY DEF WholeInv, SystemInv, SeenInv, SeenOf
  <2>2. pc = "decide" /\ Minutes(idleAge) >= SuspendAfter
    BY DEF SuspendTheMachine, At, TimeToSuspend
  <2>3. CheckPeriod \in Nat /\ Taken \in 0 .. CheckPeriod
    BY <2>1, <2>2, PeriodType, TakenType DEF PartsInv, IInv, TypeOKH
  <2>4. idleAge >= SuspendAfter * Minute
    BY <2>1, <2>2, SeenType, WholeMinutes, ManagerAssumption
  <2>5. idleAge > Taken
    <3>1. SuspendAfter * Minute \in Int
      BY ManagerAssumption
    <3> QED
      BY <2>1, <2>3, <2>4, <3>1, SeenType
  <2>6. busyFor[d] <= DevH!ReactionTime(d) + MaxLag + Taken
    BY <2>1, <2>2, <2>3, <2>5, SeenType DEF SeenOf, Checking
  <2> QED
    BY <2>1, <2>3, <2>6, SeenType DEF Grace
<1> QED
  BY <1>1, SystemInvariance, PTL DEF SystemSpecH, UseKeepsAwake, WholeInv

\* The invariant bounds the time the machine is up for nothing.
LEMMA UnusedOK == WholeInv => UnusedIsSuspendedInTime
<1> SUFFICES ASSUME WholeInv, Gating # {}, Gating \subseteq Readable,
                    ResetMonitoringAfter * Minute > CheckPeriod
             PROVE  \E d \in Gating : unusedFor <= UpForNothing(d)
  BY DEF UnusedIsSuspendedInTime
<1>1. PartsInv /\ UnusedInv /\ unusedFor \in Nat
  BY DEF WholeInv, SystemInv, UnusedInv
<1>2. WaitingTime \in Nat
  BY PeriodType DEF WaitingTime
<1>3. CASE pc = "online"
  <2>1. PICK d \in Gating : TRUE
    OBVIOUS
  <2>2. unusedFor <= Stay + MaxLag
    BY <1>1, <1>3, UnusedType DEF UnusedInv
  <2>3. unusedFor <= UpForNothing(d)
    BY <1>1, <1>2, <2>2, UnusedType DEF UpForNothing
  <2> QED
    BY <2>3
<1>4. CASE pc # "online"
  <2>1. Mon!CanBeSuspended
    BY ManagerAssumption DEF Mon!CanBeSuspended, Mon!MonitorConstants
  <2>2. waited <= WaitingTime
    BY <1>1, <1>4, <2>1, WaitOK DEF PartsInv, SuspendedInTime
  <2>3. PICK d \in Gating : unusedFor <= Late(d) + waited
    BY <1>1, <1>4 DEF UnusedInv
  <2>4. unusedFor <= UpForNothing(d)
    BY <1>1, <1>2, <2>2, <2>3, UnusedType DEF UpForNothing
  <2> QED
    BY <2>4
<1> QED
  BY <1>3, <1>4

(* For all timers, thresholds and delays, a machine that nothing uses is   *)
(* suspended in time: from the readings of Device::monitorDeviceUsage to   *)
(* rtcwake in Manager::monitorSystemUsage.                                 *)
THEOREM SuspendedUnlessUsed == SystemSpecH => []UnusedIsSuspendedInTime
BY UnusedOK, SystemInvariance, PTL DEF WholeInv

=============================================================================
