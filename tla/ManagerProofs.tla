---------------------------- MODULE ManagerProofs ----------------------------
(***************************************************************************)
(* For every configuration of Manager: its inductive invariant holds, it   *)
(* suspends only a quiet, deserted machine, and suspends such a machine in *)
(* time.                                                                   *)
(***************************************************************************)
EXTENDS ManagerHistory, TLAPS

\* Whole minutes reach a threshold exactly when the ticks do.
LEMMA WholeMinutes ==
  ASSUME NEW age \in Nat, NEW minutes \in Int
  PROVE  Minutes(age) >= minutes <=> age >= minutes * Minute
BY ManagerAssumption DEF Minutes

-----------------------------------------------------------------------------
(* The monitor inside the manager.                                         *)

\* Every step of the manager is a step of Monitor or leaves it alone.
LEMMA MonitorStep == [Next]_vars => [Mon!Next]_monitorVars
<1> SUFFICES ASSUME [Next]_vars PROVE [Mon!Next]_monitorVars
  OBVIOUS
<1>1. CASE ManagerStep
  BY <1>1 DEF ManagerStep, StartCheck, InMonitor, StayOnline, NobodyOnline, MonitorAgain,
       StartScan, EndScan, KeepRunning, SuspendTheMachine, RtcWake, Resumed, Mon!Next, Mon!Step
<1>2. CASE Environment
  BY <1>2 DEF Environment, Mon!Next, Mon!Environment
<1>3. CASE Tick \/ Resume \/ SuspendedByOthers
  BY <1>3 DEF Tick, Resume, ResumeAfter, SuspendedByOthers
<1>4. CASE UNCHANGED vars
  BY <1>4 DEF vars
<1> QED
  BY <1>1, <1>2, <1>3, <1>4 DEF Next, Happening

-----------------------------------------------------------------------------
(* Type correctness.                                                       *)

\* A sleep lasts a natural number of ticks, whatever int the timer is.
LEMMA SleepType == \A minutes \in Int : SleepFor(minutes) \in Nat
BY ManagerAssumption DEF SleepFor

\* An age stays an age, however far it moves.
LEMMA AgedType == \A age, ticks \in Nat : Aged(age, ticks) \in 0 .. MaxAge
BY ManagerAssumption DEF Aged

\* Every step keeps the state in its type.
LEMMA TypeStep == TypeOK /\ [Next]_vars => TypeOK'
<1> SUFFICES ASSUME TypeOK, [Next]_vars PROVE TypeOK'
  OBVIOUS
<1> USE DEF TypeOK, paceVars, timerVars
<1>1. Mon!TypeOK'
  BY MonitorStep, Mon!TypeStep, ManagerAssumption DEF Mon!vars, monitorVars
<1>2. 0 \in 0 .. MaxAge /\ 0 \in 0 .. MaxLag
  BY ManagerAssumption
<1>3. CASE Tick
  <2>1. sleepLeft' \in Nat /\ lag' \in 0 .. MaxLag
    BY <1>3, ManagerAssumption DEF Tick, Sleeping
  <2>2. idleAge' \in 0 .. MaxAge /\ busyAge' \in 0 .. MaxAge
    BY <1>3, AgedType DEF Tick
  <2> QED
    BY <1>1, <1>3, <2>1, <2>2 DEF Tick
<1>4. CASE Resume
  <2>1. idleAge' \in 0 .. MaxAge /\ busyAge' \in 0 .. MaxAge
    BY <1>4, AgedType DEF Resume, ResumeAfter
  <2> QED
    BY <1>1, <1>4, <2>1 DEF Resume, ResumeAfter
<1>5. CASE SuspendedByOthers
  BY <1>1, <1>5 DEF SuspendedByOthers
<1>6. CASE ManagerStep
  <2> USE <1>1, <1>2, <1>6, SleepType, ManagerAssumption
      DEF GoToSleep, RestartTimers, UpdateTimers
  <2>1. CASE StartCheck \/ InMonitor \/ NobodyOnline \/ StartScan \/ EndScan \/ RtcWake
    BY <2>1 DEF StartCheck, InMonitor, NobodyOnline, StartScan, EndScan, RtcWake, At
  <2>2. CASE StayOnline \/ MonitorAgain \/ Resumed
    BY <2>2 DEF StayOnline, MonitorAgain, Resumed
  <2>3. CASE KeepRunning
    BY <2>3 DEF KeepRunning
  <2>4. CASE SuspendTheMachine
    BY <2>4 DEF SuspendTheMachine
  <2> QED
    BY <2>1, <2>2, <2>3, <2>4 DEF ManagerStep
<1>7. CASE Environment
  BY <1>1, <1>7 DEF Environment
<1>8. CASE UNCHANGED vars
  BY <1>1, <1>8 DEF vars
<1> QED
  BY <1>3, <1>4, <1>5, <1>6, <1>7, <1>8 DEF Next, Happening

\* The times of an iteration are natural numbers; an idle timer that has not
\* reached suspend_after shows at most one tick less.
LEMMA PeriodType ==
  /\ SleepFor(CheckIfIdleEvery) \in Nat /\ CheckPeriod \in Nat /\ IdleAtMost \in Nat
  /\ CheckPeriod = SleepFor(CheckIfIdleEvery) + MaxLag
  /\ \A age \in Nat : age < SuspendAfter * Minute => age <= IdleAtMost
<1> DEFINE ticks == SuspendAfter * Minute
<1>1. ticks \in Int /\ (SuspendAfter > 0 => ticks >= 1) /\ (SuspendAfter <= 0 => ticks <= 0)
  BY ManagerAssumption
<1>2. IdleAtMost = IF SuspendAfter > 0 THEN ticks - 1 ELSE 0
  BY DEF IdleAtMost
<1>3. SleepFor(CheckIfIdleEvery) \in Nat /\ MaxLag \in Nat /\ SuspendAfter \in Int
  BY SleepType, ManagerAssumption
<1> HIDE DEF ticks
<1>4. IdleAtMost \in Nat /\ \A age \in Nat : age < ticks => age <= IdleAtMost
  BY <1>1, <1>2, <1>3
<1> QED
  BY <1>3, <1>4 DEF CheckPeriod, ticks

-----------------------------------------------------------------------------
(* The inductive invariant.                                                *)

\* The manager starts within the invariant.
LEMMA InitOK == InitH => IInv
<1> SUFFICES ASSUME InitH PROVE IInv
  OBVIOUS
<1>1. Mon!TypeOK
  <2>1. next \in 1 .. (NumDevices + NumClients + 1)
    BY ManagerAssumption DEF InitH, Init, Mon!Init, Mon!MonitorConstants
  <2> QED
    BY <2>1 DEF InitH, Init, Mon!Init, Mon!TypeOK
<1>2. TypeOKH
  <2>1. sleepLeft \in Nat
    BY SleepType, ManagerAssumption DEF InitH, Init
  <2>2. 0 \in 0 .. MaxAge /\ 0 \in 0 .. MaxLag
    BY ManagerAssumption
  <2> QED
    BY <1>1, <2>1, <2>2 DEF InitH, Init, TypeOKH, TypeOK
<1>3. PaceInv /\ WaitInv
  BY PeriodType, ManagerAssumption DEF InitH, Init, PaceInv, WaitInv, Taken
<1> QED
  BY <1>2, <1>3 DEF InitH, Init, Mon!Init, IInv, LoopInv, QuietInv, AwayInv

\* The loop and the monitor it is inside of keep agreeing.
LEMMA LoopStep == TypeOK /\ LoopInv /\ [Next]_vars => LoopInv'
<1> SUFFICES ASSUME TypeOK, LoopInv, [Next]_vars PROVE LoopInv'
  OBVIOUS
<1> USE DEF LoopInv, At
<1>1. CASE StartCheck
  BY <1>1 DEF StartCheck, Mon!AreClientsConnected
<1>2. CASE InMonitor
  BY <1>2 DEF InMonitor, Mon!PingClient, Mon!ConnectClient, Mon!ScanPast, Mon!Answer
<1>3. CASE StayOnline \/ NobodyOnline
  BY <1>3 DEF StayOnline, NobodyOnline, Mon!ReturnClients, Mon!Return, GoToSleep
<1>4. CASE StartScan
  BY <1>4 DEF StartScan, Mon!IsTheMachineIdle
<1>5. CASE EndScan
  BY <1>5 DEF EndScan, Mon!FoundBusy, Mon!FoundAllIdle, Mon!Return
<1>6. CASE MonitorAgain \/ KeepRunning \/ SuspendTheMachine \/ RtcWake \/ Resumed
  BY <1>6 DEF MonitorAgain, KeepRunning, SuspendTheMachine, RtcWake, Resumed, GoToSleep,
       monitorVars, TypeOK, Mon!TypeOK
<1>7. CASE Environment
  BY <1>7 DEF Environment, Mon!SetIdleState, Mon!ClientChanges, Mon!callVars
<1>8. CASE Tick \/ Resume \/ SuspendedByOthers \/ UNCHANGED vars
  BY <1>8 DEF Tick, Resume, ResumeAfter, SuspendedByOthers, vars, monitorVars
<1> QED
  BY <1>1, <1>2, <1>3, <1>4, <1>5, <1>6, <1>7, <1>8 DEF Next, Happening, ManagerStep

\* The history only watches.
LEMMA NextIsNext == [NextH]_varsH => [Next]_vars
BY DEF NextH, RecordQuiet, Next, Happening, varsH

\* Every step keeps the state and the history in their types.
LEMMA TypeStepH == TypeOKH /\ [NextH]_varsH => TypeOKH'
<1> SUFFICES ASSUME TypeOKH, [NextH]_varsH PROVE TypeOKH'
  OBVIOUS
<1> USE DEF TypeOKH
<1>1. TypeOK'
  BY TypeStep, NextIsNext
<1>2. quiet' \in 0 .. MaxAge
  <2>1. 0 \in 0 .. MaxAge /\ Aged(quiet, 1) \in 0 .. MaxAge
    BY AgedType, ManagerAssumption
  <2>2. quiet' \in {0, quiet, Aged(quiet, 1)}
    BY DEF NextH, RecordQuiet, varsH
  <2> QED
    BY <2>1, <2>2
<1>3. interrupted' \in BOOLEAN
  BY DEF NextH, RecordQuiet, varsH
<1>4. away' \subseteq Mon!Clients
  BY DEF NextH, RecordAway, AwayNow, Lost, varsH
<1>5. waited' \in Nat
  BY DEF NextH, RecordQuiet, Longer, varsH
<1> QED
  BY <1>1, <1>2, <1>3, <1>4, <1>5

\* The idle timer is restarted whenever the quiet is disturbed.
LEMMA QuietStep == IInv /\ [NextH]_varsH => QuietInv'
<1> SUFFICES ASSUME IInv, [NextH]_varsH, ~interrupted' PROVE QuietInv'
  BY DEF QuietInv
<1> USE DEF IInv, QuietInv
<1>1. idleAge \in Nat /\ quiet \in Nat /\ MaxAge \in Nat
  BY ManagerAssumption DEF TypeOKH, TypeOK
<1> USE DEF paceVars, timerVars
<1>2. CASE UNCHANGED varsH
  BY <1>2 DEF varsH, vars
<1>3. CASE Tick /\ quiet' = Aged(quiet, 1) /\ UNCHANGED interrupted
  BY <1>1, <1>3 DEF Tick, Aged
<1>4. ASSUME Resume \/ ManagerStep \/ Environment,
             quiet' = IF Disturbed THEN 0 ELSE quiet,
             interrupted' = (interrupted /\ ~Disturbed /\ ~IdleTimerRestarts)
      PROVE  QuietInv'
  <2>1. CASE Resume
    BY <1>1, <1>4, <2>1 DEF Resume, ResumeAfter, Disturbed, IdleTimerRestarts
  <2>2. CASE StartCheck \/ StayOnline \/ NobodyOnline \/ StartScan \/ EndScan
    BY <1>1, <1>4, <2>2 DEF StartCheck, StayOnline, NobodyOnline, StartScan, EndScan, At,
         Disturbed, IdleTimerRestarts, GoToSleep
  <2>3. CASE InMonitor \/ Environment
    BY <1>1, <1>4, <2>3 DEF InMonitor, Environment, Disturbed, IdleTimerRestarts
  <2>4. CASE MonitorAgain \/ Resumed
    BY <1>1, <1>4, <2>4 DEF MonitorAgain, Resumed, RestartTimers, GoToSleep, At
  <2>5. CASE KeepRunning \/ SuspendTheMachine
    <3>1. /\ ~asleep /\ UNCHANGED asleep /\ (Disturbed <=> ~result)
          /\ idleAge' \in {0, idleAge} /\ (~result => idleAge' = 0)
      BY <2>5 DEF KeepRunning, SuspendTheMachine, UpdateTimers, GoToSleep, At, Disturbed
    <3>2. CASE idleAge' # 0
      <4>1. quiet' = quiet /\ ~interrupted
        BY <1>4, <3>1, <3>2 DEF TypeOKH, IdleTimerRestarts
      <4>2. idleAge <= quiet
        BY <2>5, <4>1 DEF KeepRunning, SuspendTheMachine, At
      <4> QED
        BY <1>1, <3>1, <4>1, <4>2
    <3>3. CASE idleAge' = 0
      BY <1>1, <1>4, <3>1, <3>3
    <3> QED
      BY <3>2, <3>3
  <2>6. CASE RtcWake
    BY <1>1, <1>4, <2>6 DEF RtcWake, At, Disturbed, IdleTimerRestarts
  <2> QED
    BY <1>4, <2>1, <2>2, <2>3, <2>4, <2>5, <2>6 DEF ManagerStep
<1> QED
  BY <1>2, <1>3, <1>4 DEF NextH, RecordQuiet

\* Only the sleeps of the loop leave ticks to sleep.
LEMMA PaceStep == TypeOK /\ PaceInv /\ [Next]_vars => PaceInv'
<1> SUFFICES ASSUME TypeOK, PaceInv, [Next]_vars PROVE PaceInv'
  OBVIOUS
<1>0. /\ SleepFor(CheckIfIdleEvery) \in Nat /\ SleepFor(StopMonitoringFor) \in Nat
      /\ SleepFor(CheckIfIdleEvery)' = SleepFor(CheckIfIdleEvery)
      /\ SleepFor(StopMonitoringFor)' = SleepFor(StopMonitoringFor)
  BY SleepType, ManagerAssumption DEF SleepFor
<1> USE <1>0 DEF PaceInv, At, TypeOK, GoToSleep, paceVars
<1>1. CASE Tick
  BY <1>1 DEF Tick, Sleeping
<1>2. CASE Resume \/ SuspendedByOthers \/ Environment \/ UNCHANGED vars
  BY <1>2 DEF Resume, ResumeAfter, SuspendedByOthers, Environment, vars
<1>3. CASE StartCheck \/ InMonitor \/ NobodyOnline \/ StartScan \/ EndScan
  BY <1>3 DEF StartCheck, InMonitor, NobodyOnline, StartScan, EndScan
<1>4. CASE StayOnline \/ MonitorAgain \/ KeepRunning \/ SuspendTheMachine \/ RtcWake \/ Resumed
  BY <1>4 DEF StayOnline, MonitorAgain, KeepRunning, SuspendTheMachine, RtcWake, Resumed
<1> QED
  BY <1>1, <1>2, <1>3, <1>4 DEF Next, Happening, ManagerStep

\* No iteration takes longer than its period.
LEMMA TakenType == TypeOK /\ PaceInv /\ pc # "online" => Taken \in 0 .. CheckPeriod
BY PeriodType, ManagerAssumption DEF TypeOK, PaceInv, Taken

\* What is left of a quiet wait when a check ends that does not suspend.
LEMMA WaitGoesOn ==
  ASSUME IInv, KeepRunning, result, Mon!CanBeSuspended,
         ResetMonitoringAfter * Minute > CheckPeriod
  PROVE  busyAge' = 0 /\ waited <= CheckPeriod + IdleAtMost /\ waited <= idleAge' + CheckPeriod
<1> USE DEF At
<1>1. /\ idleAge \in Nat /\ busyAge \in Nat /\ MaxAge \in Nat /\ waited \in Nat
      /\ CheckPeriod \in Nat /\ IdleAtMost \in Nat /\ Taken \in 0 .. CheckPeriod
      /\ ResetMonitoringAfter * Minute \in Int /\ SuspendAfter * Minute \in Int
      /\ MaxAge >= SuspendAfter * Minute
  BY PeriodType, TakenType, ManagerAssumption DEF IInv, TypeOKH, TypeOK, KeepRunning
<1>2. /\ busyAge' = 0 /\ idleAge' \in {0, idleAge}
      /\ ~(Minutes(busyAge) >= ResetMonitoringAfter) => idleAge' = idleAge
      /\ ~(Minutes(idleAge) >= SuspendAfter)
  BY DEF KeepRunning, UpdateTimers, TimeToSuspend
<1>3. CASE waited <= Taken
  <2>1. /\ waited \in Nat /\ Taken \in 0 .. CheckPeriod /\ CheckPeriod \in Nat
        /\ IdleAtMost \in Nat /\ idleAge' \in Nat /\ busyAge' = 0
    BY <1>1, <1>2
  <2>2. waited <= CheckPeriod
    BY <1>3, <2>1
  <2>3. waited <= CheckPeriod + IdleAtMost
    BY <2>1, <2>2
  <2>4. \A age \in Nat : waited <= age + CheckPeriod
    BY <2>1, <2>2
  <2> QED
    BY <2>1, <2>3, <2>4
<1>4. CASE waited > Taken
  <2>1. busyAge <= Taken /\ (idleAge < MaxAge => waited <= idleAge + CheckPeriod)
    BY <1>4 DEF IInv, WaitInv, KeepRunning
  <2>2. ~(Minutes(busyAge) >= ResetMonitoringAfter)
    <3>1. ~(busyAge >= ResetMonitoringAfter * Minute)
      BY <1>1, <2>1
    <3> QED
      BY <1>1, <3>1, WholeMinutes, ManagerAssumption
  <2>3. idleAge < SuspendAfter * Minute
    <3>1. ~(idleAge >= SuspendAfter * Minute)
      BY <1>1, <1>2, WholeMinutes, ManagerAssumption
    <3> QED
      BY <1>1, <3>1
  <2>4. idleAge < MaxAge /\ idleAge <= IdleAtMost /\ idleAge' = idleAge
    BY <1>1, <1>2, <2>2, <2>3, PeriodType
  <2> QED
    BY <1>1, <1>2, <2>1, <2>4
<1> QED
  BY <1>1, <1>3, <1>4

\* A wait of the quiet machine ends in time.
LEMMA WaitStep == IInv /\ [NextH]_varsH => WaitInv'
<1> SUFFICES ASSUME IInv, [NextH]_varsH, Mon!CanBeSuspended,
                    ResetMonitoringAfter * Minute > CheckPeriod
             PROVE  WaitInv'
  BY DEF WaitInv, Mon!CanBeSuspended, CheckPeriod, SleepFor
<1> USE DEF At, GoToSleep
<1>1. /\ idleAge \in 0 .. MaxAge /\ busyAge \in 0 .. MaxAge /\ MaxAge \in Nat /\ waited \in Nat
      /\ sleepLeft \in Nat /\ lag \in Nat /\ SleepFor(CheckIfIdleEvery) \in Nat
      /\ CheckPeriod \in Nat /\ IdleAtMost \in Nat /\ Taken \in Int
      /\ pc # "online" => Taken \in 0 .. CheckPeriod
  BY PeriodType, TakenType, ManagerAssumption DEF IInv, TypeOKH, TypeOK, Taken
<1>2. /\ SleepFor(CheckIfIdleEvery)' = SleepFor(CheckIfIdleEvery)
      /\ CheckPeriod' = CheckPeriod /\ IdleAtMost' = IdleAtMost
  BY DEF SleepFor, CheckPeriod, IdleAtMost
<1>3. UNCHANGED paceVars => Taken' = Taken
  BY DEF Taken, paceVars, SleepFor
<1>4. pc # "online" =>
        /\ waited <= CheckPeriod + IdleAtMost + Taken
        /\ pc \in {"check", "clients", "scan", "decide"} /\ waited > Taken =>
             /\ ~asleep
             /\ busyAge <= Taken
             /\ idleAge < MaxAge => waited <= idleAge + CheckPeriod
  BY DEF IInv, WaitInv
<1>5. CASE UNCHANGED varsH
  BY <1>2, <1>3, <1>4, <1>5 DEF varsH, vars, timerVars, WaitInv
<1>6. CASE Tick /\ waited' = Longer(waited)
  <2>1. Taken' = Taken + 1
    BY <1>1, <1>2, <1>6 DEF Tick, Taken
  <2>2. waited' \in Nat /\ waited' <= waited + 1
    BY <1>1, <1>6 DEF Longer
  <2>3. /\ busyAge' <= busyAge + 1
        /\ idleAge' < MaxAge => idleAge < MaxAge /\ idleAge' = idleAge + 1
    BY <1>1, <1>6 DEF Tick, Aged
  <2>4. pc' = pc /\ ~asleep'
    BY <1>6 DEF Tick
  <2>5. /\ busyAge' \in Nat /\ idleAge' \in Nat
    BY <1>1, <1>6 DEF Tick, Aged
  <2>6. CASE pc # "online"
    <3>1. waited' <= CheckPeriod + IdleAtMost + Taken'
      BY <1>1, <1>4, <2>1, <2>2, <2>6
    <3>2. ASSUME pc \in {"check", "clients", "scan", "decide"}, waited' > Taken'
          PROVE  busyAge' <= Taken' /\ (idleAge' < MaxAge => waited' <= idleAge' + CheckPeriod)
      <4>1. waited > Taken /\ Taken' \in Nat
        BY <1>1, <2>1, <2>2, <2>6, <3>2
      <4>2. busyAge <= Taken /\ (idleAge < MaxAge => waited <= idleAge + CheckPeriod)
        BY <1>4, <3>2, <4>1
      <4>3. busyAge' <= Taken'
        BY <1>1, <2>1, <2>3, <2>5, <2>6, <4>2
      <4>4. ASSUME idleAge' < MaxAge PROVE waited' <= idleAge' + CheckPeriod
        BY <1>1, <2>2, <2>3, <4>2, <4>4
      <4> QED
        BY <4>3, <4>4
    <3> QED
      BY <1>2, <2>4, <3>1, <3>2 DEF WaitInv
  <2> QED
    BY <2>4, <2>6 DEF WaitInv
<1>7. CASE SuspendedByOthers /\ waited' = 0
  <2>1. pc' = pc /\ Taken' = Taken
    BY <1>3, <1>7 DEF SuspendedByOthers
  <2> QED
    BY <1>1, <1>2, <1>7, <2>1 DEF WaitInv
<1>8. ASSUME Resume \/ ManagerStep \/ Environment, waited' = IF Disturbed THEN 0 ELSE waited
      PROVE  WaitInv'
  <2>1. CASE Resume
    <3>1. asleep /\ pc' = pc /\ Taken' = Taken /\ waited' = waited
      BY <1>3, <1>8, <2>1 DEF Resume, ResumeAfter, Disturbed
    <3> QED
      BY <1>1, <1>2, <1>4, <3>1 DEF WaitInv
  <2>2. CASE StartCheck \/ InMonitor \/ NobodyOnline \/ StartScan \/ EndScan \/ Environment
    <3>1. /\ Taken' = Taken /\ waited' = waited /\ UNCHANGED <<idleAge, busyAge, asleep>>
          /\ pc' # "online" => pc # "online"
          /\ pc' # pc => {pc, pc'} \subseteq {"check", "clients", "scan", "decide"}
      BY <1>3, <1>8, <2>2 DEF StartCheck, InMonitor, NobodyOnline, StartScan, EndScan, Environment,
         timerVars, Disturbed
    <3> QED
      BY <1>2, <1>4, <3>1 DEF WaitInv
  <2>3. CASE StayOnline
    BY <2>3 DEF StayOnline, WaitInv
  <2>4. CASE MonitorAgain \/ Resumed
    <3>1. Taken' = 0 /\ waited' = 0
      BY <1>1, <1>2, <1>8, <2>4 DEF MonitorAgain, Resumed, Disturbed, Taken
    <3> QED
      BY <1>1, <1>2, <3>1 DEF WaitInv
  <2>5. CASE KeepRunning
    <3>1. Taken' = 0 /\ pc' = "check" /\ ~asleep'
      BY <1>1, <1>2, <2>5 DEF KeepRunning, Taken
    <3>2. CASE ~result
      <4>1. waited' = 0
        BY <1>8, <2>5, <3>2 DEF KeepRunning, Disturbed
      <4> QED
        BY <1>1, <1>2, <3>1, <4>1 DEF WaitInv
    <3>3. CASE result
      <4>1. waited' = waited
        BY <1>8, <2>5, <3>3 DEF KeepRunning, Disturbed
      <4> QED
        BY <1>1, <1>2, <2>5, <3>1, <3>3, <4>1, WaitGoesOn DEF WaitInv
    <3> QED
      BY <3>2, <3>3
  <2>6. CASE SuspendTheMachine
    <3>1. Taken' = Taken /\ pc' = "suspend" /\ waited' \in {0, waited} /\ pc # "online"
      BY <1>3, <1>8, <2>6 DEF SuspendTheMachine
    <3> QED
      BY <1>1, <1>2, <1>4, <3>1 DEF WaitInv
  <2>7. CASE RtcWake
    <3>1. Taken' = Taken /\ pc' = "resumed" /\ waited' = waited /\ pc # "online"
      BY <1>3, <1>8, <2>7 DEF RtcWake, Disturbed
    <3> QED
      BY <1>2, <1>4, <3>1 DEF WaitInv
  <2> QED
    BY <1>8, <2>1, <2>2, <2>3, <2>4, <2>5, <2>6, <2>7 DEF ManagerStep
<1> QED
  BY <1>5, <1>6, <1>7, <1>8 DEF NextH, RecordQuiet

\* While clients are probed, the ones passed without an answer were away.
LEMMA AwayStep == IInv /\ [NextH]_varsH => AwayInv'
<1> SUFFICES ASSUME IInv, [NextH]_varsH PROVE AwayInv'
  OBVIOUS
<1> USE DEF IInv, TypeOKH, TypeOK, Mon!TypeOK, At
<1>1. CASE UNCHANGED varsH
  BY <1>1 DEF varsH, vars, monitorVars, AwayInv, AwayNow, Reachable
<1>2. CASE NextH
  <2>1. pc' = "clients" =>
          AwayNow' \union Lost \subseteq away' /\ (pc = "clients" => away \subseteq away')
    BY <1>2 DEF NextH, RecordAway
  <2>2. \A c \in Mon!Clients : c \in Nat /\ c >= 1
    BY ManagerAssumption DEF Mon!MonitorConstants, Mon!Clients
  <2>3. CASE StartCheck
    BY <2>1, <2>2, <2>3 DEF StartCheck, Mon!AreClientsConnected, AwayInv
  <2>4. CASE InMonitor /\ pc = "clients"
    <3>1. pc' = "clients" /\ pingable' = pingable /\ listening' = listening
      BY <2>4 DEF InMonitor, Mon!PingClient, Mon!ConnectClient, Mon!ScanPast, Mon!clientVars
    <3>2. SUFFICES ASSUME NEW c \in Mon!Clients \ away', c < next'
                   PROVE  result'
      BY <2>1, <3>1 DEF AwayInv
    <3>3. c \notin away /\ Reachable(c) /\ c \notin Lost
      BY <2>1, <2>4, <3>1, <3>2 DEF AwayNow, Reachable
    <3>4. CASE c < next
      BY <2>4, <3>1, <3>2, <3>3, <3>4 DEF AwayInv, InMonitor, Mon!PingClient, Mon!ConnectClient,
         Mon!ScanPast, Mon!Answer, LoopInv
    <3>5. CASE c = next
      <4>1. next' = c + 1 /\ result' \in BOOLEAN /\ (~result' => ~Reachable(c) \/ LossyNetwork)
        BY <2>2, <2>4, <3>2, <3>5 DEF Reachable, InMonitor, Mon!PingClient, Mon!ConnectClient,
           Mon!ScanPast, Mon!Answer, Mon!Reply, LoopInv
      <4> QED
        BY <3>3, <3>5, <4>1 DEF Lost
    <3>6. next' \in {next, next + 1}
      BY <2>4 DEF InMonitor, Mon!PingClient, Mon!ConnectClient, Mon!ScanPast, Mon!Answer
    <3> QED
      BY <2>2, <3>2, <3>4, <3>5, <3>6
  <2>5. CASE NobodyOnline
    <3>1. Mon!Clients \subseteq away
      BY <2>5, ManagerAssumption DEF NobodyOnline, Mon!ReturnClients, AwayInv,
         Mon!MonitorConstants, Mon!Clients
    <3> QED
      BY <1>2, <2>5, <3>1 DEF NobodyOnline, NextH, RecordAway, AwayInv
  <2>6. CASE Environment
    <3>1. pc' = pc /\ next' = next /\ result' = result
      BY <2>6 DEF Environment, Mon!SetIdleState, Mon!ClientChanges, Mon!callVars
    <3> QED
      BY <1>2, <2>1, <3>1 DEF AwayInv, NextH, RecordAway
  <2>7. CASE Tick \/ Resume \/ SuspendedByOthers
    <3>1. pc' = pc /\ next' = next /\ result' = result
      BY <2>7 DEF Tick, Resume, ResumeAfter, SuspendedByOthers, monitorVars
    <3> QED
      BY <1>2, <2>1, <3>1 DEF AwayInv, NextH, RecordAway
  <2>8. CASE StartScan \/ EndScan \/ (InMonitor /\ pc # "clients")
    <3>1. pc \notin {"clients", "check"} /\ pc' \in {"scan", "decide", pc}
      BY <2>8 DEF StartScan, EndScan, InMonitor, Mon!PingClient, Mon!ConnectClient, Mon!ScanPast,
         LoopInv
    <3>2. pc' \in {"scan", "decide"} => pc \in {"scan", "decide"}
      BY <2>8, <3>1 DEF StartScan, EndScan, InMonitor
    <3> QED
      BY <1>2, <3>1, <3>2 DEF AwayInv, NextH, RecordAway
  <2>9. CASE StayOnline \/ MonitorAgain \/ KeepRunning \/ SuspendTheMachine \/ RtcWake \/ Resumed
    BY <2>9 DEF StayOnline, MonitorAgain, KeepRunning, SuspendTheMachine, RtcWake, Resumed,
       GoToSleep, AwayInv
  <2> QED
    BY <1>2, <2>3, <2>4, <2>5, <2>6, <2>7, <2>8, <2>9 DEF NextH, RecordQuiet, ManagerStep
<1> QED
  BY <1>1, <1>2

\* The invariant is inductive.
LEMMA InvStep == IInv /\ [NextH]_varsH => IInv'
BY NextIsNext, TypeStepH, LoopStep, QuietStep, PaceStep, WaitStep, AwayStep DEF IInv, TypeOKH

(* Every state satisfies the inductive invariant: the idle timer is never  *)
(* older than the quiet, and the scan begins after the clients were away.  *)
THEOREM Invariance == SpecH => []IInv
BY InitOK, InvStep, PTL DEF SpecH

(* Manager::monitorSystemUsage suspends only after suspend_after minutes   *)
(* of quiet, whatever the timers of the configuration are.                 *)
THEOREM QuietBeforeSuspend == SpecH => SuspendsOnlyWhenQuiet
<1>1. IInv /\ [NextH]_varsH =>
        [Suspends /\ ~interrupted => quiet >= SuspendAfter * Minute]_varsH
  <2> SUFFICES ASSUME IInv, NextH, Suspends, ~interrupted
               PROVE  quiet >= SuspendAfter * Minute
    OBVIOUS
  <2>1. Minutes(idleAge) >= SuspendAfter
    BY DEF Suspends, NextH, RecordQuiet, Tick, Resume, ResumeAfter, SuspendedByOthers, Environment, ManagerStep,
       StartCheck, InMonitor, StayOnline, NobodyOnline, MonitorAgain, StartScan, EndScan,
       KeepRunning, SuspendTheMachine, RtcWake, Resumed, TimeToSuspend, At, GoToSleep
  <2>2. idleAge <= quiet /\ idleAge \in Nat /\ quiet \in Nat /\ SuspendAfter * Minute \in Int
    BY ManagerAssumption DEF IInv, TypeOKH, TypeOK, QuietInv, Suspends
  <2>3. idleAge >= SuspendAfter * Minute
    BY <2>1, <2>2, WholeMinutes, ManagerAssumption
  <2> QED
    BY <2>2, <2>3
<1> QED
  BY <1>1, Invariance, PTL DEF SpecH, SuspendsOnlyWhenQuiet

\* The invariant bounds the wait of the quiet machine.
LEMMA WaitOK == IInv => SuspendedInTime
<1> SUFFICES ASSUME IInv, pc # "online", Mon!CanBeSuspended,
                    ResetMonitoringAfter * Minute > CheckPeriod
             PROVE  waited <= WaitingTime
  BY DEF SuspendedInTime
<1>1. Taken \in 0 .. CheckPeriod /\ CheckPeriod \in Nat /\ IdleAtMost \in Nat /\ waited \in Nat
  BY PeriodType, TakenType DEF IInv, TypeOKH
<1>2. waited <= CheckPeriod + IdleAtMost + Taken
  BY DEF IInv, WaitInv
<1> QED
  BY <1>1, <1>2 DEF WaitingTime

(* A quiet machine is suspended within suspend_after and two checks if     *)
(* reset_monitoring_after is longer than a check takes, whatever the other *)
(* timers of the configuration are.                                        *)
THEOREM InTime == SpecH => []SuspendedInTime
BY WaitOK, Invariance, PTL

(* It suspends only after a probe of the same iteration that every client  *)
(* was away for at some instant, or whose ping or connection was lost.     *)
THEOREM DesertedBeforeSuspend == SpecH => SuspendsOnlyWhenDeserted
<1>1. IInv => (Suspends => away = Mon!Clients)
  BY DEF IInv, AwayInv, Suspends
<1> QED
  BY <1>1, Invariance, PTL DEF SpecH, SuspendsOnlyWhenDeserted

=============================================================================
