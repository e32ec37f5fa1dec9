------------------------------ MODULE Manager ------------------------------
(***************************************************************************)
(* The manager's thread: Manager::monitorSystemUsage, the loop that sleeps,*)
(* asks Monitor whether clients are online and whether the devices are     *)
(* idle, keeps two timers and suspends the machine with rtcwake.           *)
(*                                                                         *)
(* A time point of the code is kept as its age, in ticks of which Minute   *)
(* make a minute: "x = Clock::now()" sets the age of x to zero.  Clock is  *)
(* the system clock, which goes on while the machine is suspended;         *)
(* sleep_for uses the monotonic clock, which does not.                     *)
(***************************************************************************)
EXTENDS Integers

CONSTANTS
  NumDevices, Gating, NumClients, WithPort, LossyNetwork,  \* see Monitor
  CheckIfIdleEvery,      \* the four timers of [tuning], in minutes: the
  StopMonitoringFor,     \* parser accepts every int
  ResetMonitoringAfter,
  SuspendAfter,
  Minute,                \* ticks per minute
  OthersSuspend,         \* may something else (a user, a lid) suspend the machine?
  MaxLag,                \* bound: ticks an iteration spends outside sleep_for
  MaxAge                 \* bound: an age that stands for every greater one

SleepFor(minutes) == IF minutes > 0 THEN minutes * Minute ELSE 0

\* The longest an iteration may take, but for a stay.
CheckPeriod == SleepFor(CheckIfIdleEvery) + MaxLag

VARIABLES
  idleState, pingable, listening, call, next, result,      \* see Monitor
  pc,          \* where the manager's thread is in its loop
  sleepLeft,   \* ticks left of its sleep_for
  lag,         \* ticks this iteration has spent outside sleep_for
  idleAge,     \* age of idleStartTime
  busyAge,     \* age of notIdleStartTime
  asleep       \* is the machine suspended?

Mon == INSTANCE Monitor

ASSUME ManagerAssumption ==
  /\ Mon!MonitorConstants
  /\ CheckIfIdleEvery \in Int
  /\ StopMonitoringFor \in Int
  /\ ResetMonitoringAfter \in Int
  /\ SuspendAfter \in Int
  /\ Minute \in Nat \ {0}
  /\ OthersSuspend \in BOOLEAN
  /\ MaxLag \in Nat
  /\ MaxAge \in Nat
  \* saturation is out of the timers' sight
  /\ MaxAge >= SuspendAfter * Minute
  /\ MaxAge >= ResetMonitoringAfter * Minute

monitorVars == <<idleState, pingable, listening, call, next, result>>
timerVars == <<idleAge, busyAge>>
paceVars  == <<sleepLeft, lag>>
vars == <<monitorVars, paceVars, timerVars, pc, asleep>>

TypeOK ==
  /\ Mon!TypeOK
  /\ pc \in {"check", "clients", "online", "scan", "decide", "suspend", "resumed"}
  /\ sleepLeft \in Nat
  /\ lag \in 0 .. MaxLag
  /\ idleAge \in 0 .. MaxAge
  /\ busyAge \in 0 .. MaxAge
  /\ asleep \in BOOLEAN

Init ==
  /\ Mon!Init
  /\ pc = "check"
  /\ sleepLeft = SleepFor(CheckIfIdleEvery)
  /\ lag = 0
  /\ idleAge = 0
  /\ busyAge = 0
  /\ asleep = FALSE

-----------------------------------------------------------------------------
(* Time.                                                                   *)

Aged(age, ticks) == IF age + ticks < MaxAge THEN age + ticks ELSE MaxAge

\* getMinutesDuration: whole minutes.
Minutes(age) == age \div Minute

Sleeping == pc \in {"check", "online"} /\ sleepLeft > 0

Tick ==
  /\ ~asleep
  /\ IF Sleeping THEN sleepLeft' = sleepLeft - 1 /\ UNCHANGED lag
     ELSE lag < MaxLag /\ lag' = lag + 1 /\ UNCHANGED sleepLeft
  /\ idleAge' = Aged(idleAge, 1)
  /\ busyAge' = Aged(busyAge, 1)
  /\ UNCHANGED <<monitorVars, pc, asleep>>

\* The machine wakes up, at its alarm or by hand: the system clock has gone
\* on, the threads and the monotonic clock have not.
ResumeAfter(ticks) ==
  /\ asleep
  /\ asleep' = FALSE
  /\ idleAge' = Aged(idleAge, ticks)
  /\ busyAge' = Aged(busyAge, ticks)
  /\ UNCHANGED <<monitorVars, pc, paceVars>>

Resume == \E ticks \in 0 .. MaxAge : ResumeAfter(ticks)

SuspendedByOthers ==
  /\ OthersSuspend
  /\ ~asleep
  /\ asleep' = TRUE
  /\ UNCHANGED <<monitorVars, pc, paceVars, timerVars>>

-----------------------------------------------------------------------------
(* The manager's thread.                                                   *)

At(place) == ~asleep /\ pc = place

GoToSleep(place, minutes) ==
  /\ pc' = place
  /\ sleepLeft' = SleepFor(minutes)
  /\ lag' = 0

RestartTimers == idleAge' = 0 /\ busyAge' = 0

StartCheck ==
  /\ At("check")
  /\ sleepLeft = 0
  /\ pc' = "clients"
  /\ Mon!AreClientsConnected
  /\ UNCHANGED <<paceVars, timerVars, asleep>>

\* A step inside areClientsConnected or isTheMachineIdle.
InMonitor ==
  /\ ~asleep
  /\ Mon!PingClient \/ Mon!ConnectClient \/ Mon!ScanPast
  /\ UNCHANGED <<pc, paceVars, timerVars, asleep>>

StayOnline ==
  /\ At("clients")
  /\ result
  /\ Mon!ReturnClients
  /\ GoToSleep("online", StopMonitoringFor)
  /\ UNCHANGED <<timerVars, asleep>>

\* A slip: the answer about the clients is not looked at.
NobodyOnlineUnchecked ==
  /\ At("clients")
  /\ Mon!ReturnClients
  /\ pc' = "scan"
  /\ UNCHANGED <<paceVars, timerVars, asleep>>

NobodyOnline ==
  /\ At("clients")
  /\ ~result
  /\ Mon!ReturnClients
  /\ pc' = "scan"
  /\ UNCHANGED <<paceVars, timerVars, asleep>>

\* A slip: the stay restarts one timer only.
MonitorAgainOneTimer ==
  /\ At("online")
  /\ sleepLeft = 0
  /\ busyAge' = 0
  /\ GoToSleep("check", CheckIfIdleEvery)
  /\ UNCHANGED <<monitorVars, idleAge, asleep>>

MonitorAgain ==
  /\ At("online")
  /\ sleepLeft = 0
  /\ RestartTimers
  /\ GoToSleep("check", CheckIfIdleEvery)
  /\ UNCHANGED <<monitorVars, asleep>>

StartScan ==
  /\ At("scan")
  /\ Mon!IsTheMachineIdle
  /\ UNCHANGED <<pc, paceVars, timerVars, asleep>>

EndScan ==
  /\ At("scan")
  /\ Mon!FoundBusy \/ Mon!FoundAllIdle
  /\ pc' = "decide"
  /\ UNCHANGED <<paceVars, timerVars, asleep>>

\* A slip: a busy verdict does not restart the idle timer.
UpdateTimersIdleKept ==
  LET reset == Mon!CanBeSuspended /\ Minutes(busyAge) >= ResetMonitoringAfter
  IN  /\ idleAge' = IF reset THEN 0 ELSE idleAge
      /\ busyAge' = IF result \/ reset THEN 0 ELSE busyAge

\* A slip: an idle verdict does not restart the busy timer.
UpdateTimersBusyKept ==
  LET reset == Mon!CanBeSuspended /\ Minutes(busyAge) >= ResetMonitoringAfter
  IN  /\ idleAge' = IF ~result \/ reset THEN 0 ELSE idleAge
      /\ busyAge' = IF reset THEN 0 ELSE busyAge

\* Both durations are taken before the timer of the other verdict restarts;
\* the busy one restarts both, whatever the verdict of this iteration is.
UpdateTimers ==
  LET busyFor == Minutes(busyAge)
      reset == Mon!CanBeSuspended /\ busyFor >= ResetMonitoringAfter
  IN  /\ idleAge' = IF ~result \/ reset THEN 0 ELSE idleAge
      /\ busyAge' = IF result \/ reset THEN 0 ELSE busyAge

\* "if idle for # minutes", by the duration taken before the update.
TimeToSuspend ==
  /\ Mon!CanBeSuspended
  /\ Minutes(idleAge) >= SuspendAfter

KeepRunning ==
  /\ At("decide")
  /\ ~TimeToSuspend
  /\ UpdateTimers
  /\ GoToSleep("check", CheckIfIdleEvery)
  /\ UNCHANGED <<monitorVars, asleep>>

SuspendTheMachine ==
  /\ At("decide")
  /\ TimeToSuspend
  /\ UpdateTimers
  /\ pc' = "suspend"
  /\ UNCHANGED <<monitorVars, paceVars, asleep>>

\* rtcwake suspends the machine, or returns at once (not root, not there).
RtcWake ==
  /\ At("suspend")
  /\ asleep' \in BOOLEAN
  /\ pc' = "resumed"
  /\ UNCHANGED <<monitorVars, paceVars, timerVars>>

Resumed ==
  /\ At("resumed")
  /\ RestartTimers
  /\ GoToSleep("check", CheckIfIdleEvery)
  /\ UNCHANGED <<monitorVars, asleep>>

ManagerStep ==
  \/ StartCheck \/ InMonitor \/ StayOnline \/ NobodyOnline \/ MonitorAgain
  \/ StartScan \/ EndScan \/ KeepRunning \/ SuspendTheMachine \/ RtcWake \/ Resumed

\* Device threads do not run while the machine is suspended; clients do.
Environment ==
  /\ \/ ~asleep /\ \E d \in Mon!Devices, state \in BOOLEAN : Mon!SetIdleState(d, state)
     \/ \E c \in Mon!Clients : Mon!ClientChanges(c)
  /\ UNCHANGED <<pc, paceVars, timerVars, asleep>>

\* Everything but the passing of awake time.
Happening == Resume \/ SuspendedByOthers \/ ManagerStep \/ Environment

Next == Tick \/ Happening

\* Time passes, the operating system runs the thread, the alarm wakes the
\* machine.  Nothing is assumed of devices, clients and other suspenders.
Fairness == WF_vars(Tick) /\ WF_vars(ManagerStep) /\ WF_vars(Resume)

Steps == Init /\ [][Next]_vars

Spec == Steps /\ Fairness

-----------------------------------------------------------------------------
(* Manager::monitorSystemUsage runs alone: what the thread does next and   *)
(* the Monitor method it is inside of agree, so that a verdict is never    *)
(* taken for an answer about clients or the other way round.               *)
LoopInv ==
  /\ call \in {"ping", "connect"} => pc = "clients"
  /\ call = "scan" => pc = "scan"
  /\ pc = "clients" => call \in {"ping", "connect"}

AllIdle == \A d \in Gating : idleState[d]
Reachable(c) == c \in pingable /\ (c \in WithPort => c \in listening)

\* A client with a port that only is never both pingable and listening may
\* seem online to a ping and a connection at two instants.
StaysAway(c) ==
  <>[](c \notin pingable) \/ (c \in WithPort /\ <>[](c \notin listening))

OthersStop == <>[][~SuspendedByOthers]_vars

\* The client whose ping or connection fails in this step of the probe.
Lost == {c \in Mon!Clients : LossyNetwork /\ c = next /\ next' = c + 1 /\ ~result'}

(* A machine whose gating devices stay idle and whose clients stay away,   *)
(* and that nobody else suspends any more, is suspended, again and again   *)
(* (Manager::monitorSystemUsage: the timers are restarted by one check     *)
(* after the other, and a restart must not outrun suspend_after for ever). *)
IdleMachineIsSuspended ==
  (<>[]AllIdle /\ (\A c \in Mon!Clients : StaysAway(c)) /\ OthersStop)
    => []<>(pc = "suspend")

(* A client that stays reachable, and whose answers the network does not   *)
(* lose any more, keeps the machine up for good, whatever the devices do,  *)
(* others did to the timers and the network to other clients (the "stay    *)
(* online" branch of Manager::monitorSystemUsage,                          *)
(* Monitor::areClientsConnected).                                          *)
ClientKeepsAwake ==
  \A c \in Mon!Clients :
    <>[]Reachable(c) /\ <>[][c \notin Lost]_vars => <>[][~SuspendTheMachine]_vars

(* A gating device whose flag stays unset keeps the machine up for good,   *)
(* although a suspension does not look at the flags but at the idle timer; *)
(* what others add to that timer by their suspensions must wear off.       *)
BusyDeviceKeepsAwake ==
  \A d \in Gating :
    <>[](~idleState[d]) /\ OthersStop => <>[][~SuspendTheMachine]_vars

=============================================================================
