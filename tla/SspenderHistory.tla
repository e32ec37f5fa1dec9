-------------------------- MODULE SspenderHistory --------------------------
(***************************************************************************)
(* Sspender with the histories of its manager and of its devices, and with *)
(* that of the machine: how long it has been kept up for nobody.           *)
(***************************************************************************)
EXTENDS Sspender, ManagerHistory

CONSTANT
  MaxUse     \* see DeviceHistory; unused time that stands for any longer one

VARIABLES
  busyFor, stillFor, calmFor, slept,  \* see DeviceHistory
  unusedFor  \* ticks the machine has been up for, since it was last suspended,
             \* used by a device it waits for, or in reach of a client

\* With what is proved of the histories of the devices.
DevH == INSTANCE DeviceProofs WITH MaxLag <- DeviceLag, MaxAge <- MaxDeviceAge, Suspending <- TRUE,
                                  Recorded <- Readable

deviceVarsH == <<idleState, asleep, deviceVars, busyFor, stillFor, calmFor, slept>>
systemVarsH == <<varsH, deviceVarsH, unusedFor>>

\* How long a use can last before the machine is suspended all the same: the
\* flag reacts just after a check has read it, and the next check finds the
\* device busy but suspends the machine by the idle time before.
Grace(d) == DevH!ReactionTime(d) + MaxLag + CheckPeriod

\* How long the machine can be kept up without any use but of this device
\* or by a client: the last check before finds its flag unset still, or
\* the last stay goes on, and then the machine waits for its idle timer.
Stay == MaxLag + SleepFor(StopMonitoringFor)
Late(d) == MaxLag + (IF DevH!SettlingTime(d) > Stay THEN DevH!SettlingTime(d) ELSE Stay)
UpForNothing(d) == Late(d) + WaitingTime

\* Out of sight of what is said of them.
ASSUME UseAssumption ==
  /\ DevH!HistoryAssumption
  /\ \A d \in Watched : MaxUse > Grace(d) /\ MaxUse > UpForNothing(d)

SystemInitH == SystemInit /\ InitH /\ DevH!InitH /\ unusedFor = 0

\* Does a probe find this client online, if nothing is lost?
Answers(c) == IF c \in WithPort THEN c \in listening ELSE c \in pingable

Unused == (\A d \in Gating : Calm(d)) /\ \A c \in Mon!Clients : ~Answers(c)

RecordUnused ==
  unusedFor' =
    IF TimePasses THEN IF Unused THEN DevH!Longer(unusedFor) ELSE 0
    ELSE IF asleep' \/ pc' = "suspend" \/ \E c \in Mon!Clients : Answers(c)' THEN 0
    ELSE unusedFor

\* A history follows the steps of its module.  It would stand still at any
\* other step, and so it rules none out.
RecordManager ==
  IF [Next]_vars THEN [NextH]_varsH ELSE UNCHANGED <<quiet, waited, interrupted, away>>

RecordDevices ==
  IF [Dev!Next]_(Dev!vars) THEN [DevH!NextH]_deviceVarsH
                           ELSE UNCHANGED <<busyFor, stillFor, calmFor, slept>>

SystemNextH == SystemNext /\ RecordManager /\ RecordDevices /\ RecordUnused

SystemSpecH == SystemInitH /\ [][SystemNextH]_systemVarsH /\ SystemFairness

-----------------------------------------------------------------------------
(* If suspend_after is longer than the period of the checks, the machine   *)
(* is not suspended while a watched device has been busy for longer than   *)
(* its thread's reaction time and one check, unless others suspended it    *)
(* since the idle timer restarted (Device::monitorDeviceUsage,             *)
(* Manager::monitorSystemUsage, which decides by an idle time that it took *)
(* before the verdict of the same check).                                  *)
UseKeepsAwake ==
  [][SuspendTheMachine /\ ~interrupted /\ SuspendAfter * Minute > CheckPeriod =>
       \A d \in Watched : busyFor[d] <= Grace(d)]_systemVarsH

(* Nothing but use keeps the machine up: if reset_monitoring_after is      *)
(* longer than the period of the checks, a machine whose devices it waits  *)
(* for are left alone, and whose clients stay away, is suspended within    *)
(* the time the slowest flag, or the last stay, takes and that of the idle *)
(* timer and two checks (from the readings of Device::monitorDeviceUsage   *)
(* to rtcwake in Manager::monitorSystemUsage).                             *)
UnusedIsSuspendedInTime ==
  Gating # {} /\ Gating \subseteq Readable /\ ResetMonitoringAfter * Minute > CheckPeriod
    => \E d \in Gating : unusedFor <= UpForNothing(d)

-----------------------------------------------------------------------------
(* The inductive form, with the invariants of the parts.                   *)

Checking == pc \in {"check", "clients", "scan", "decide"}

\* The scan of this check has found this device idle.
Passed(d) == (call = "scan" /\ next > d) \/ (pc = "decide" /\ result)

\* What a check has passed was not in use, or not for long; an idle timer
\* that was not restarted since the last check stands for what it passed.
SeenInv ==
  \A d \in Watched :
    /\ Passed(d) => busyFor[d] <= DevH!ReactionTime(d) + lag
    /\ Checking /\ ~interrupted =>
         \/ idleAge <= Taken
         \/ busyFor[d] <= DevH!ReactionTime(d) + MaxLag + Taken

\* How long the machine is up for nothing, place by place.
UnusedInv ==
  /\ unusedFor \in Nat
  /\ \A d \in Watched : unusedFor <= stillFor[d]
  /\ (\E c \in Mon!Clients : Answers(c)) => unusedFor = 0
  /\ pc \in {"suspend", "resumed"} => unusedFor <= lag
  /\ pc = "clients" /\ result => unusedFor <= lag
  /\ pc = "online" => unusedFor <= Stay + lag - sleepLeft
  /\ Gating # {} /\ Gating \subseteq Readable =>
       /\ pc = "decide" /\ ~result =>
            \E d \in Gating : unusedFor <= DevH!SettlingTime(d) + lag
       /\ pc # "online" /\ ResetMonitoringAfter * Minute > CheckPeriod =>
            \E d \in Gating : unusedFor <= Late(d) + waited

SystemInv == SeenInv /\ UnusedInv

=============================================================================
