------------------------------ MODULE Sspender ------------------------------
(***************************************************************************)
(* The running program: the manager's thread and the threads of the        *)
(* devices, which share the idle flags, the clock and the machine's sleep. *)
(***************************************************************************)
EXTENDS Manager

CONSTANTS
  SpinDown, Readable, IdleTime, Window,  \* see Device
  DeviceLag, MaxSpin, MaxDeviceAge       \* bounds: MaxLag, MaxSpin and MaxAge of Device

VARIABLES
  load, at, spent, seen, above, startAge \* see Device

Dev == INSTANCE Device WITH MaxLag <- DeviceLag, MaxAge <- MaxDeviceAge, Suspending <- TRUE

ASSUME SystemAssumption == Dev!DeviceConstants

deviceVars == <<load, at, spent, seen, above, startAge>>
systemVars == <<vars, deviceVars>>

\* The devices that can keep the machine awake by what their statistics say.
Watched == Gating \intersect Readable

SystemInit == Init /\ Dev!Init

-----------------------------------------------------------------------------
(* One clock and one sleep for all threads.                                *)

TimePasses == Tick /\ Dev!Tick

\* A slip: the threads of the devices begin anew with the machine.
WakeUpRestarted ==
  /\ \E ticks \in 0 .. MaxAge : ResumeAfter(ticks)
  /\ startAge' = [d \in Dev!Devices |-> 0]
  /\ UNCHANGED <<load, at, spent, seen, above>>

WakeUp == \E ticks \in 0 .. MaxAge : ResumeAfter(ticks) /\ Dev!ResumeAfter(ticks)

OthersSuspendTheMachine == SuspendedByOthers /\ UNCHANGED deviceVars

ManagerThread == ManagerStep /\ UNCHANGED deviceVars

DeviceThread(d) ==
  /\ Dev!Thread(d)
  /\ UNCHANGED <<pingable, listening, call, next, result, pc, paceVars, timerVars>>

ClientsChange ==
  /\ \E c \in Mon!Clients : Mon!ClientChanges(c)
  /\ UNCHANGED <<pc, paceVars, timerVars, asleep, deviceVars>>

SystemNext ==
  \/ TimePasses \/ WakeUp \/ OthersSuspendTheMachine
  \/ ManagerThread \/ ClientsChange
  \/ \E d \in Dev!Devices : DeviceThread(d)

\* Of the manager and of each device thread, as in their own modules.
SystemFairness ==
  /\ WF_systemVars(TimePasses) /\ WF_systemVars(WakeUp) /\ WF_systemVars(ManagerThread)
  /\ \A d \in Dev!Devices : WF_systemVars(DeviceThread(d))

SystemSpec == SystemInit /\ [][SystemNext]_systemVars /\ SystemFairness

-----------------------------------------------------------------------------
(* The program is a set of device threads whose machine is suspended by    *)
(* the manager, among others, between any two of their steps, so that what *)
(* Device promises holds of it (Manager::monitorSystemUsage).              *)
ImplementsDevice == Dev!Spec

Busy(d) == load[d] = "busy"
Calm(d) == load[d] = "calm"

(* On a machine that stays awake in the end, a device that is left alone   *)
(* is flagged idle in the end and stays so, one that is used all the time  *)
(* is not flagged in the end, both if its statistics are readable, and     *)
(* however often the machine was suspended before                          *)
(* (Device::monitorDeviceUsage; the flag must not flip for ever, nor the   *)
(* spinning down of an idle disk starve sampling).                         *)
FlagFollowsUse ==
  \A d \in Readable :
    /\ <>[](Calm(d) /\ ~asleep) => <>[](idleState[d])
    /\ <>[](Busy(d) /\ ~asleep) => <>[](~idleState[d])

(* A machine whose watched devices are left alone and whose clients stay   *)
(* away, and that nobody else suspends any more, is suspended, again and   *)
(* again (from the readings of Device::monitorDeviceUsage to rtcwake).     *)
UnusedMachineIsSuspended ==
  ((\A d \in Gating : <>[]Calm(d)) /\ (\A c \in Mon!Clients : StaysAway(c)) /\ OthersStop)
    => []<>(pc = "suspend")

(* A watched device that stays busy keeps the machine up for good, if      *)
(* nobody else suspends it any more (Device::monitorDeviceUsage,           *)
(* Monitor::isTheMachineIdle, Manager::monitorSystemUsage).                *)
UsedMachineStaysUp ==
  \A d \in Watched : <>[]Busy(d) /\ OthersStop => <>[][~SuspendTheMachine]_vars

=============================================================================
