---------------------------- MODULE DeviceHistory ----------------------------
(***************************************************************************)
(* Device with the history that the idle flag of each device is about: how *)
(* long it has been used, left alone, and judged calm.                     *)
(***************************************************************************)
EXTENDS Device

CONSTANTS
  Recorded,  \* readable devices, any of them: their use and rest are recorded
  MaxUse     \* bound: a use, or a rest, that stands for every longer one

\* Out of sight of what is said of uses and rests.
ASSUME HistoryAssumption ==
  /\ MaxUse \in Nat
  /\ Recorded \subseteq Readable
  /\ \A d \in Recorded : MaxUse > ReactionTime(d) /\ MaxUse > SettlingTime(d)

VARIABLES
  busyFor,   \* ticks a readable device has been busy for without a break
  stillFor,  \* ticks it has been calm for without a break
  calmFor,   \* ticks awake since a sample above the threshold was judged
  slept      \* the devices for which the machine was suspended since then

useVars == <<busyFor, stillFor>>
calmVars == <<calmFor, slept>>
varsH == <<vars, useVars, calmVars>>

InitH ==
  /\ Init
  /\ busyFor = [d \in Recorded |-> 0]
  /\ stillFor = [d \in Recorded |-> 0]
  /\ calmFor = [d \in Devices |-> 0]
  /\ slept = {}

Longer(ticks) == IF ticks < MaxUse THEN ticks + 1 ELSE MaxUse

RecordUse ==
  /\ busyFor' = [d \in Recorded |-> IF load[d] = "busy" THEN Longer(busyFor[d]) ELSE 0]
  /\ stillFor' = [d \in Recorded |-> IF load[d] = "calm" THEN Longer(stillFor[d]) ELSE 0]

RecordTick ==
  /\ RecordUse
  /\ calmFor' = [d \in Devices |-> Aged(calmFor[d], 1)]
  /\ UNCHANGED slept

RecordSuspend ==
  /\ slept' = Devices
  /\ UNCHANGED <<useVars, calmFor>>

RecordThread(d) ==
  /\ calmFor' = IF FoundBusy(d) THEN [calmFor EXCEPT ![d] = 0] ELSE calmFor
  /\ slept' = IF FoundBusy(d) THEN slept \ {d} ELSE slept
  /\ UNCHANGED useVars

NextH ==
  \/ Tick /\ RecordTick
  \/ Suspend /\ RecordSuspend
  \/ Resume /\ UNCHANGED <<useVars, calmVars>>
  \/ \E d \in Devices : Thread(d) /\ RecordThread(d)

SpecH == InitH /\ [][NextH]_varsH

-----------------------------------------------------------------------------
(* Device::monitorDeviceUsage flags a device only when every sample of its *)
(* last idle_time_threshold minutes awake was at or below the threshold.   *)
(* If the machine was suspended meanwhile, its sleep counts as calm.       *)
FlagMeansCalm ==
  \A d \in Devices \ slept : idleState[d] => calmFor[d] >= IdleTime[d] * Minute

(* A device with readable statistics that is used without a break loses    *)
(* its flag within the reaction time: two samples and, for a disk that is  *)
(* being spun down, the hdparm in between (Device::monitorDeviceUsage,     *)
(* Disk::setIdle).                                                         *)
FlagReactsToUse ==
  \A d \in Recorded : idleState[d] => busyFor[d] <= ReactionTime(d)

(* A device with readable statistics that is left alone is flagged within  *)
(* idle_time_threshold minutes and two samples, whatever its thread has    *)
(* seen before and however often the machine is suspended meanwhile        *)
(* (Device::monitorDeviceUsage, whose timer a sample of the rest must not  *)
(* restart).                                                               *)
FlagReactsToRest ==
  \A d \in Recorded : ~idleState[d] => stillFor[d] <= SettlingTime(d)

-----------------------------------------------------------------------------
(* The inductive form.                                                     *)

TypeOKH ==
  /\ TypeOK
  /\ busyFor \in [Recorded -> Nat]
  /\ stillFor \in [Recorded -> Nat]
  /\ calmFor \in [Devices -> 0 .. MaxAge]
  /\ slept \subseteq Devices

PaceInv == \A d \in Devices :
  /\ spent[d] <= Patience(at[d])
  /\ at[d] = "sample" /\ spent[d] > 0 => seen[d] # {}
  /\ at[d] = "spinDown" => d \in SpinDown /\ idleState[d]

CalmInv ==
  /\ asleep => slept = Devices
  /\ \A d \in Devices \ slept : startAge[d] <= calmFor[d]
  /\ FlagMeansCalm

\* How long the use of a flagged device can have lasted, place by place.
UseInv == \A d \in Recorded :
  /\ at[d] = "sample" =>
       /\ ~(seen[d] \subseteq {"busy"}) => busyFor[d] < spent[d]
       /\ idleState[d] => busyFor[d] <= Unnoticed(d) + spent[d]
  /\ at[d] = "judge" =>
       /\ ~above[d] => busyFor[d] <= Sample - 1 + spent[d]
       /\ idleState[d] => busyFor[d] <= Unnoticed(d) + Sample + spent[d]
  /\ at[d] = "spinDown" => busyFor[d] <= Sample - 1 + MaxLag + spent[d]

\* How long a device without its flag can have been left alone: little
\* longer than its timer runs, and not much longer than its threshold.
RestInv == \A d \in Recorded :
  /\ at[d] = "sample" /\ ~(seen[d] \subseteq {"calm"}) => stillFor[d] < spent[d]
  /\ at[d] = "judge" /\ above[d] => stillFor[d] <= Sample - 1 + spent[d]
  /\ ~idleState[d] =>
       /\ startAge[d] < MaxAge => stillFor[d] <= startAge[d] + Overdue
       /\ at[d] = "sample" => stillFor[d] <= Overdue + CalmAtMost(d) + spent[d]
       /\ at[d] = "judge" => stillFor[d] <= Overdue + CalmAtMost(d) + Sample + spent[d]

IInv == TypeOKH /\ PaceInv /\ CalmInv /\ UseInv /\ RestInv

=============================================================================
