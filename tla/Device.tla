------------------------------- MODULE Device -------------------------------
(***************************************************************************)
(* The threads of Device::monitorDeviceUsage, one per monitored CPU or     *)
(* disk: take a reading, sleep MONITORING_THREAD_FREQUENCY, take another,  *)
(* compare the load between the two with the threshold, write the idle     *)
(* flag, and spin an idle disk down with hdparm before the next sample.    *)
(* What happens to the device outside a sample is not seen.                *)
(*                                                                         *)
(* The load of a tick is abstracted to its place about idle_load_threshold *)
(* (Readings shows that the numbers of the code justify this).  Time is in *)
(* ticks, ages saturate and asleep stops everything but the system clock,  *)
(* as in Manager.                                                          *)
(***************************************************************************)
EXTENDS Integers

CONSTANTS
  NumDevices,
  SpinDown,     \* the disks with spinDown
  Readable,     \* the devices whose statistics are in the expected form
  IdleTime,     \* idle_time_threshold of each device, minutes, any int
  Minute,       \* ticks per minute
  Window,       \* MONITORING_THREAD_FREQUENCY in ticks
  Suspending,   \* may the machine be suspended?
  MaxLag,       \* bound: ticks between two steps that wait for nothing
  MaxSpin,      \* bound: ticks hdparm takes
  MaxAge        \* bound: an age that stands for every greater one

Devices == 1 .. NumDevices

\* So low that no sample of such ticks is above the threshold, so high that
\* every such sample is, and what is in between: the exact threshold, or
\* what is above it only by the rounding or the length of a sample.
Loads == {"calm", "edge", "busy"}

DeviceConstants ==
  /\ NumDevices \in Nat
  /\ SpinDown \subseteq Devices
  /\ Readable \subseteq Devices
  /\ IdleTime \in [Devices -> Int]
  /\ Minute \in Nat \ {0}
  /\ Window \in Nat \ {0}
  /\ Suspending \in BOOLEAN
  /\ MaxLag \in Nat /\ MaxSpin \in Nat /\ MaxAge \in Nat
  \* saturation is out of the thresholds' sight
  /\ \A d \in Devices : MaxAge >= IdleTime[d] * Minute

ASSUME DeviceAssumption == DeviceConstants

VARIABLES
  idleState,   \* m_deviceIsIdle
  load,        \* the load of each device in the current tick
  at,          \* where each thread is: "sample", "judge" or "spinDown"
  spent,       \* ticks it has been there
  seen,        \* the loads of the ticks of its sample
  above,       \* deviceUsage.load > idle_load_threshold
  startAge,    \* age of its startTime
  asleep       \* is the machine suspended?

threadVars == <<at, spent, seen, above>>
vars == <<idleState, load, threadVars, startAge, asleep>>

\* How long a thread may be where it is.
Patience(place) ==
  CASE place = "sample"   -> Window + MaxLag
    [] place = "judge"    -> MaxLag
    [] place = "spinDown" -> MaxSpin

TypeOK ==
  /\ idleState \in [Devices -> BOOLEAN]
  /\ load \in [Devices -> Loads]
  /\ at \in [Devices -> {"sample", "judge", "spinDown"}]
  /\ spent \in [Devices -> Nat]
  /\ seen \in [Devices -> SUBSET Loads]
  /\ above \in [Devices -> BOOLEAN]
  /\ startAge \in [Devices -> 0 .. MaxAge]
  /\ asleep \in BOOLEAN

Init ==
  /\ idleState = [d \in Devices |-> FALSE]
  /\ load \in [Devices -> Loads]
  /\ at = [d \in Devices |-> "sample"]
  /\ spent = [d \in Devices |-> 0]
  /\ seen = [d \in Devices |-> {}]
  /\ above = [d \in Devices |-> FALSE]
  /\ startAge = [d \in Devices |-> 0]
  /\ asleep = FALSE

-----------------------------------------------------------------------------
(* Time, use and suspension.                                               *)

Aged(age, ticks) == IF age + ticks < MaxAge THEN age + ticks ELSE MaxAge

\* getMinutesDuration: whole minutes.
Minutes(age) == age \div Minute

Tick ==
  /\ ~asleep
  /\ \A d \in Devices : spent[d] < Patience(at[d])
  /\ spent' = [d \in Devices |-> spent[d] + 1]
  /\ seen' = [d \in Devices |->
                IF at[d] = "sample" THEN seen[d] \union {load[d]} ELSE seen[d]]
  /\ startAge' = [d \in Devices |-> Aged(startAge[d], 1)]
  /\ load' \in [Devices -> Loads]
  /\ UNCHANGED <<idleState, at, above, asleep>>

Suspend ==
  /\ Suspending
  /\ ~asleep
  /\ asleep' = TRUE
  /\ UNCHANGED <<idleState, load, threadVars, startAge>>

\* The system clock has gone on, the threads have not.
ResumeAfter(ticks) ==
  /\ asleep
  /\ asleep' = FALSE
  /\ startAge' = [d \in Devices |-> Aged(startAge[d], ticks)]
  /\ UNCHANGED <<idleState, load, threadVars>>

Resume == \E ticks \in 0 .. MaxAge : ResumeAfter(ticks)

-----------------------------------------------------------------------------
(* One thread.                                                             *)

GoTo(d, place) ==
  /\ at' = [at EXCEPT ![d] = place]
  /\ spent' = [spent EXCEPT ![d] = 0]

\* A slip: the loads of the last sample stay in the next one.
StartSampleOver(d) ==
  /\ GoTo(d, "sample")
  /\ UNCHANGED seen

\* Nothing waits between the end of an iteration and the first reading.
StartSample(d) ==
  /\ GoTo(d, "sample")
  /\ seen' = [seen EXCEPT ![d] = {}]

\* What a sample of these loads may come to: a mixed one to either.
Outcomes(loads) ==
  {outcome \in BOOLEAN : IF outcome THEN loads # {"calm"} ELSE loads # {"busy"}}

\* calculateUsage's second reading; unreadable statistics come to anything.
CalculateUsage(d) ==
  /\ ~asleep
  /\ at[d] = "sample"
  /\ spent[d] >= Window
  /\ \E outcome \in (IF d \in Readable THEN Outcomes(seen[d]) ELSE BOOLEAN) :
       above' = [above EXCEPT ![d] = outcome]
  /\ GoTo(d, "judge")
  /\ UNCHANGED <<idleState, load, seen, startAge, asleep>>

SetIdleState(d, state) == idleState' = [idleState EXCEPT ![d] = state]

\* A slip: the timer restarts, the flag stays.
FoundBusyFlagKept(d) ==
  /\ ~asleep
  /\ at[d] = "judge"
  /\ above[d]
  /\ startAge' = [startAge EXCEPT ![d] = 0]
  /\ StartSample(d)
  /\ UNCHANGED <<idleState, load, above, asleep>>

\* A slip: the flag is taken back, the timer goes on.
FoundBusyTimerKept(d) ==
  /\ ~asleep
  /\ at[d] = "judge"
  /\ above[d]
  /\ SetIdleState(d, FALSE)
  /\ StartSample(d)
  /\ UNCHANGED <<load, above, startAge, asleep>>

FoundBusy(d) ==
  /\ ~asleep
  /\ at[d] = "judge"
  /\ above[d]
  /\ SetIdleState(d, FALSE)
  /\ startAge' = [startAge EXCEPT ![d] = 0]
  /\ StartSample(d)
  /\ UNCHANGED <<load, above, asleep>>

LongEnough(d) == Minutes(startAge[d]) >= IdleTime[d]

\* A slip: every sample restarts the timer.
FoundCalmRestarts(d) ==
  /\ ~asleep
  /\ at[d] = "judge"
  /\ ~above[d]
  /\ ~LongEnough(d)
  /\ startAge' = [startAge EXCEPT ![d] = 0]
  /\ StartSample(d)
  /\ UNCHANGED <<idleState, load, above, asleep>>

FoundCalm(d) ==
  /\ ~asleep
  /\ at[d] = "judge"
  /\ ~above[d]
  /\ ~LongEnough(d)
  /\ StartSample(d)
  /\ UNCHANGED <<idleState, load, above, startAge, asleep>>

\* A slip: a disk that is spun down is not flagged.
FoundIdleFlagForgotten(d) ==
  /\ ~asleep
  /\ at[d] = "judge"
  /\ ~above[d]
  /\ LongEnough(d)
  /\ IF d \in SpinDown THEN GoTo(d, "spinDown") /\ UNCHANGED <<idleState, seen>>
     ELSE SetIdleState(d, TRUE) /\ StartSample(d)
  /\ UNCHANGED <<load, above, startAge, asleep>>

\* Every further calm sample sets the flag, and spins the disk down, again.
FoundIdle(d) ==
  /\ ~asleep
  /\ at[d] = "judge"
  /\ ~above[d]
  /\ LongEnough(d)
  /\ SetIdleState(d, TRUE)
  /\ IF d \in SpinDown THEN GoTo(d, "spinDown") /\ UNCHANGED seen ELSE StartSample(d)
  /\ UNCHANGED <<load, above, startAge, asleep>>

\* hdparm returned.
SpunDown(d) ==
  /\ ~asleep
  /\ at[d] = "spinDown"
  /\ StartSample(d)
  /\ UNCHANGED <<idleState, load, above, startAge, asleep>>

Judge(d) == FoundBusy(d) \/ FoundCalm(d) \/ FoundIdle(d)

Thread(d) == CalculateUsage(d) \/ Judge(d) \/ SpunDown(d)

Next == Tick \/ Suspend \/ Resume \/ \E d \in Devices : Thread(d)

\* Time passes when every thread had its turn, every thread is scheduled
\* and the machine wakes up; nothing is assumed of the use of the devices.
Fairness ==
  /\ WF_vars(Tick) /\ WF_vars(Resume)
  /\ \A d \in Devices : WF_vars(Thread(d))

Steps == Init /\ [][Next]_vars

Spec == Steps /\ Fairness

-----------------------------------------------------------------------------
\* The longest that a use can go unnoticed: it begins when a sample has
\* seen a tick that was not, the sample ends, is judged and the disk spun down, and
\* then the next sample is taken and judged.
Sample == Window + MaxLag
Blind(d) == IF d \in SpinDown THEN MaxSpin ELSE 0
Unnoticed(d) == (Sample - 1) + MaxLag + Blind(d)
ReactionTime(d) == Unnoticed(d) + Sample + MaxLag

\* The longest that a device can be left alone before it is flagged: the
\* last sample that saw it used is judged, the threshold is just not reached
\* when another is, and the next one is taken and judged.
Overdue == (Sample - 1) + MaxLag
CalmAtMost(d) == IF IdleTime[d] > 0 THEN IdleTime[d] * Minute - 1 ELSE 0
SettlingTime(d) == Overdue + CalmAtMost(d) + Sample + MaxLag

=============================================================================
