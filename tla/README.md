# sspender in TLA+

sspender is a daemon that watches a Linux server and suspends it with
`rtcwake` when nobody needs it: when no configured client is online and the
monitored CPU and disks have been idle for long enough. These modules model the
program in `src/src/`, state what it promises and check it: TLC on small
instances, TLAPS for every value of the constants.

## The system

| Component | State | Operations | Talks to |
|---|---|---|---|
| Manager loop (`Manager.cpp`) | `idleStartTime`, `notIdleStartTime`, four timers, wake times, sleep mode | `monitorSystemUsage` (endless), `suspendTheMachine`, `suspendUntil`, `rtcWakeSuspend`, setters | asks Monitor, runs `rtcwake` |
| Monitor (`Monitor.cpp`) | lists of CPUs, disks and addresses | `areClientsConnected` (ping, then connect if there is a port), `isTheMachineIdle`, `canBeSuspended` | reads each device's flag under that device's mutex |
| Device threads (`Device.cpp`, `Disk.cpp`, `Cpu.cpp`), one per device | `m_deviceIsIdle` (under a mutex), `startTime`, two readings of the kernel's statistics | `monitorDeviceUsage` (endless): read, sleep a second, read, judge, set the flag, spin down | writes its flag, runs `hdparm` |
| Wake times (`suspendTheMachine`, `convertTimeToMinutes`) | wake times of the configuration | convert, sort, pick the next one | sets the alarm of `rtcwake` |
| Configuration (`ConfigParser.cpp`) | none that outlives `loadConfigs` | read entries, addresses, times; validate; drop | asks the partition table |
| Partition table (`PartitionTable.cpp`) | blocks, and the partitions of each disk | `loadPartitionTable`, three lookups | reads `/proc/partitions` and sysfs |
| `main` (`sspender.cpp`) | the results of the parser | table, configuration, set-up, loop | all of the above |
| Utilities, watch dog | none; a flag that ends a thread | clock, durations, strings, processes | used by all |

The program is one manager thread and a thread per device. They share the idle
flags and nothing else. Everything else happens outside and between any two
steps: clients come and go, devices are used, time passes, the machine is
suspended by this program or by somebody else.

What is hard about it:

* **No snapshot.** Monitor reads flags and probes clients one after the other
  while they change; the answer is used several steps later.
* **Two clocks.** Durations are differences of the system clock, which runs
  while the machine is suspended; sleeps use the monotonic clock, which does
  not.
* **Order within a check.** The manager takes both durations, then restarts a
  timer, then compares the durations it took.
* **Timers against each other.** Four timers that the parser takes as they are
  decide whether an idle machine is ever suspended.
* **Blocking inside a thread.** `hdparm` runs in the sampling thread, `ping`
  and `connect` in the manager's.
* **Texts accepted by one function and read by another.** Times and ports are
  validated with `strtol` and read by different code later.
* **Order of `/proc/partitions`.** The table is built in one pass.
* **Arithmetic of the readings.** Sums and differences of ints that may
  overflow, quotients of doubles that may be 0 / 0 or round, a sample that lasts
  longer than the second it is divided by.

What makes each part correct, and the property that says so, is in the tables
below. `PROJECT.json` lists the hazards, each at its line with its properties.

## The modules

| Module | What it is |
|---|---|
| `Monitor` | the two loops of class Monitor, with devices and clients as environment; type correctness of a step |
| `MonitorHistory` | Monitor and what was seen during the call in progress |
| `MonitorProofs` | regularity of both loops |
| `Manager` | the loop; `Mon == INSTANCE Monitor` is the monitor inside it |
| `ManagerHistory` | Manager and how long it has been quiet, how long it has waited since, and who was missed by the probe |
| `ManagerProofs` | no early suspension, and no late one |
| `WakeTime` | validation, conversion, sort and choice of the alarm |
| `WakeTimeProofs` | the alarm is the next wake time |
| `Device` | the device threads with use, suspension and hdparm |
| `DeviceHistory` | Device and how long each device has been used, left alone, and judged calm |
| `DeviceProofs` | reaction time, settling time and meaning of the flag |
| `Readings` | Device with the numbers: counters, ints, quotients, thresholds |
| `ReadingsHistory` | Readings with the history of `DeviceHistory` |
| `ReadingsProofs` | Readings implements Device |
| `Sspender` | the manager's thread and the device threads together; it extends `Manager`, and `Dev == INSTANCE Device WITH ...` is the rest of it |
| `SspenderHistory` | Sspender with the histories of `ManagerHistory` (extended) and of the devices (`DevH == INSTANCE DeviceProofs WITH ...`), and how long the machine has been up for nobody |
| `SspenderProofs` | Sspender implements Manager and Device; what use and disuse do, from end to end |
| `PartitionTable` | the pass over the list of blocks, and the lookups |
| `ConfigParser` | main's start-up: the table (it extends `PartitionTable`), then the disks, then the addresses |
| `StartupProofs` | the table, and the disks that are monitored |
| `MCWakeTime`, `MCReadings`, `MCSspender`, `MCConfigParser` | values for TLC that a `.cfg` cannot hold |

Specifications implement one another, bottom up:

* `Readings` implements `Device` (`ImplementsDevice`): whatever the counters
  stand at, the verdict of a sample is one that Device allows for its loads.
* `Sspender` implements `Device` (`ImplementsDevice`, liveness included): its
  suspensions of the devices are the manager's and those of others. Its steps are
  those of `Manager`, too, whose environment the device threads are: a
  theorem on which the others about `Sspender` rest
  (`SspenderProofs!ManagerRefinement`).
* `Manager` is built on `Monitor`: its actions call those of the monitor inside
  it in the order of the loop, where Monitor alone calls any method at any time.

### Correspondence with the code

*Monitor.* `call` is the method the thread is executing, `next` the loop index,
`result` the variable `isAnyClientOnline` and then the returned value. A step is
one ping, one connection, or one read of a flag under its mutex. `Reply` is what
`ping -c 1` or `connect` may report; with `LossyNetwork` a live host may fail
to answer: the code pings once and never retries. `SetIdleState` and `ClientChanges` stand for the device threads and
for the world.

*Manager.* `pc` is the place in the loop: "check" and "online" are the two
`sleep_for` calls, "clients" and "scan" the calls of Monitor, "decide" lines
101 to 132, "suspend" the call of `rtcwake`, "resumed" what follows. A time
point is kept as its age in ticks (`Minute` ticks make a minute), so
`x = Clock::now()` is age zero and `getMinutesDuration` is integer division.
`UpdateTimers` is lines 101 to 129 as one step, which is sound because nothing
in them is shared. `Resume` ages both timers by any number of ticks: the system
clock went on. `RtcWake` may leave the machine awake: `rtcwake` fails when the
program does not run as root, and the loop goes on as if it had slept.

*WakeTime.* A time is the pair of parts around its colon, a number or `Empty`.
`Converted` is what `convertTimeToMinutes` may return: for a time with one part
it reads `splitTime[1]` past the end, so the number is any of `Garbage`, or the
program ends (`ReadPastEnd`). `Sort` is `std::sort` as any sorted permutation.
`suspendUntil` keeps minutes as numbers of minutes; the conversion of a period
to seconds and the mode given to `rtcwake` are wording.

*Device.* The load of a tick is "calm", "busy", or at the "edge" of
`idle_load_threshold`. A sample lasts `Window` ticks or more; one of calm ticks
comes to no more than the threshold, one of busy ticks to more, any other to
either, and one of a device whose statistics cannot be read to anything: the code
then subtracts variables nobody has written. That is the case of a disk whose
`stat` file does not have exactly eleven fields. `at` is where the thread is:
in the sample, before the judgement, in `hdparm`. `FoundIdle` sets the flag and
spins the disk down again after every calm sample, as the code does.

*Readings.* A disk has one counter (its active time), a CPU one for each core:
the line "cpu0", "cpu1", ... of `/proc/stat` that `sumCpuJiffies` matches.
`Judged` is the counter that remains: the sums start over at every matching line,
so it is the last core's. `grown` is what a counter grew by since the first
reading; what it stood at then is any int (`TwoReadings`). `Wrap` is the
arithmetic of ints of the given width, `Compare` the quotient of doubles and
its comparison: 0 / 0 is not above any threshold, a quotient that
is exactly the threshold may be rounded to either side. `Wholes` is the divisor:
`MONITORING_THREAD_FREQUENCY` for a disk, however long its sample was, hence
`Stretch` in what counts as calm.

*Sspender.* `Tick` of both modules is one step (`TimePasses`), as are their
resumes: there is one clock and one sleep. `idleState` is the same variable in
both; the manager's `asleep` is the devices'. A step of the manager leaves the
threads alone and a step of a thread leaves the manager alone.

*The histories.* A `...History` module adds variables that nothing reads: they
record what the code does not know but its promises are about. In
`SspenderHistory` the histories of the manager and of the devices follow the
steps of their modules, and would stand still at any other step: they rule no
step of `Sspender` out, so that the refinement properties of the run are about
`Sspender` itself. That every step is one of both modules, or leaves them alone,
is proved first; then what is proved of the two histories is at hand.

*PartitionTable, ConfigParser.* A block is a name, `Parent` the directory its
sysfs entry lies in. `IsBlockExists` searches from the second block on, as the
code does. `entries` and `addresses` are the lists of the file; an address is
the list of its parts and the list of what follows its colons. `ValidDisks` is
`validateDisk`, with the partition replaced by its disk. `StoiThrows` is the
exception of `stoi("")` that ends the program.

`PROJECT.json` maps every definition to the lines it stands for. A definition
called a slip is a plausible mistake in the definition below it; putting it
into that definition's place breaks a property of some run, which shows that
the property says something about the code.

## The runs

| Run | Module, cfg | Question | Result |
|---|---|---|---|
| `monitor_regular` | `MonitorHistory`, `MCMonitor.cfg` | Can the answers of loops without a snapshot be trusted? `ScanIsRegular`, `ProbeIsRegular`, `IInv` | hold |
| `manager` | `ManagerHistory`, `MCManager.cfg` | Is the machine ever suspended early, late, or with a client there, even if answers are lost? `SuspendsOnlyWhenQuiet`, `SuspendedInTime`, `SuspendsOnlyWhenDeserted`, `IInv`. Is an idle machine suspended in the end, and a used one not? `IdleMachineIsSuspended`, `ClientKeepsAwake`, `BusyDeviceKeepsAwake`. | hold |
| `manager_busy` | `ManagerHistory`, `MCManagerBusy.cfg` | Did the check that suspends find the machine idle? | **not always** |
| `manager_resumed` | `ManagerHistory`, `MCManagerResumed.cfg` | No suspension before `suspend_after` minutes even if others suspend? | **violated** |
| `wake_next` | `MCWakeTime`, `MCWakeTime.cfg` | Is the alarm the next wake time? `AlarmIsNextWake`, `FullTimesAreKept`, `IInv` | hold |
| `wake_short` | `MCWakeTime`, `MCWakeTimeShort.cfg` | Is every accepted time converted to the minute it names? `AcceptedTimesConvert` | **no** |
| `devices` | `MCReadings`, `MCReadings.cfg` | How stale is a flag, and what does it stand for? `FlagReactsToUse`, `FlagReactsToRest`, `FlagMeansCalm`, `IInv`. Do overflow, rounding and long samples ever turn a verdict? `ImplementsDevice`, `IInvR` | hold |
| `readings_core` | `MCReadings`, `MCReadingsCore.cfg` | Is the CPU judged by the load of the machine? | **no** |
| `sspender` | `MCSspender`, `MCSspender.cfg` | Are its device threads those of Device? `ImplementsDevice`. End to end: `UsedMachineStaysUp`, `UnusedMachineIsSuspended`, `FlagFollowsUse`; and in numbers: how long can a use go unnoticed, and the machine be up for nothing? `UseKeepsAwake`, `UnusedIsSuspendedInTime`, `SystemInv` | hold |
| `startup` | `MCConfigParser`, `MCConfigParser.cfg` | Does monitoring begin with the right disks and addresses? `TableMatchesMachine`, `RightDisks`, `RightAddresses`, `IInv` | hold |
| `startup_first` | `MCConfigParser`, `MCConfigParserFirst.cfg` | Does every partition lead to its disk? | **no** |
| `startup_address` | `MCConfigParser`, `MCConfigParserAddress.cfg` | Are only well-formed addresses let through? `OnlyWellFormedAddresses` | **no** |

The runs that fail are findings, each against a line of the repository:

* `manager_busy`: the suspension is decided by the idle duration taken before
  the same check's busy verdict restarts the timer (`Manager.cpp:102`, `:114`,
  `:132`). A machine found busy just now is suspended if the last busy verdict
  is `suspend_after` minutes old. `BusyDeviceKeepsAwake` shows that a device
  that stays busy is safe when `suspend_after` exceeds the period of the checks.
* `manager_resumed`: after somebody else suspended the machine, the first check
  counts the time asleep as idle time. The device threads measure the same way,
  hence the exception in `FlagMeansCalm`.
* `wake_short`: `isValidTime` takes ":30" and "12:" for valid.
  `convertTimeToMinutes` finds the one part, so it does not refuse them as it
  would ":" (`utils.cpp:89`), and reads the minutes past the end of a vector. In
  the trace the time is ":0" and what is read is -1: the list then holds the
  minute -1.
* `readings_core`: `sumCpuJiffies` starts its sums over at every line that
  contains "cpu" (`Cpu.cpp:110`), so the load of the machine is that of its last
  core: a machine busy on any other core is idle to sspender.
* `startup_first`: the partitions of the first disk of `/proc/partitions` are in
  no list, so a configuration that names one of them is not heard.
* `startup_address`: `isValidIpv4Address` and `isPortValid` take an empty part
  for a number. The trace lets "10..0.255:" through, and `stoi` of its empty port
  throws (`ConfigParser.cpp:290`) with nobody to catch. `RightAddresses` is what
  remains true: when monitoring begins, the well-formed addresses of the list are
  watched, whatever else is in it.

Some properties hold only under a premise that the program does not check.
`IdleMachineIsSuspended` needs `reset_monitoring_after` to be longer than
`check_if_idle_every`: the busy duration is taken before an idle verdict
restarts its timer, so it is never shorter than a check period, and with a
shorter reset time every check restarts the idle timer. The defaults (3 and 1)
are on the right side, and the parser takes any. `SuspendedInTime` and
`UnusedIsSuspendedInTime` state that premise with the lag of a check,
`ResetMonitoringAfter * Minute > CheckPeriod`, and `UseKeepsAwake` the one that
`suspend_after` is longer than a check.

### Bounds

* `Monitor`: three devices, of which two gate, with one between them that does
  not; two clients, one with a port, one without. A loop's interesting cases are
  a change before, at and after its index, and there is a place for each.
* `Manager`: two devices, one of them gating; two clients, one with a port;
  `LossyNetwork` and `OthersSuspend` TRUE: any answer may be lost, and others may
  suspend the machine at any instant. `Minute` = 2, so that a duration can lie
  between two minutes; `MaxLag` = 1 tick per iteration outside the sleeps, so that
  checks are not exactly a minute apart; check, reset and suspend at 1, 2 and 3
  minutes keep the order of the defaults 1, 3, 15; the stay is compared with
  nothing. `MaxAge` is the largest threshold; the assumption says that
  saturation is not visible to the comparisons.
* `WakeTime`: a day of 2 × 2 minutes, all lists of at most three accepted
  times, whole or lacking a part; three are enough for a time before, at and after the current minute,
  and for a list in no order. The proofs cover every length.
* `Device` and `Readings` are checked together, with the history of both in
  `ReadingsHistory`: a CPU with idle time 0 and a disk with spin-down and idle
  time 1, both readable, `Minute` = 2, one tick of lag and of hdparm; the machine
  may be suspended at any instant. A tick has `Grain` = 2 units and one core
  (`readings_core` has two): the CPU, at 60 percent, and the disk, at 50, can come
  to less than their thresholds and to more, the disk to exactly that. Uses and
  rests are recorded for the disk alone (`Recorded`), whose threshold takes time
  and which spins down; the CPU is covered by `FlagMeansCalm` and by the refinement
  of its verdicts. `MaxUse` = 7, at which they stop being counted, is past the
  reaction time and the settling time, 6 at most. Thresholds of zero and below, an
  unreadable device, several recorded devices and more cores are left to the
  proofs. Ints of -5 to 4 overflow in nearly every sample. The assumption that a
  counter grows by less than half their range in a sample holds for 32 bits and a
  sample of some hours.
* `Sspender`: one disk with spin-down and one client, others that suspend.
  Five histories are counted beside the two threads, so the rest is small:
  `Minute` = 1, check, stay, reset and suspend at 1, 1, 2 and 2 minutes, which
  keeps the premises of all properties; the device's threshold of two ticks is
  more than a sample; hdparm is a step of its own, between any two ticks (in
  `devices` it takes one). Neither thread lags: a use begins
  between any two samples, and the threads still interleave at every step of
  a check, but no tick passes within one. `manager` and `devices` have
  the lag, and what holds of the numbers of `Sspender` is proved for any.
  `MaxUse` = 6 is one past the bound of `UnusedIsSuspendedInTime`, 5, which TLC
  reaches: it is exact here.
* `ConfigParser`: a loop device and two disks of one partition each, in every
  order and subset the kernel can list; at most two entries and two addresses,
  since an entry can be disturbed by an earlier one only, and the index of the
  loop is all that an address shares with the next; an address that lacks a number
  of its host is in `startup_address` only, and in the proofs.
  `CHECK_DEADLOCK FALSE` in the start-up and wake runs: the program ends there.

### Fairness

`Manager`: weak fairness of `Tick` (time passes), of the thread (`ManagerStep`:
the operating system schedules it, and ping, connect and rtcwake return) and of
`Resume` (rtcwake sets an alarm at most a day away). `Device`: the same for
time, each thread and the resume. `Sspender`: of the shared clock, the shared
resume, the manager's thread and each device's; that this is enough for the
fairness of `Device` is part of `ImplementsDevice`. The alarm justifies the fairness
of `Resume` for suspensions by rtcwake only; for those of others it is an
assumption, that somebody wakes the machine up again. Nothing is assumed of clients,
of the use of devices or of others who suspend the machine. The premises that are needed
instead are part of the properties: the devices stay idle (or calm), no client answers the
ping or none accepts a connection (`StaysAway`: a client that flips between the
two may seem online for ever, since ping and connection are different instants),
others stop to suspend the machine (`OthersStop`), the machine stays awake
(`FlagFollowsUse`), the network loses no more answers of the client
(`ClientKeepsAwake`). Without the two before that, a machine that is suspended between
any two steps of a thread would never let it finish.

## What is proved

All proofs are checked by TLAPS for every value of the constants that the
modules' assumptions allow: any number of devices and clients, any of the four
timers, any lag.

| Theorem | Says |
|---|---|
| `MonitorProofs!Invariance`, `ScanRegularity`, `ProbeRegularity` | the history of the call covers the part of the list that was passed; from it, the two properties |
| `ManagerProofs!Invariance`, `QuietBeforeSuspend`, `DesertedBeforeSuspend` | no early suspension; no suspension with a client that was there throughout the probe and was heard |
| `ManagerProofs!InTime` | no late suspension: an undisturbed machine is up for `suspend_after` and two checks at most |
| `WakeTimeProofs!Invariance`, `AlarmCorrect`, `FullTimesKept` | the alarm is the next wake time, and no full time later today is slept through |
| `DeviceProofs!Invariance`, `Reaction`, `Settling`, `Calm` | how soon a use takes the flag back and a rest sets it, and what a flag stands for |
| `ReadingsProofs!Invariance`, `DeviceRefinement`, `HistoryRefinement` | the growth of a counter agrees with the loads of its sample; the arithmetic implements Device, so that what is proved of the flags in `DeviceProofs` holds of the threads with their numbers |
| `SspenderProofs!ManagerRefinement`, `DeviceRefinement` | every step of the program is one of Manager and one of Device, or leaves it alone |
| `SspenderProofs!SystemInvariance`, `UseIsSeen`, `SuspendedUnlessUsed` | a machine in use is not suspended, and one that is not used is, each within a time that is the sum of the delays of threads, probe and timers |
| `StartupProofs!Invariance`, `TableCorrect`, `DisksCorrect`, `AddressesCorrect` | the table is the machine's; monitoring begins with the disks that the file means, and its well-formed addresses are watched |

*Monitor.* Regularity is about what was true at some instant of the call. It is
inductive once the invariant says what the loop knows: every gating device
before `next` has been seen idle, every client before `next` that was never seen
down has set `result`, and the history contains the present.

*Manager.* `SuspendsOnlyWhenQuiet` is not inductive: that a duration is long
enough says nothing about the world. `QuietInv` adds `idleAge <= quiet`: the
timer never claims more than the quiet time there was. It fails between a
resume and the restart of the timers, hence `pc # "resumed"`, and needs
`asleep => pc = "resumed"`, which is what a suspension by others breaks. The
comparison of whole minutes is one lemma on integer division. `AwayInv` carries
the answer of the probe from the clients to the decision.

`SuspendedInTime` is a bound on a wait, `waited`, that any check may lengthen by
restarting a timer. `WaitInv` says why it does so once at most: either no check
has found the undisturbed machine idle yet, so the wait is that of this
iteration (`Taken`), or the busy timer restarted with this iteration, so that it
cannot reach `reset_monitoring_after`, and the idle timer is at most a check
younger than the wait. A check that does not suspend then leaves less than
`suspend_after` on the idle timer (`WaitGoesOn`). `PaceInv` bounds an iteration
by its sleep and its lag.

*WakeTime.* `ListInv` says that the list holds the full times converted so far
and, if all are full, nothing else; after the sort, that it is sorted and that
everything before the index is not after `now`. The arithmetic of the day (the
modulus) is in lemmas of its own, so that the steps of the loop need none of
it.

*Device.* `FlagReactsToUse` needs, place by place, how long a use can have
lasted while the flag is set (`UseInv`): a calm sample bounds it by the sample,
`hdparm` by its own length, the next sample by one more. The sum is the
reaction time. `CalmInv` is the same idea as `QuietInv`. `FlagReactsToRest` is the
other direction, and needs more: what counts is not only where the thread is, but
that its timer has not been restarted by a sample of the rest. `RestInv` says
that the timer of a device without its flag lags behind the rest by the
sample at its beginning (`Overdue`), that the threshold was not reached when the
sample before the present one was judged, and that a sample judged above the
threshold saw a tick that was not calm. A suspension helps: it only ages the
timer (`RestResume`).

*Readings.* `SampleInv` relates, place by place, the growth of the judged
counter to the set of loads seen. The step that matters is the second reading:
`GrowthExact` shows that the difference of two wrapped readings is the growth
itself, whatever the counter stood at, because a sample is too short for half
the range of an int; what is left is that a sum of busy ticks exceeds the threshold
(`BusyAdds`), one of calm ticks does not, even when a disk's sample was longer
than its divisor (`CalmAdds`), and that `Compare` then allows only the verdict
Device does (`VerdictsAllowed`).

*Sspender.* Almost every step maps to one action of each module. What does not
follow by shape is that both agree about time and sleep: a resume of the manager
is one of the devices by as many ticks (`SleepIsBounded`), and a suspension by
rtcwake is one of Device's `Suspend` steps.

What is said of use and of disuse goes through both parts. `OneClock` shows that
the devices' histories tick when the manager's clock does and never else.
`SeenInv` carries what a scan saw of a device to the decision: a device that
it passed was flagged at that instant, so was busy for no longer than its
reaction time (`FlagReactsToUse`), and the lag of the check adds to that; an idle
timer that is older than this iteration was not restarted by the check before,
which then passed the device. At the suspension the idle timer is older than a
check, which gives `UseKeepsAwake`. A suspension by others breaks the
second half, as it ages the timer, hence `interrupted`.

`UnusedIsSuspendedInTime` puts `SuspendedInTime` and `FlagReactsToRest` together.
The wait that the first one bounds starts anew with every disturbance, so
`UnusedInv` bounds the unused time at each disturbance: at the end of a stay by
its length, as the client that began it answered in the same probe; at
a busy verdict by the settling time of the device whose flag the scan found unset;
after a suspension by the lag. From then on unused time and wait grow together,
and the device that is the witness may be another one after each check.

*Start-up.* `TableInv` says exactly what the table is after some blocks: the
disks among them, each with the partitions among them, but those of the first
block. A partition finds its disk because the kernel lists the disk before, and a
new disk is empty for the same reason (`NoChildYet`); it needs the assumption
that a partition has no "device" link of its own. `AsWanted` says that a disk
is monitored if and only if some entry read so far comes to it, and as the first
of them has it; `MeansIsValid` turns what `validateDisk` computes into what the
entry means. That all disks are monitored once each is the pigeonhole of the
library of finite sets. `ValidInv` gives the order-preserving map from the
addresses kept to those of the file, which grows by one with each valid address.

*What is not proved.* Liveness under fairness (`IdleMachineIsSuspended`,
`ClientKeepsAwake`, `BusyDeviceKeepsAwake`, `FlagFollowsUse`,
`UnusedMachineIsSuspended`, `UsedMachineStaysUp`, and the fairness that is part
of `Sspender`'s `ImplementsDevice`) is out of the prover's reach and is only
model-checked. Three of them have a bounded counterpart that is proved:
`SuspendedInTime` of `IdleMachineIsSuspended`, `FlagReactsToRest` (with
`FlagReactsToUse`) of `FlagFollowsUse`, `UnusedIsSuspendedInTime` of
`UnusedMachineIsSuspended`. They bound the ticks the machine is awake for; that
ticks and steps go on is the fairness. Every safety property that a passing run
checks is proved.

## What is not modelled

* The watch dog, which ends a device's thread when its Device is destroyed: the
  program never destroys one while it runs.
* The system clock set forward or back by somebody while the program runs:
  ages grow by ticks and by the time asleep, and by nothing else.
* Overflow of ints, and numbers too large for atoi, are undefined in C++.
  `Readings` takes them modulo 2^w, as the usual build makes them.
* A partition with a "device" link of its own, as the boot partitions of an eMMC
  have: `PartitionTableAssumption` excludes it.
* Averages and the current usage of a device (`setUsage`,
  `updateAverageUsage`, `getCpuLoad`, `getStorageLoad`): written by the threads,
  only ever printed. The sectors of a disk likewise.
* The guest columns of `/proc/stat`, which the kernel counts in user time, too:
  part and whole of the CPU are taken as the kernel's work and all jiffies.
* The scalars of the configuration (timers, thresholds, sleep mode): the parser
  takes them as they are, with defaults, so they are constants of the modules that
  use them, any int where no assumption says otherwise. The sleep mode is a word
  given to rtcwake.
* `parseMultiChoiceSupportingAll`, `getAllPartitions` (called by nobody),
  printing, logging, the helpers for strings, files and processes.
* Text that is no number in times and addresses, which both validators reject.
* The TOML library: the file is what it returns, or it throws (`ParseFailed`).

## Plan

In this order, the most important first:

1. *Done:* `Monitor`, `Manager`, `WakeTime`, `Device`, `Readings`, `Sspender`,
   `PartitionTable`, `ConfigParser`, with their histories, runs and proofs as
   above.
2. *Done:* proofs of `UseKeepsAwake` and of the bounded counterparts of the
   liveness properties.
3. The bounded counterpart of `ClientKeepsAwake` and `UsedMachineStaysUp`: after
   how long a client that stays, or a device that is used, keeps the machine up for
   good.
4. The four timers with every int the parser lets through, zero and negative,
   as constants of the `manager` run.
