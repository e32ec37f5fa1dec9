------------------------------ MODULE Readings ------------------------------
(***************************************************************************)
(* Device with the numbers it abstracts from: the readings of the kernel's *)
(* statistics at both ends of a sample, the sums and differences of ints   *)
(* that Cpu::calculateUsage and Disk::calculateUsage make of them, and the *)
(* comparison of the load with idle_load_threshold.                        *)
(*                                                                         *)
(* The kernel counts what a disk, or a core, has worked, at most Grain     *)
(* units a tick.  Only what a counter grew by since the first reading is   *)
(* kept: it may have stood at any number then.                             *)
(***************************************************************************)
EXTENDS Device
LOCAL INSTANCE FiniteSetsExt

CONSTANTS
  Disks,       \* the devices that are disks; the others are CPUs
  Cores,       \* lines "cpu0", "cpu1", ... of /proc/stat
  Threshold,   \* idle_load_threshold of each device, percent, any int
  Grain,       \* units that a tick has for a counter
  Half         \* 2^(w-1), if an int has w bits

ASSUME ReadingsAssumption ==
  /\ Disks \subseteq Devices
  /\ Cores \in Nat \ {0}
  /\ Threshold \in [Devices -> Int]
  /\ Grain \in Nat \ {0}
  /\ Half \in Nat
  \* a sample is too short for a counter to grow by half the range of an int
  /\ Half > (Window + MaxLag) * Grain

VARIABLES
  work,     \* what each counter grows by in the current tick
  grown     \* what it grew by since the first reading of the sample

varsR == <<vars, work, grown>>

\* A disk counts the time it is active, a CPU the work jiffies of each core.
Counters == {c \in Devices \X (1 .. Cores) : c[1] \in Disks => c[2] = 1}

\* sumCpuJiffies starts its sums over at every line that contains "cpu": the
\* last one, that of the last core, is the one that remains.
Judged(d) == <<d, IF d \in Disks THEN 1 ELSE Cores>>

-----------------------------------------------------------------------------
(* The work of a tick.                                                     *)

\* A disk's active time is divided by Window, however long the sample was:
\* the work of its ticks counts for up to this many ticks of Window.
Stretch(d) == IF d \in Disks THEN Window + MaxLag ELSE Window

IsBusy(d, amount) == 100 * amount > Threshold[d] * Grain
IsCalm(d, amount) ==
  \/ 100 * amount * Stretch(d) < Threshold[d] * Grain * Window
  \/ amount = 0 /\ Threshold[d] = 0

LoadOf(d, amount) ==
  CASE IsBusy(d, amount) -> "busy"
    [] IsCalm(d, amount) -> "calm"
    [] OTHER             -> "edge"

\* The loads of Device are those of the counters that are judged.
Loading(amounts) == [d \in Devices |-> LoadOf(d, amounts[Judged(d)])]

InitR ==
  /\ work \in [Counters -> 0 .. Grain]
  /\ load = Loading(work)
  /\ grown = [c \in Counters |-> 0]
  /\ Init

\* A slip: the first reading is one of long ago.
CountOver ==
  /\ work' \in [Counters -> 0 .. Grain]
  /\ load' = Loading(work')
  /\ grown' = [c \in Counters |-> grown[c] + work[c]]
  /\ Tick

\* The counters go on all the time, a thread sees what they do in its sample.
Count ==
  /\ work' \in [Counters -> 0 .. Grain]
  /\ load' = Loading(work')
  /\ grown' = [c \in Counters |-> IF at[c[1]] = "sample" THEN grown[c] + work[c] ELSE 0]
  /\ Tick

-----------------------------------------------------------------------------
(* The arithmetic of a sample.                                             *)

Ints == -Half .. (Half - 1)

\* atoi, sums and differences of ints.  Overflow is undefined in C++; this is
\* what the usual build makes of it, modulo 2^w.
Wrap(n) == ((n + Half) % (2 * Half)) - Half

\* The two readings of a counter that grew by this amount; of variables that
\* were never written if the statistics have another form.
TwoReadings(d, amount) ==
  IF d \in Readable THEN {<<Wrap(stood), Wrap(stood + amount)>> : stood \in Ints}
  ELSE Ints \X Ints

Growth(d, amount) == {Wrap(reading[2] - reading[1]) : reading \in TwoReadings(d, amount)}

\* A slip: the work of the CPU is divided by the length of the sample, too.
WholesNominal(d) == {Window * Grain}

\* What the growth is divided by: MONITORING_THREAD_FREQUENCY, or the growth
\* of the sum of all jiffies.
Wholes(d) == IF d \in Disks THEN {Window * Grain} ELSE Growth(d, spent[d] * Grain)

\* "part / whole * 100 > threshold" of doubles: 0 / 0 compares as false, and
\* a quotient that is exactly the threshold may be rounded to above it.
Compare(part, whole, threshold) ==
  LET excess == IF whole > 0 THEN 100 * part - threshold * whole
                             ELSE threshold * whole - 100 * part
  IN  IF whole = 0 THEN {part > 0}
      ELSE IF excess = 0 /\ part # 0 THEN BOOLEAN
      ELSE {excess > 0}

Verdicts(d) ==
  UNION {Compare(part, whole, Threshold[d]) :
           part \in Growth(d, grown[Judged(d)]), whole \in Wholes(d)}

\* The second reading.
CalculateLoad(d) ==
  /\ ~asleep
  /\ at[d] = "sample"
  /\ spent[d] >= Window
  /\ \E outcome \in Verdicts(d) : above' = [above EXCEPT ![d] = outcome]
  /\ GoTo(d, "judge")
  /\ grown' = [c \in Counters |-> IF c[1] = d THEN 0 ELSE grown[c]]
  /\ UNCHANGED <<idleState, load, seen, startAge, asleep, work>>

ReadingThread(d) ==
  \/ CalculateLoad(d)
  \/ (Judge(d) \/ SpunDown(d)) /\ UNCHANGED <<work, grown>>

Suspension == (Suspend \/ Resume) /\ UNCHANGED <<work, grown>>

NextR == Count \/ Suspension \/ \E d \in Devices : ReadingThread(d)

SpecR == InitR /\ [][NextR]_varsR

-----------------------------------------------------------------------------
TypeOKR ==
  /\ TypeOK
  /\ work \in [Counters -> 0 .. Grain]
  /\ grown \in [Counters -> Nat]

\* What the loads of a sample say of the growth of its counter.
SampleInv == \A d \in Devices :
  LET sum     == grown[Judged(d)]
      allowed == Threshold[d] * Grain * spent[d]
  IN  /\ load[d] = LoadOf(d, work[Judged(d)])
      /\ at[d] # "sample" \/ spent[d] = 0 => sum = 0
      /\ at[d] = "sample" =>
           /\ spent[d] <= Window + MaxLag
           /\ sum <= spent[d] * Grain
           /\ seen[d] = {} <=> spent[d] = 0
           /\ seen[d] = {"busy"} => 100 * sum > allowed
           /\ seen[d] = {"calm"} =>
                \/ 100 * sum * Stretch(d) < allowed * Window
                \/ sum = 0 /\ Threshold[d] = 0

(* Whatever the counters stood at, and although ints overflow, quotients   *)
(* are rounded and a disk's time is divided by the length that its sample  *)
(* should have had, a sample comes to what Device lets the loads of its    *)
(* ticks come to (Cpu::calculateUsage, Disk::calculateUsage).              *)
ImplementsDevice == Steps

(* The inductive invariant behind it: the growth of a counter in a sample  *)
(* agrees with the loads of the ticks of that sample, and of no tick       *)
(* before (Cpu::calculateUsage, Disk::calculateUsage).                     *)
IInvR == TypeOKR /\ SampleInv

\* What all cores together have worked in the sample.
MachineWork(d) == MapThenSumSet(LAMBDA core : grown[<<d, core>>], 1 .. Cores)

(* The load that a CPU is judged by is the machine's: "get the percentage  *)
(* of work over total" of the line "cpu" that Cpu::sumCpuJiffies quotes.   *)
LoadIsTheMachines ==
  [][\A d \in Readable \ Disks :
       CalculateLoad(d) /\ 100 * MachineWork(d) > Threshold[d] * Cores * Grain * spent[d]
         => above'[d]]_varsR

=============================================================================
