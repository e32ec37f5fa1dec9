--------------------------- MODULE ReadingsProofs ---------------------------
(***************************************************************************)
(* For any number of devices and cores, thresholds, resolution and width   *)
(* of an int: the arithmetic of a sample does what Device says of it.      *)
(***************************************************************************)
EXTENDS ReadingsHistory, TLAPS

USE DEF DeviceConstants

\* The remainder of a number less than one modulus away from 0 .. m - 1.
LEMMA ModWithin == ASSUME NEW m \in Nat \ {0}, NEW n \in 0 .. (m - 1) PROVE n % m = n
OBVIOUS

LEMMA ModOver == ASSUME NEW m \in Nat \ {0}, NEW n \in m .. (2 * m - 1) PROVE n % m = n - m
OBVIOUS

LEMMA ModUnder == ASSUME NEW m \in Nat \ {0}, NEW n \in (-m) .. (-1) PROVE n % m = n + m
OBVIOUS

\* An int stays what it is, a number beside them is an int one modulus away.
LEMMA WrapWithin == ASSUME NEW n \in Ints, Half \in Nat \ {0} PROVE Wrap(n) = n
<1>1. n + Half \in 0 .. (2 * Half - 1) /\ 2 * Half \in Nat \ {0}
  BY DEF Ints
<1>2. (n + Half) % (2 * Half) = n + Half
  BY <1>1, ModWithin
<1> QED
  BY <1>2 DEF Wrap, Ints

LEMMA WrapOver ==
  ASSUME NEW n \in Half .. (3 * Half - 1), Half \in Nat \ {0} PROVE Wrap(n) = n - 2 * Half
<1>1. n + Half \in (2 * Half) .. (2 * (2 * Half) - 1) /\ 2 * Half \in Nat \ {0}
  OBVIOUS
<1>2. (n + Half) % (2 * Half) = (n + Half) - 2 * Half
  BY <1>1, ModOver
<1> QED
  BY <1>2 DEF Wrap

LEMMA WrapUnder ==
  ASSUME NEW n \in (-3 * Half) .. (-Half - 1), Half \in Nat \ {0} PROVE Wrap(n) = n + 2 * Half
<1>1. n + Half \in (-(2 * Half)) .. (-1) /\ 2 * Half \in Nat \ {0}
  OBVIOUS
<1>2. (n + Half) % (2 * Half) = (n + Half) + 2 * Half
  BY <1>1, ModUnder
<1> QED
  BY <1>2 DEF Wrap

\* The difference of two wrapped readings is the growth between them, wherever
\* the counter stood and even if it overflowed meanwhile.
LEMMA GrowthExact ==
  ASSUME NEW stood \in Ints, NEW amount \in 0 .. (Half - 1), Half \in Nat \ {0}
  PROVE  Wrap(Wrap(stood + amount) - Wrap(stood)) = amount
<1>1. amount \in Ints /\ stood \in Int /\ amount \in Int /\ Wrap(stood) = stood
  BY WrapWithin DEF Ints
<1>2. CASE stood + amount < Half
  <2>1. Wrap(stood + amount) = stood + amount
    BY <1>2, WrapWithin DEF Ints
  <2>2. Wrap(stood + amount) - Wrap(stood) = amount
    BY <2>1, <1>1
  <2> QED
    BY <2>2, WrapWithin, <1>1
<1>3. CASE stood + amount >= Half
  <2>1. Wrap(stood + amount) = stood + amount - 2 * Half
    BY <1>3, WrapOver DEF Ints
  <2>2. Wrap(stood + amount) - Wrap(stood) = amount - 2 * Half
    BY <2>1, <1>1
  <2>3. amount - 2 * Half \in (-3 * Half) .. (-Half - 1)
    BY <1>1
  <2>4. Wrap(amount - 2 * Half) = (amount - 2 * Half) + 2 * Half
    BY <2>3, WrapUnder
  <2> QED
    BY <2>2, <2>4, <1>1
<1> QED
  BY <1>2, <1>3, <1>1

\* The two readings of a sample give back what the counter grew by in it.
LEMMA SampleGrowth ==
  ASSUME NEW d \in Readable, NEW amount \in 0 .. (Half - 1)
  PROVE  Growth(d, amount) = {amount}
<1>1. Half \in Nat \ {0} /\ 0 \in Ints
  BY ReadingsAssumption, DeviceAssumption DEF Ints
<1>2. \A stood \in Ints : Wrap(Wrap(stood + amount) - Wrap(stood)) = amount
  BY <1>1, GrowthExact
<1>3. TwoReadings(d, amount) = {<<Wrap(stood), Wrap(stood + amount)>> : stood \in Ints}
  BY DEF TwoReadings
<1>4. \A reading \in TwoReadings(d, amount) : Wrap(reading[2] - reading[1]) = amount
  BY <1>2, <1>3
<1>5. TwoReadings(d, amount) # {}
  BY <1>1, <1>3
<1> QED
  BY <1>4, <1>5 DEF Growth

\* The counter that a device is judged by is one of its own.
LEMMA JudgedIs == \A d \in Devices : Judged(d) \in Counters /\ Judged(d)[1] = d
BY ReadingsAssumption DEF Judged, Counters
-----------------------------------------------------------------------------
\* How a tick adds to a sample that was above the threshold throughout, and to
\* one that was below it.
LEMMA BusyAdds ==
  ASSUME NEW sum \in Nat, NEW amount \in Nat, NEW bound \in Int, NEW ticks \in Nat,
         100 * amount > bound,
         100 * sum > bound * ticks \/ (ticks = 0 /\ sum = 0)
  PROVE  100 * (sum + amount) > bound * (ticks + 1)
<1>1. bound * (ticks + 1) = bound * ticks + bound
  OBVIOUS
<1> DEFINE product == bound * ticks
<1>2. product \in Int /\ (ticks = 0 => product = 0)
  OBVIOUS
<1> HIDE DEF product
<1>3. bound * (ticks + 1) = product + bound /\ (100 * sum > product \/ (product = 0 /\ sum = 0))
  BY <1>1, <1>2 DEF product
<1> QED
  BY <1>2, <1>3

LEMMA CalmAdds ==
  ASSUME NEW sum \in Nat, NEW amount \in Nat, NEW bound \in Int, NEW ticks \in Nat,
         NEW stretch \in Nat,
         100 * amount * stretch < bound,
         100 * sum * stretch < bound * ticks \/ (ticks = 0 /\ sum = 0)
  PROVE  100 * (sum + amount) * stretch < bound * (ticks + 1)
<1> DEFINE product == bound * ticks
           old     == 100 * sum * stretch
           new     == 100 * amount * stretch
<1>1. /\ bound * (ticks + 1) = product + bound
      /\ 100 * (sum + amount) * stretch = old + new
  OBVIOUS
<1>2. /\ product \in Int /\ old \in Int /\ new \in Int
      /\ (ticks = 0 => product = 0) /\ (sum = 0 => old = 0)
      /\ new < bound
  OBVIOUS
<1>3. old < product \/ (old = 0 /\ product = 0)
  BY <1>2
<1> HIDE DEF product, old, new
<1>4. old + new < product + bound
  BY <1>2, <1>3
<1> QED
  BY <1>1, <1>4
\* Products keep an order, and give it back.
LEMMA ProductOrder ==
  \A a, b \in Int : \A k \in Nat : /\ a <= b => a * k <= b * k
                                   /\ a * k < b * k => a < b
OBVIOUS

\* What a sample of busy, or of calm, ticks says of the load that comes of it:
\* the whole is as long as the sample, or as long as it should have been.
LEMMA BusySample ==
  ASSUME NEW sum \in Nat, NEW bound \in Int, NEW ticks \in Nat, NEW length \in Nat \ {0},
         length <= ticks, 100 * sum > bound * ticks
  PROVE  100 * sum > bound * length
<1>0. bound * length \in Int /\ bound * ticks \in Int
  OBVIOUS
<1>1. CASE bound >= 0
  <2>1. length * bound <= ticks * bound
    BY <1>1, ProductOrder
  <2>2. length * bound = bound * length /\ ticks * bound = bound * ticks
    OBVIOUS
  <2> QED
    BY <1>0, <2>1, <2>2
<1>2. CASE bound < 0
  <2>1. bound * length <= (-1) * length
    BY <1>2, ProductOrder
  <2> QED
    BY <1>0, <2>1
<1> QED
  BY <1>1, <1>2

LEMMA CalmSample ==
  ASSUME NEW sum \in Nat, NEW bound \in Int, NEW ticks \in Nat, NEW stretch \in Nat,
         ticks <= stretch, 100 * sum * stretch < bound * ticks
  PROVE  100 * sum < bound
<1>0. 100 * sum \in Nat /\ 100 * sum * stretch \in Nat /\ bound * ticks \in Int
  OBVIOUS
<1>1. bound > 0
  <2>1. SUFFICES ASSUME bound <= 0 PROVE FALSE
    OBVIOUS
  <2>2. bound * ticks <= 0 * ticks
    BY <2>1, ProductOrder
  <2> QED
    BY <1>0, <2>2
<1>2. bound * ticks <= bound * stretch
  <2>1. ticks * bound <= stretch * bound
    BY <1>1, ProductOrder
  <2> QED
    BY <2>1
<1>3. 100 * sum * stretch < bound * stretch
  <2>1. bound * stretch \in Int
    OBVIOUS
  <2> QED
    BY <1>0, <1>2, <2>1
<1> QED
  BY <1>0, <1>3, ProductOrder

-----------------------------------------------------------------------------
\* The verdicts of a sample are those that Device allows for its loads.
LEMMA VerdictsAllowed ==
  ASSUME IInvR, NEW d \in Readable, at[d] = "sample", spent[d] >= Window
  PROVE  Verdicts(d) \subseteq Outcomes(seen[d])
<1> DEFINE sum   == grown[Judged(d)]
           ticks == spent[d]
           whole == IF d \in Disks THEN Window * Grain ELSE ticks * Grain
<1> USE DeviceAssumption, ReadingsAssumption
<1>1. /\ d \in Devices /\ sum \in Nat /\ ticks \in Nat /\ Threshold[d] \in Int
      /\ Grain \in Nat \ {0} /\ Window \in Nat \ {0} /\ MaxLag \in Nat
  BY JudgedIs DEF IInvR, TypeOKR, TypeOK
<1>2. /\ ticks <= Window + MaxLag /\ sum <= ticks * Grain
      /\ seen[d] = {"busy"} => 100 * sum > Threshold[d] * Grain * ticks
      /\ seen[d] = {"calm"} =>
           \/ 100 * sum * Stretch(d) < Threshold[d] * Grain * ticks * Window
           \/ sum = 0 /\ Threshold[d] = 0
  BY <1>1 DEF IInvR, SampleInv
<1>3. sum \in 0 .. (Half - 1) /\ ticks * Grain \in 0 .. (Half - 1)
  <2>1. ticks * Grain <= (Window + MaxLag) * Grain
    BY <1>1, <1>2, ProductOrder
  <2>2. ticks * Grain \in Nat /\ (Window + MaxLag) * Grain \in Nat
    BY <1>1
  <2> QED
    BY <1>1, <1>2, <2>1, <2>2
<1>4. Growth(d, sum) = {sum} /\ Wholes(d) = {whole}
  BY <1>3, SampleGrowth DEF Wholes
<1>5. whole \in Nat \ {0}
  BY <1>1
<1>6. ASSUME seen[d] = {"busy"} PROVE 100 * sum > Threshold[d] * whole
  <2> DEFINE bound == Threshold[d] * Grain
  <2>1. bound \in Int /\ 100 * sum > bound * ticks
    BY <1>1, <1>2, <1>6
  <2> HIDE DEF sum, ticks, bound
  <2>2. 100 * sum > bound * Window
    BY <1>1, <2>1, BusySample DEF ticks
  <2>3. bound * ticks = Threshold[d] * (ticks * Grain) /\ bound * Window = Threshold[d] * (Window * Grain)
    BY <1>1 DEF bound
  <2> QED
    BY <2>1, <2>2, <2>3
<1>7. ASSUME seen[d] = {"calm"}
      PROVE  100 * sum < Threshold[d] * whole \/ (sum = 0 /\ Threshold[d] = 0)
  <2>1. SUFFICES ASSUME 100 * sum * Stretch(d) < Threshold[d] * Grain * ticks * Window
                 PROVE  100 * sum < Threshold[d] * whole
    BY <1>2, <1>7
  <2>2. CASE d \in Disks
    <3> DEFINE bound == Threshold[d] * Grain * Window
    <3>1. bound \in Int /\ bound * ticks = Threshold[d] * Grain * ticks * Window
      BY <1>1
    <3>2. 100 * sum * (Window + MaxLag) < bound * ticks
      BY <2>1, <2>2, <3>1 DEF Stretch
    <3> HIDE DEF sum, ticks, bound
    <3>3. 100 * sum < bound
      BY <1>1, <1>2, <3>1, <3>2, CalmSample
    <3>4. bound = Threshold[d] * (Window * Grain)
      BY <1>1 DEF bound
    <3> QED
      BY <2>2, <3>3, <3>4
  <2>3. CASE d \notin Disks
    <3> DEFINE bound == Threshold[d] * Grain * ticks
    <3>1. bound \in Int /\ bound = Threshold[d] * (ticks * Grain)
      BY <1>1
    <3>2. 100 * sum * Window < bound * Window
      BY <2>1, <2>3 DEF Stretch
    <3> HIDE DEF sum, ticks, bound
    <3>3. 100 * sum < bound
      BY <1>1, <3>1, <3>2, ProductOrder
    <3> QED
      BY <2>3, <3>1, <3>3
  <2> QED
    BY <2>2, <2>3
<1>8. Verdicts(d) = Compare(sum, whole, Threshold[d])
  BY <1>4 DEF Verdicts
<1> DEFINE excess == 100 * sum - Threshold[d] * whole
<1>9. Compare(sum, whole, Threshold[d]) = IF excess = 0 /\ sum # 0 THEN BOOLEAN ELSE {excess > 0}
  <2> HIDE DEF sum, whole
  <2>1. whole # 0 /\ whole > 0
    BY <1>5
  <2> QED
    BY <2>1, Zenon DEF Compare
<1>10. /\ excess \in Int
       /\ seen[d] = {"busy"} => excess > 0
       /\ seen[d] = {"calm"} => excess < 0 \/ (excess = 0 /\ sum = 0)
  <2> DEFINE product == Threshold[d] * whole
  <2>1. product \in Int /\ (Threshold[d] = 0 => product = 0)
    BY <1>1, <1>5
  <2> HIDE DEF product, sum, whole
  <2>2. excess = 100 * sum - product
    BY DEF product
  <2> QED
    BY <1>1, <1>6, <1>7, <2>1, <2>2 DEF product
<1> HIDE DEF excess, sum, whole
<1>11. CASE excess = 0 /\ sum # 0
  BY <1>8, <1>9, <1>10, <1>11 DEF Outcomes
<1>12. CASE ~(excess = 0 /\ sum # 0)
  <2>1. Verdicts(d) = {excess > 0}
    BY <1>8, <1>9, <1>12
  <2>2. seen[d] = {"busy"} => excess > 0
    BY <1>10
  <2>3. seen[d] = {"calm"} => ~(excess > 0)
    BY <1>10
  <2> DEFINE verdict == excess > 0
  <2>4. verdict \in BOOLEAN
    OBVIOUS
  <2>5. Verdicts(d) = {verdict} /\ (seen[d] = {"busy"} => verdict) /\ (seen[d] = {"calm"} => ~verdict)
    BY <2>1, <2>2, <2>3
  <2> HIDE DEF verdict
  <2>6. verdict \in Outcomes(seen[d])
    BY <2>4, <2>5 DEF Outcomes
  <2> QED
    BY <2>5, <2>6
<1> QED
  BY <1>11, <1>12
\* Any verdict is one, readable or not.
LEMMA VerdictsType == ASSUME IInvR, NEW d \in Devices PROVE Verdicts(d) \subseteq BOOLEAN
<1> USE DeviceAssumption, ReadingsAssumption
<1>1. \A n \in Int : Wrap(n) \in Int
  <2>1. 2 * Half \in Nat \ {0}
    OBVIOUS
  <2>2. \A n \in Int : (n + Half) % (2 * Half) \in Int
    BY <2>1
  <2> QED
    BY <2>2 DEF Wrap
<1>2. \A amount \in Int : Growth(d, amount) \subseteq Int
  <2> SUFFICES ASSUME NEW amount \in Int, NEW reading \in TwoReadings(d, amount)
               PROVE  Wrap(reading[2] - reading[1]) \in Int
    BY DEF Growth
  <2>1. Ints \subseteq Int
    BY DEF Ints
  <2>2. CASE d \in Readable
    <3>1. PICK stood \in Ints : reading = <<Wrap(stood), Wrap(stood + amount)>>
      BY <2>2 DEF TwoReadings
    <3>2. Wrap(stood) \in Int /\ Wrap(stood + amount) \in Int
      BY <1>1, <2>1
    <3>3. Wrap(stood + amount) - Wrap(stood) \in Int
      BY <3>2
    <3> QED
      BY <1>1, <3>1, <3>3
  <2>3. CASE d \notin Readable
    <3>1. PICK m, n \in Ints : reading = <<m, n>>
      BY <2>3 DEF TwoReadings
    <3>2. n - m \in Int
      BY <2>1
    <3> QED
      BY <1>1, <3>1, <3>2
  <2> QED
    BY <2>2, <2>3
<1>3. grown[Judged(d)] \in Int /\ spent[d] * Grain \in Int /\ Window * Grain \in Int
  BY JudgedIs DEF IInvR, TypeOKR, TypeOK
<1>4. Growth(d, grown[Judged(d)]) \subseteq Int /\ Wholes(d) \subseteq Int /\ Threshold[d] \in Int
  BY <1>2, <1>3 DEF Wholes
<1>5. ASSUME NEW part \in Int, NEW whole \in Int PROVE Compare(part, whole, Threshold[d]) \subseteq BOOLEAN
  <2>1. CASE whole = 0
    BY <2>1 DEF Compare
  <2>2. CASE whole # 0
    <3> DEFINE excess == IF whole > 0 THEN 100 * part - Threshold[d] * whole
                                      ELSE Threshold[d] * whole - 100 * part
    <3>1. excess \in Int
      BY <1>4
    <3>2. Compare(part, whole, Threshold[d]) = IF excess = 0 /\ part # 0 THEN BOOLEAN ELSE {excess > 0}
      BY <2>2, Zenon DEF Compare
    <3> DEFINE verdict == excess > 0
    <3>3. verdict \in BOOLEAN
      BY <3>1
    <3> HIDE DEF excess, verdict
    <3>4. Compare(part, whole, Threshold[d]) \in {BOOLEAN, {verdict}}
      BY <3>2, Zenon DEF verdict
    <3> QED
      BY <3>3, <3>4
  <2> QED
    BY <2>1, <2>2
<1> QED
  BY <1>4, <1>5 DEF Verdicts

-----------------------------------------------------------------------------
\* A sample is judged as Device says.
LEMMA LoadRefines == IInvR => \A d \in Devices : CalculateLoad(d) => CalculateUsage(d)
<1> SUFFICES ASSUME IInvR, NEW d \in Devices, CalculateLoad(d) PROVE CalculateUsage(d)
  OBVIOUS
<1>1. \A outcome \in Verdicts(d) :
        outcome \in (IF d \in Readable THEN Outcomes(seen[d]) ELSE BOOLEAN)
  <2>1. CASE d \in Readable
    BY <2>1, VerdictsAllowed DEF CalculateLoad
  <2>2. CASE d \notin Readable
    BY <2>2, VerdictsType
  <2> QED
    BY <2>1, <2>2
<1> QED
  BY <1>1 DEF CalculateLoad, CalculateUsage

\* Every step of the readings is a step of Device.
LEMMA StepRefines == IInvR /\ [NextR]_varsR => [Next]_vars
<1> SUFFICES ASSUME IInvR, [NextR]_varsR PROVE [Next]_vars
  OBVIOUS
<1> USE DeviceAssumption, ReadingsAssumption
<1>1. CASE Count
  BY <1>1 DEF Count, Next
<1>2. CASE Suspension
  BY <1>2 DEF Suspension, Next
<1>3. ASSUME NEW d \in Devices, ReadingThread(d) PROVE Next
  <2>1. CASE CalculateLoad(d)
    BY <2>1, LoadRefines DEF Next, Thread
  <2>2. CASE Judge(d) \/ SpunDown(d)
    BY <2>2 DEF Next, Thread
  <2> QED
    BY <1>3, <2>1, <2>2 DEF ReadingThread
<1>4. CASE UNCHANGED varsR
  BY <1>4 DEF varsR
<1> QED
  BY <1>1, <1>2, <1>3, <1>4 DEF NextR

\* Every step keeps the types.
LEMMA TypeStep == IInvR /\ [NextR]_varsR => TypeOKR'
<1> SUFFICES ASSUME IInvR, [NextR]_varsR PROVE TypeOKR'
  OBVIOUS
<1> USE DeviceAssumption, ReadingsAssumption DEF IInvR, TypeOKR, TypeOK, threadVars
<1>1. CASE Count
  <2>1. work' \in [Counters -> 0 .. Grain] /\ grown' \in [Counters -> Nat]
    BY <1>1 DEF Count
  <2>2. \A d \in Devices : Aged(startAge[d], 1) \in 0 .. MaxAge
    BY DEF Aged
  <2>3. load' \in [Devices -> Loads] /\ spent' \in [Devices -> Nat]
        /\ seen' \in [Devices -> SUBSET Loads] /\ startAge' \in [Devices -> 0 .. MaxAge]
    BY <1>1, <2>2 DEF Count, Tick
  <2> QED
    BY <1>1, <2>1, <2>3 DEF Count, Tick
<1>2. CASE Suspension
  <2>1. CASE Suspend
    BY <1>2, <2>1 DEF Suspension, Suspend
  <2>2. CASE Resume
    <3>1. PICK ticks \in 0 .. MaxAge : ResumeAfter(ticks)
      BY <2>2 DEF Resume
    <3>2. \A d \in Devices : Aged(startAge[d], ticks) \in 0 .. MaxAge
      BY DEF Aged
    <3>3. startAge' \in [Devices -> 0 .. MaxAge]
      BY <3>1, <3>2 DEF ResumeAfter
    <3> QED
      BY <1>2, <3>1, <3>3 DEF Suspension, ResumeAfter
  <2> QED
    BY <1>2, <2>1, <2>2 DEF Suspension
<1>3. ASSUME NEW d \in Devices, ReadingThread(d) PROVE TypeOKR'
  <2> USE DEF GoTo, StartSample, SetIdleState
  <2>1. CASE CalculateLoad(d)
    <3>1. above' \in [Devices -> BOOLEAN]
      BY <2>1, VerdictsType DEF CalculateLoad
    <3>2. grown' \in [Counters -> Nat]
      BY <2>1 DEF CalculateLoad
    <3> QED
      BY <2>1, <3>1, <3>2 DEF CalculateLoad
  <2>2. CASE FoundBusy(d) /\ UNCHANGED <<work, grown>>
    BY <2>2 DEF FoundBusy
  <2>3. CASE (FoundCalm(d) \/ SpunDown(d)) /\ UNCHANGED <<work, grown>>
    BY <2>3 DEF FoundCalm, SpunDown
  <2>4. CASE FoundIdle(d) /\ UNCHANGED <<work, grown>>
    BY <2>4 DEF FoundIdle
  <2> QED
    BY <1>3, <2>1, <2>2, <2>3, <2>4 DEF ReadingThread, Judge
<1>4. CASE UNCHANGED varsR
  BY <1>4 DEF varsR, vars
<1> QED
  BY <1>1, <1>2, <1>3, <1>4 DEF NextR
\* The threads start within the invariant.
LEMMA InitOK == InitR => IInvR
<1> SUFFICES ASSUME InitR PROVE IInvR
  OBVIOUS
<1> USE DeviceAssumption, ReadingsAssumption DEF InitR, Init
<1>1. TypeOKR
  <2>1. 0 \in 0 .. MaxAge /\ 0 \in Nat
    OBVIOUS
  <2> QED
    BY <2>1 DEF TypeOKR, TypeOK
<1>2. SampleInv
  BY JudgedIs DEF SampleInv, Loading
<1> QED
  BY <1>1, <1>2 DEF IInvR

\* Every step keeps the growth of a counter and the loads of its sample in step.
LEMMA SampleStep == IInvR /\ [NextR]_varsR => SampleInv'
<1> SUFFICES ASSUME IInvR, [NextR]_varsR PROVE SampleInv'
  OBVIOUS
<1> USE DeviceAssumption, ReadingsAssumption DEF IInvR
<1>1. CASE Count
  <2> SUFFICES ASSUME NEW d \in Devices
      PROVE  /\ load'[d] = LoadOf(d, work'[Judged(d)])
             /\ at'[d] # "sample" \/ spent'[d] = 0 => grown'[Judged(d)] = 0
             /\ at'[d] = "sample" =>
                  /\ spent'[d] <= Window + MaxLag
                  /\ grown'[Judged(d)] <= spent'[d] * Grain
                  /\ seen'[d] = {} <=> spent'[d] = 0
                  /\ seen'[d] = {"busy"} => 100 * grown'[Judged(d)] > Threshold[d] * Grain * spent'[d]
                  /\ seen'[d] = {"calm"} =>
                       \/ 100 * grown'[Judged(d)] * Stretch(d) < Threshold[d] * Grain * spent'[d] * Window
                       \/ grown'[Judged(d)] = 0 /\ Threshold[d] = 0
    BY DEF SampleInv, LoadOf, IsBusy, IsCalm, Stretch, Judged
  <2> DEFINE c      == Judged(d)
             sum    == grown[c]
             amount == work[c]
             ticks  == spent[d]
             bound  == Threshold[d] * Grain
  <2>1. /\ c \in Counters /\ c[1] = d
        /\ sum \in Nat /\ amount \in 0 .. Grain /\ ticks \in Nat /\ bound \in Int
        /\ Threshold[d] \in Int /\ Stretch(d) \in Nat /\ bound * Window \in Int
    BY JudgedIs DEF TypeOKR, TypeOK, Stretch
  <2>2. /\ at' = at /\ spent'[d] = ticks + 1 /\ ticks < Patience(at[d])
        /\ load'[d] = LoadOf(d, work'[c])
        /\ at[d] = "sample" => seen'[d] = seen[d] \union {load[d]} /\ grown'[c] = sum + amount
        /\ at[d] # "sample" => grown'[c] = 0
    BY <1>1, <2>1 DEF Count, Tick, Loading
  <2>3. CASE at[d] # "sample"
    BY <2>1, <2>2, <2>3
  <2>4. CASE at[d] = "sample"
    <3>1. /\ ticks + 1 <= Window + MaxLag
          /\ spent'[d] # 0 /\ seen'[d] # {}
      <4>1. Patience("sample") = Window + MaxLag
        BY DEF Patience
      <4>2. ticks + 1 <= Window + MaxLag /\ spent'[d] # 0
        BY <2>1, <2>2, <2>4, <4>1
      <4>3. seen'[d] # {}
        BY <2>2, <2>4
      <4> QED
        BY <4>2, <4>3
    <3>2. /\ sum <= ticks * Grain
          /\ seen[d] = {} <=> ticks = 0
          /\ ticks = 0 => sum = 0
          /\ load[d] = LoadOf(d, amount)
          /\ seen[d] = {"busy"} => 100 * sum > Threshold[d] * Grain * ticks
          /\ seen[d] = {"calm"} =>
               \/ 100 * sum * Stretch(d) < Threshold[d] * Grain * ticks * Window
               \/ sum = 0 /\ Threshold[d] = 0
      BY <2>4 DEF SampleInv
    <3>3. sum + amount <= (ticks + 1) * Grain
      <4>1. ticks * Grain \in Nat /\ (ticks + 1) * Grain = ticks * Grain + Grain
        BY <2>1
      <4> QED
        BY <2>1, <3>2, <4>1
    <3>4. ASSUME seen'[d] = {"busy"}
          PROVE  100 * (sum + amount) > Threshold[d] * Grain * (ticks + 1)
      <4>1. load[d] = "busy" /\ (seen[d] = {} \/ seen[d] = {"busy"})
        BY <2>2, <2>4, <3>4
      <4>2. 100 * amount > bound
        BY <3>2, <4>1 DEF LoadOf, IsBusy
      <4>3. 100 * sum > bound * ticks \/ (ticks = 0 /\ sum = 0)
        BY <3>2, <4>1
      <4> HIDE DEF sum, amount, ticks, bound
      <4>4. 100 * (sum + amount) > bound * (ticks + 1)
        BY <2>1, <4>2, <4>3, BusyAdds
      <4> QED
        BY <4>4 DEF bound
    <3>5. ASSUME seen'[d] = {"calm"}
          PROVE  \/ 100 * (sum + amount) * Stretch(d) < Threshold[d] * Grain * (ticks + 1) * Window
                 \/ sum + amount = 0 /\ Threshold[d] = 0
      <4>1. load[d] = "calm" /\ (seen[d] = {} \/ seen[d] = {"calm"})
        BY <2>2, <2>4, <3>5
      <4>2. 100 * amount * Stretch(d) < bound * Window \/ (amount = 0 /\ Threshold[d] = 0)
        BY <3>2, <4>1 DEF LoadOf, IsCalm
      <4>3. \/ 100 * sum * Stretch(d) < bound * ticks * Window
            \/ sum = 0 /\ (ticks = 0 \/ Threshold[d] = 0)
        BY <3>2, <4>1
      <4>4. CASE Threshold[d] = 0
        <5>1. bound * Window = 0 /\ bound * ticks * Window = 0
          BY <2>1, <4>4
        <5>2. 100 * amount * Stretch(d) \in Nat /\ 100 * sum * Stretch(d) \in Nat
          BY <2>1
        <5>3. amount = 0 /\ sum = 0
          BY <4>2, <4>3, <5>1, <5>2
        <5> QED
          BY <4>4, <5>3
      <4>5. CASE Threshold[d] # 0
        <5> DEFINE limit == bound * Window
        <5>1. bound * ticks * Window = limit * ticks
          BY <2>1
        <5>2. /\ 100 * amount * Stretch(d) < limit
              /\ 100 * sum * Stretch(d) < limit * ticks \/ (ticks = 0 /\ sum = 0)
          BY <4>2, <4>3, <4>5, <5>1
        <5> HIDE DEF sum, amount, ticks, limit
        <5>3. 100 * (sum + amount) * Stretch(d) < limit * (ticks + 1)
          BY <2>1, <5>2, CalmAdds DEF limit
        <5>4. limit * (ticks + 1) = Threshold[d] * Grain * (ticks + 1) * Window
          BY <2>1 DEF limit
        <5> QED
          BY <5>3, <5>4
      <4> QED
        BY <4>4, <4>5
    <3> QED
      BY <2>1, <2>2, <2>4, <3>1, <3>3, <3>4, <3>5
  <2> QED
    BY <2>3, <2>4
<1>2. CASE Suspension
  BY <1>2 DEF Suspension, Suspend, Resume, ResumeAfter, threadVars, SampleInv, LoadOf, IsBusy, IsCalm,
              Stretch, Judged
<1>3. ASSUME NEW e \in Devices, ReadingThread(e) PROVE SampleInv'
  <2> SUFFICES ASSUME NEW d \in Devices
      PROVE  /\ load'[d] = LoadOf(d, work'[Judged(d)])
             /\ at'[d] # "sample" \/ spent'[d] = 0 => grown'[Judged(d)] = 0
             /\ at'[d] = "sample" =>
                  /\ spent'[d] <= Window + MaxLag
                  /\ grown'[Judged(d)] <= spent'[d] * Grain
                  /\ seen'[d] = {} <=> spent'[d] = 0
                  /\ seen'[d] = {"busy"} => 100 * grown'[Judged(d)] > Threshold[d] * Grain * spent'[d]
                  /\ seen'[d] = {"calm"} =>
                       \/ 100 * grown'[Judged(d)] * Stretch(d) < Threshold[d] * Grain * spent'[d] * Window
                       \/ grown'[Judged(d)] = 0 /\ Threshold[d] = 0
    BY DEF SampleInv, LoadOf, IsBusy, IsCalm, Stretch, Judged
  <2>1. Judged(d) \in Counters /\ Judged(d)[1] = d
    BY JudgedIs
  <2>2. load' = load /\ work' = work
    BY <1>3 DEF ReadingThread, CalculateLoad, Judge, FoundBusy, FoundCalm, FoundIdle, SpunDown
  <2>3. CASE d # e
    <3>1. /\ at'[d] = at[d] /\ spent'[d] = spent[d] /\ seen'[d] = seen[d]
          /\ grown'[Judged(d)] = grown[Judged(d)]
      <4> USE DEF TypeOKR, TypeOK, GoTo, StartSample
      <4>1. CASE CalculateLoad(e)
        BY <2>1, <2>3, <4>1 DEF CalculateLoad
      <4>2. CASE (FoundBusy(e) \/ FoundCalm(e) \/ SpunDown(e)) /\ UNCHANGED grown
        BY <2>3, <4>2 DEF FoundBusy, FoundCalm, SpunDown
      <4>3. CASE FoundIdle(e) /\ UNCHANGED grown
        BY <2>3, <4>3 DEF FoundIdle
      <4> QED
        BY <1>3, <4>1, <4>2, <4>3 DEF ReadingThread, Judge
    <3> QED
      BY <2>2, <3>1 DEF SampleInv
  <2>4. CASE d = e /\ CalculateLoad(d)
    <3>1. at'[d] = "judge" /\ grown'[Judged(d)] = 0
      BY <2>1, <2>4 DEF CalculateLoad, GoTo, TypeOKR, TypeOK
    <3> QED
      BY <2>2, <3>1 DEF SampleInv
  <2>5. CASE d = e /\ (Judge(d) \/ SpunDown(d)) /\ UNCHANGED grown
    <3>1. grown'[Judged(d)] = 0
      BY <2>5 DEF SampleInv, Judge, FoundBusy, FoundCalm, FoundIdle, SpunDown
    <3>2. at'[d] = "sample" => spent'[d] = 0 /\ seen'[d] = {}
      BY <2>5 DEF Judge, FoundBusy, FoundCalm, FoundIdle, SpunDown, GoTo, StartSample, TypeOKR, TypeOK
    <3>3. 0 <= Window + MaxLag /\ 0 <= 0 * Grain /\ load[d] = LoadOf(d, work[Judged(d)])
      BY DEF SampleInv
    <3> QED
      BY <2>2, <3>1, <3>2, <3>3
  <2> QED
    BY <1>3, <2>3, <2>4, <2>5 DEF ReadingThread
<1>4. CASE UNCHANGED varsR
  BY <1>4 DEF varsR, vars, threadVars, SampleInv, LoadOf, IsBusy, IsCalm, Stretch, Judged
<1> QED
  BY <1>1, <1>2, <1>3, <1>4 DEF NextR
-----------------------------------------------------------------------------
\* The growth of a counter in a sample agrees with the loads of its ticks, for
\* all thresholds, any resolution and any number of cores (Cpu::calculateUsage,
\* Disk::calculateUsage).
THEOREM Invariance == SpecR => []IInvR
<1>1. IInvR /\ [NextR]_varsR => IInvR'
  BY TypeStep, SampleStep DEF IInvR
<1> QED
  BY InitOK, <1>1, PTL DEF SpecR

\* Device's abstraction of the statistics to three loads is right: whatever the
\* counters stood at and however wide an int is, every behaviour of the threads
\* with their arithmetic is one of Device (Cpu::calculateUsage,
\* Disk::calculateUsage).
THEOREM DeviceRefinement == SpecR => ImplementsDevice
<1>1. InitR => Init
  BY DEF InitR
<1> QED
  BY <1>1, StepRefines, Invariance, PTL DEF SpecR, ImplementsDevice, Steps

\* The use and rest of the threads with their numbers are recorded as those of
\* Device are: what DeviceHistory says of the idle flags (FlagReactsToUse,
\* FlagReactsToRest, FlagMeansCalm) holds of Device::monitorDeviceUsage with the
\* arithmetic of Cpu::calculateUsage and Disk::calculateUsage.
THEOREM HistoryRefinement == SpecRH => SpecH
<1> USE DEF historyVars, useVars, calmVars
<1>1. InitRH => InitR /\ InitH
  BY DEF InitRH
<1>2. [NextRH]_varsRH => [NextR]_varsR
  BY DEF NextRH, varsRH, NextR, Suspension, ReadingThread, varsR
<1>3. IInvR /\ [NextRH]_varsRH => [NextH]_varsH
  <2> SUFFICES ASSUME IInvR, [NextRH]_varsRH PROVE [NextH]_varsH
    OBVIOUS
  <2>1. CASE Count /\ RecordTick
    BY <2>1 DEF Count, NextH
  <2>2. CASE Suspend /\ RecordSuspend
    BY <2>2 DEF NextH
  <2>3. CASE Resume /\ UNCHANGED historyVars
    BY <2>3 DEF NextH
  <2>4. ASSUME NEW d \in Devices, ReadingThread(d), RecordThread(d) PROVE NextH
    <3>1. Thread(d)
      BY <2>4, LoadRefines DEF ReadingThread, Thread
    <3> QED
      BY <2>4, <3>1 DEF NextH
  <2>5. CASE UNCHANGED varsRH
    BY <2>5 DEF varsRH, varsR, varsH
  <2>6. CASE NextRH
    BY <2>1, <2>2, <2>3, <2>4, <2>6, Zenon DEF NextRH
  <2> QED
    BY <2>5, <2>6
<1>4. IInvR /\ [NextR]_varsR => IInvR'
  BY TypeStep, SampleStep DEF IInvR
<1> QED
  BY InitOK, <1>1, <1>2, <1>3, <1>4, PTL DEF SpecRH, SpecH

=============================================================================
