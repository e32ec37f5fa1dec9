---------------------------- MODULE DeviceProofs ----------------------------
(***************************************************************************)
(* For any number of devices, thresholds and delays: what a device's idle  *)
(* flag stands for, how soon it is set, and how soon it is lost.           *)
(***************************************************************************)
EXTENDS DeviceHistory, TLAPS

USE DEF DeviceConstants

\* What is said of readable devices is said of the recorded ones.
LEMMA RecordedAre == Recorded \subseteq Readable
BY HistoryAssumption

\* Whole minutes reach a threshold exactly when the ticks do.
LEMMA WholeMinutes ==
  ASSUME NEW age \in Nat, NEW minutes \in Int
  PROVE  Minutes(age) >= minutes <=> age >= minutes * Minute
BY DeviceAssumption DEF Minutes

\* An age stays an age, however far it moves.
LEMMA AgedType == \A age, ticks \in Nat : Aged(age, ticks) \in 0 .. MaxAge
BY DeviceAssumption DEF Aged

\* The reaction time and its parts are natural numbers.
LEMMA BoundsType ==
  /\ Sample \in Nat \ {0}
  /\ \A d \in Devices : Blind(d) \in Nat /\ Unnoticed(d) \in Nat /\ ReactionTime(d) \in Nat
BY DeviceAssumption DEF Sample, Blind, Unnoticed, ReactionTime

\* So are the parts of the settling time; a timer that has not reached the
\* threshold has not run for longer.
LEMMA RestBoundsType ==
  /\ Overdue \in Nat
  /\ \A d \in Devices :
       /\ CalmAtMost(d) \in Nat
       /\ \A age \in Nat : Minutes(age) < IdleTime[d] => age <= CalmAtMost(d) /\ age < MaxAge
<1>1. Overdue \in Nat
  BY BoundsType, DeviceAssumption DEF Overdue
<1>2. ASSUME NEW d \in Devices
      PROVE  /\ CalmAtMost(d) \in Nat
             /\ \A age \in Nat : Minutes(age) < IdleTime[d] => age <= CalmAtMost(d) /\ age < MaxAge
  <2> DEFINE ticks == IdleTime[d] * Minute
  <2>1. IdleTime[d] \in Int /\ Minute \in Nat \ {0} /\ ticks \in Int /\ MaxAge >= ticks /\ MaxAge \in Nat
    BY DeviceAssumption
  <2>2. IdleTime[d] > 0 => ticks >= 1
    BY <2>1
  <2>3. \A age \in Nat : Minutes(age) < IdleTime[d] <=> age < ticks
    <3> SUFFICES ASSUME NEW age \in Nat PROVE Minutes(age) < IdleTime[d] <=> age < ticks
      OBVIOUS
    <3>1. Minutes(age) >= IdleTime[d] <=> age >= ticks
      BY <2>1, WholeMinutes
    <3>2. Minutes(age) \in Int
      BY DeviceAssumption DEF Minutes
    <3> HIDE DEF ticks
    <3> QED
      BY <2>1, <3>1, <3>2
  <2>4. IdleTime[d] <= 0 => ticks <= 0
    BY <2>1
  <2>5. CalmAtMost(d) = IF IdleTime[d] > 0 THEN ticks - 1 ELSE 0
    BY DEF CalmAtMost
  <2> HIDE DEF ticks
  <2> QED
    BY <2>1, <2>2, <2>3, <2>4, <2>5
<1> QED
  BY <1>1, <1>2

\* The patience of each place.
LEMMA PatienceIs ==
  /\ Patience("sample") = Sample
  /\ Patience("judge") = MaxLag
  /\ Patience("spinDown") = MaxSpin
BY DEF Patience, Sample

-----------------------------------------------------------------------------
\* The threads start within the invariant.
LEMMA InitOK == InitH => IInv
<1> SUFFICES ASSUME InitH PROVE IInv
  OBVIOUS
<1> USE DeviceAssumption DEF InitH, Init
<1>1. TypeOKH
  <2>1. 0 \in 0 .. MaxAge
    OBVIOUS
  <2> QED
    BY <2>1 DEF TypeOKH, TypeOK
<1>2. PaceInv
  BY DEF PaceInv, Patience
<1>3. CalmInv
  BY DEF CalmInv, FlagMeansCalm
<1>4. UseInv /\ RestInv
  <2>1. \A d \in Recorded : d \in Devices
    BY DeviceAssumption, RecordedAre
  <2> QED
    BY <2>1, BoundsType, RestBoundsType DEF UseInv, RestInv
<1> QED
  BY <1>1, <1>2, <1>3, <1>4 DEF IInv

\* Every step keeps the state and the history in their types.
LEMMA TypeStep == TypeOKH /\ [NextH]_varsH => TypeOKH'
<1> SUFFICES ASSUME TypeOKH, [NextH]_varsH PROVE TypeOKH'
  OBVIOUS
<1> USE DeviceAssumption DEF TypeOKH, TypeOK, threadVars, useVars, calmVars
<1>1. ASSUME Tick, RecordUse, calmFor' = [d \in Devices |-> Aged(calmFor[d], 1)], UNCHANGED slept
      PROVE  TypeOKH'
  <2>1. spent' \in [Devices -> Nat] /\ seen' \in [Devices -> SUBSET Loads]
    BY <1>1 DEF Tick
  <2>2. startAge' \in [Devices -> 0 .. MaxAge] /\ calmFor' \in [Devices -> 0 .. MaxAge]
    <3>1. \A d \in Devices : startAge[d] \in Nat /\ calmFor[d] \in Nat
      OBVIOUS
    <3>2. \A d \in Devices : /\ Aged(startAge[d], 1) \in 0 .. MaxAge
                             /\ Aged(calmFor[d], 1) \in 0 .. MaxAge
      BY <3>1, AgedType
    <3> QED
      BY <1>1, <3>2 DEF Tick
  <2>3. busyFor' \in [Recorded -> Nat] /\ stillFor' \in [Recorded -> Nat]
    BY <1>1, HistoryAssumption DEF RecordUse, Longer
  <2> QED
    BY <1>1, <2>1, <2>2, <2>3 DEF Tick
<1>2. CASE Suspend /\ UNCHANGED <<useVars, calmFor>> /\ slept' = Devices
  BY <1>2 DEF Suspend
<1>5. CASE Resume /\ UNCHANGED <<useVars, calmVars>>
  <2>1. PICK ticks \in 0 .. MaxAge : startAge' = [d \in Devices |-> Aged(startAge[d], ticks)]
    BY <1>5 DEF Resume, ResumeAfter
  <2>2. \A d \in Devices : startAge[d] \in Nat /\ ticks \in Nat
    OBVIOUS
  <2>3. \A d \in Devices : Aged(startAge[d], ticks) \in 0 .. MaxAge
    BY <2>2, AgedType
  <2>4. startAge' \in [Devices -> 0 .. MaxAge]
    BY <2>1, <2>3
  <2> QED
    BY <1>5, <2>4 DEF Resume, ResumeAfter
<1>3. ASSUME NEW d \in Devices, Thread(d), UNCHANGED useVars,
             calmFor' = IF FoundBusy(d) THEN [calmFor EXCEPT ![d] = 0] ELSE calmFor,
             slept' = IF FoundBusy(d) THEN slept \ {d} ELSE slept
      PROVE  TypeOKH'
  <2> USE DEF GoTo, StartSample, SetIdleState
  <2>1. calmFor' \in [Devices -> 0 .. MaxAge]
    BY <1>3
  <2>2. CASE CalculateUsage(d)
    BY <1>3, <2>1, <2>2 DEF CalculateUsage, Outcomes
  <2>3. CASE FoundBusy(d)
    BY <1>3, <2>1, <2>3 DEF FoundBusy
  <2>4. CASE FoundCalm(d) \/ SpunDown(d)
    BY <1>3, <2>1, <2>4 DEF FoundCalm, SpunDown
  <2>5. CASE FoundIdle(d)
    <3>1. idleState' \in [Devices -> BOOLEAN] /\ UNCHANGED <<load, above, startAge, asleep>>
      BY <2>5 DEF FoundIdle
    <3>2. /\ at' \in [Devices -> {"sample", "judge", "spinDown"}]
          /\ spent' \in [Devices -> Nat]
          /\ seen' \in [Devices -> SUBSET Loads]
      <4>1. CASE d \in SpinDown
        BY <2>5, <4>1 DEF FoundIdle
      <4>2. CASE d \notin SpinDown
        BY <2>5, <4>2 DEF FoundIdle
      <4> QED
        BY <4>1, <4>2
    <3>3. slept' \subseteq Devices /\ UNCHANGED useVars
      BY <1>3
    <3> QED
      BY <2>1, <3>1, <3>2, <3>3
  <2> QED
    BY <1>3, <2>2, <2>3, <2>4, <2>5 DEF Thread, Judge
<1>4. CASE UNCHANGED varsH
  BY <1>4 DEF varsH, vars
<1> QED
  BY <1>1, <1>2, <1>3, <1>4, <1>5 DEF NextH, RecordTick, RecordSuspend, RecordThread

\* A thread's step leaves the other threads and devices alone.
LEMMA OthersUnchanged ==
  ASSUME TypeOKH, NEW d \in Devices, Thread(d), NEW e \in Devices, e # d
  PROVE  /\ idleState'[e] = idleState[e] /\ at'[e] = at[e] /\ spent'[e] = spent[e]
         /\ seen'[e] = seen[e] /\ above'[e] = above[e] /\ startAge'[e] = startAge[e]
BY DEF TypeOKH, TypeOK, Thread, Judge, CalculateUsage, FoundBusy, FoundCalm, FoundIdle, SpunDown,
   StartSample, GoTo, SetIdleState

\* The thread's own state after each of its steps.
LEMMA ThreadStep ==
  ASSUME TypeOKH, NEW d \in Devices, Thread(d)
  PROVE  /\ ~asleep /\ asleep' = asleep /\ load' = load /\ spent'[d] = 0
         /\ \/ /\ CalculateUsage(d) /\ at[d] = "sample" /\ at'[d] = "judge"
               /\ spent[d] >= Window /\ (d \in Readable => above'[d] \in Outcomes(seen[d]))
               /\ idleState'[d] = idleState[d] /\ startAge'[d] = startAge[d]
            \/ /\ FoundBusy(d) /\ at[d] = "judge" /\ above[d] /\ at'[d] = "sample"
               /\ seen'[d] = {} /\ ~idleState'[d] /\ startAge'[d] = 0
            \/ /\ FoundCalm(d) /\ at[d] = "judge" /\ ~above[d] /\ at'[d] = "sample"
               /\ seen'[d] = {} /\ idleState'[d] = idleState[d] /\ startAge'[d] = startAge[d]
            \/ /\ FoundIdle(d) /\ at[d] = "judge" /\ ~above[d] /\ LongEnough(d)
               /\ at'[d] = (IF d \in SpinDown THEN "spinDown" ELSE "sample")
               /\ d \notin SpinDown => seen'[d] = {}
               /\ idleState'[d] /\ startAge'[d] = startAge[d]
            \/ /\ SpunDown(d) /\ at[d] = "spinDown" /\ at'[d] = "sample"
               /\ seen'[d] = {} /\ idleState'[d] = idleState[d] /\ startAge'[d] = startAge[d]
<1> USE DEF TypeOKH, TypeOK, StartSample, GoTo, SetIdleState
<1>1. CASE CalculateUsage(d)
  BY <1>1 DEF CalculateUsage
<1>2. CASE FoundBusy(d)
  BY <1>2 DEF FoundBusy
<1>3. CASE FoundCalm(d)
  BY <1>3 DEF FoundCalm
<1>4. CASE FoundIdle(d)
  BY <1>4 DEF FoundIdle
<1>5. CASE SpunDown(d)
  BY <1>5 DEF SpunDown
<1> QED
  BY <1>1, <1>2, <1>3, <1>4, <1>5 DEF Thread, Judge

\* No thread stays anywhere longer than its patience, and a sample that lasted
\* has seen a load.
LEMMA PaceStep == TypeOKH /\ PaceInv /\ [NextH]_varsH => PaceInv'
<1> SUFFICES ASSUME TypeOKH, PaceInv, [NextH]_varsH, NEW e \in Devices
             PROVE  /\ spent'[e] <= Patience(at'[e])
                    /\ at'[e] = "sample" /\ spent'[e] > 0 => seen'[e] # {}
                    /\ at'[e] = "spinDown" => e \in SpinDown /\ idleState'[e]
  BY DEF PaceInv, Patience
<1>1. /\ spent[e] <= Patience(at[e])
      /\ at[e] = "sample" /\ spent[e] > 0 => seen[e] # {}
      /\ at[e] = "spinDown" => e \in SpinDown /\ idleState[e]
  BY DEF PaceInv
<1>2. CASE Tick
  <2>1. spent[e] \in Nat /\ Patience(at[e]) \in Nat /\ spent[e] < Patience(at[e])
    BY <1>2, DeviceAssumption DEF Tick, TypeOKH, TypeOK, Patience
  <2>2. at' = at /\ idleState' = idleState /\ spent'[e] = spent[e] + 1
    BY <1>2 DEF Tick
  <2>3. at[e] = "sample" => seen'[e] = seen[e] \union {load[e]}
    BY <1>2 DEF Tick
  <2>4. at[e] = "sample" => seen'[e] # {}
    BY <2>3
  <2> QED
    BY <1>1, <2>1, <2>2, <2>4
<1>3. CASE Suspend \/ Resume \/ UNCHANGED varsH
  BY <1>1, <1>3 DEF Suspend, Resume, ResumeAfter, varsH, vars, threadVars
<1>4. ASSUME NEW d \in Devices, Thread(d)
      PROVE  /\ spent'[e] <= Patience(at'[e])
             /\ at'[e] = "sample" /\ spent'[e] > 0 => seen'[e] # {}
             /\ at'[e] = "spinDown" => e \in SpinDown /\ idleState'[e]
  <2>1. CASE d = e
    BY <1>4, <2>1, ThreadStep, DeviceAssumption DEF Patience
  <2>2. CASE d # e
    BY <1>1, <1>4, <2>2, OthersUnchanged
  <2> QED
    BY <2>1, <2>2
<1> QED
  BY <1>2, <1>3, <1>4 DEF NextH, RecordTick, RecordSuspend, RecordThread

CalmOf(e) ==
  e \notin slept =>
    /\ startAge[e] <= calmFor[e]
    /\ idleState[e] => calmFor[e] >= IdleTime[e] * Minute

\* Both ages grow by the same tick, and saturate above the threshold.
LEMMA CalmTick ==
  ASSUME TypeOKH, NEW e \in Devices, CalmOf(e), Tick, UNCHANGED slept,
         calmFor' = [d \in Devices |-> Aged(calmFor[d], 1)]
  PROVE  CalmOf(e)'
<1> DEFINE threshold == IdleTime[e] * Minute
<1>1. /\ startAge'[e] = Aged(startAge[e], 1) /\ calmFor'[e] = Aged(calmFor[e], 1)
      /\ idleState' = idleState
  BY DEF Tick
<1>2. /\ startAge[e] \in Nat /\ calmFor[e] \in 0 .. MaxAge /\ MaxAge \in Nat
      /\ threshold \in Int /\ MaxAge >= threshold
  BY DeviceAssumption DEF TypeOKH, TypeOK
<1>3. e \notin slept =>
        startAge[e] <= calmFor[e] /\ (idleState[e] => calmFor[e] >= threshold)
  BY DEF CalmOf
<1> HIDE DEF threshold
<1>4. e \notin slept =>
        startAge'[e] <= calmFor'[e] /\ (idleState'[e] => calmFor'[e] >= threshold)
  BY <1>1, <1>2, <1>3 DEF Aged
<1> QED
  BY <1>4 DEF CalmOf, threshold

\* A busy verdict restarts both, an idle one needs the age it reads.
LEMMA CalmThread ==
  ASSUME TypeOKH, NEW e \in Devices, CalmOf(e), NEW d \in Devices, Thread(d),
         calmFor' = IF FoundBusy(d) THEN [calmFor EXCEPT ![d] = 0] ELSE calmFor,
         slept' = IF FoundBusy(d) THEN slept \ {d} ELSE slept
  PROVE  CalmOf(e)'
<1>1. CASE e # d
  <2>1. calmFor'[e] = calmFor[e] /\ (e \in slept' <=> e \in slept)
    BY <1>1 DEF TypeOKH
  <2> QED
    BY <1>1, <2>1, OthersUnchanged DEF CalmOf
<1>2. CASE e = d /\ FoundBusy(d)
  <2>1. calmFor'[e] = 0 /\ startAge'[e] = 0 /\ ~idleState'[e]
    BY <1>2 DEF FoundBusy, SetIdleState, TypeOKH, TypeOK
  <2> QED
    BY <2>1 DEF CalmOf
<1>3. CASE e = d /\ FoundIdle(d)
  <2>1. Minutes(startAge[e]) >= IdleTime[e] /\ startAge' = startAge
    BY <1>3 DEF FoundIdle, LongEnough
  <2>2. /\ startAge[e] \in Nat /\ calmFor[e] \in Nat /\ IdleTime[e] \in Int
        /\ IdleTime[e] * Minute \in Int
    BY DeviceAssumption DEF TypeOKH, TypeOK
  <2>3. startAge[e] >= IdleTime[e] * Minute
    BY <2>1, <2>2, WholeMinutes
  <2>4. calmFor' = calmFor /\ slept' = slept
    BY <1>3 DEF FoundIdle, FoundBusy
  <2> QED
    BY <2>1, <2>2, <2>3, <2>4 DEF CalmOf
<1>4. CASE e = d /\ (CalculateUsage(d) \/ FoundCalm(d) \/ SpunDown(d))
  <2>1. startAge' = startAge /\ idleState' = idleState
    BY <1>4 DEF CalculateUsage, FoundCalm, SpunDown
  <2>2. calmFor' = calmFor /\ slept' = slept
    BY <1>4 DEF CalculateUsage, FoundCalm, SpunDown, FoundBusy
  <2> QED
    BY <2>1, <2>2 DEF CalmOf
<1> QED
  BY <1>1, <1>2, <1>3, <1>4 DEF Thread, Judge

\* A timer never claims more calm than the samples judged since it restarted.
LEMMA CalmStep == TypeOKH /\ CalmInv /\ [NextH]_varsH => CalmInv'
<1> SUFFICES ASSUME TypeOKH, CalmInv, [NextH]_varsH PROVE CalmInv'
  OBVIOUS
<1>1. \A e \in Devices : CalmOf(e)
  BY DEF CalmInv, FlagMeansCalm, CalmOf
<1>2. (asleep => slept = Devices)'
  <2>1. CASE Suspend /\ slept' = Devices
    BY <2>1
  <2>2. CASE Tick \/ Resume \/ UNCHANGED varsH
    BY <2>2 DEF CalmInv, NextH, RecordTick, RecordSuspend, RecordThread, Tick, Resume,
       ResumeAfter, Suspend, varsH, vars, calmVars
  <2>3. CASE \E d \in Devices : Thread(d)
    BY <2>3, ThreadStep
  <2> QED
    BY <2>1, <2>2, <2>3 DEF NextH, RecordTick, RecordSuspend, RecordThread
<1>3. ASSUME NEW e \in Devices PROVE CalmOf(e)'
  <2>1. CASE Suspend /\ slept' = Devices
    BY <2>1 DEF CalmOf
  <2>2. CASE Resume
    <3>1. slept' = Devices
      BY <2>2 DEF CalmInv, Resume, ResumeAfter, NextH, RecordTick, RecordSuspend,
         RecordThread, Tick, Suspend, Thread, Judge, CalculateUsage, FoundBusy,
         FoundCalm, FoundIdle, SpunDown, varsH, vars, calmVars
    <3> QED
      BY <3>1 DEF CalmOf
  <2>3. CASE UNCHANGED varsH
    BY <1>1, <2>3 DEF varsH, vars, calmVars, CalmOf
  <2> QED
    BY <1>1, <2>1, <2>2, <2>3, CalmTick, CalmThread DEF NextH, RecordTick, RecordSuspend,
       RecordThread
<1> QED
  BY <1>2, <1>3 DEF CalmInv, FlagMeansCalm, CalmOf

-----------------------------------------------------------------------------
(* How long a use can have lasted at most, place by place.                 *)

UseOf(e) ==
  /\ at[e] = "sample" =>
       /\ ~(seen[e] \subseteq {"busy"}) => busyFor[e] < spent[e]
       /\ idleState[e] => busyFor[e] <= Unnoticed(e) + spent[e]
  /\ at[e] = "judge" =>
       /\ ~above[e] => busyFor[e] <= Sample - 1 + spent[e]
       /\ idleState[e] => busyFor[e] <= Unnoticed(e) + Sample + spent[e]
  /\ at[e] = "spinDown" => busyFor[e] <= Sample - 1 + MaxLag + spent[e]

\* A tick adds at most one to the use, and one to the time spent.
LEMMA UseTick ==
  ASSUME TypeOKH, PaceInv, NEW e \in Recorded, UseOf(e), Tick, RecordUse
  PROVE  UseOf(e)'
<1> e \in Devices
  BY DeviceAssumption, RecordedAre
<1> USE DEF TypeOKH, TypeOK
<1>1. /\ at' = at /\ above' = above /\ idleState' = idleState /\ spent'[e] = spent[e] + 1
      /\ at[e] = "sample" => seen'[e] = seen[e] \union {load[e]}
  BY DEF Tick
<1>2. /\ busyFor'[e] \in Nat /\ busyFor'[e] <= busyFor[e] + 1
      /\ load[e] # "busy" => busyFor'[e] = 0
  BY HistoryAssumption DEF RecordUse, Longer
<1>3. at[e] = "sample" /\ ~(seen'[e] \subseteq {"busy"}) =>
        ~(seen[e] \subseteq {"busy"}) \/ load[e] # "busy"
  BY <1>1
<1>4. /\ spent[e] \in Nat /\ busyFor[e] \in Nat /\ Unnoticed(e) \in Nat /\ Sample \in Nat \ {0}
      /\ MaxLag \in Nat
  BY BoundsType, DeviceAssumption
<1>5. at[e] = "sample" /\ ~(seen'[e] \subseteq {"busy"}) => busyFor'[e] < spent'[e]
  <2> SUFFICES ASSUME at[e] = "sample", ~(seen'[e] \subseteq {"busy"}) PROVE busyFor'[e] < spent'[e]
    OBVIOUS
  <2>1. CASE ~(seen[e] \subseteq {"busy"})
    <3>1. busyFor[e] < spent[e]
      BY <2>1 DEF UseOf
    <3> HIDE DEF TypeOKH, TypeOK
    <3> QED
      BY <1>1, <1>2, <1>4, <3>1
  <2>2. CASE load[e] # "busy"
    <3> HIDE DEF TypeOKH, TypeOK
    <3> QED
      BY <1>1, <1>2, <1>4, <2>2
  <2> QED
    BY <1>3, <2>1, <2>2
<1>6. Unnoticed(e)' = Unnoticed(e) /\ Sample' = Sample
  BY DEF Unnoticed, Sample, Blind
<1>10. at[e] \in {"sample", "judge", "spinDown"}
  OBVIOUS
<1> HIDE DEF TypeOKH, TypeOK
<1>7. CASE at[e] = "sample"
  <2>1. at'[e] = "sample"
    BY <1>1, <1>7
  <2>2. idleState'[e] => busyFor'[e] <= Unnoticed(e) + spent'[e]
    <3>1. idleState'[e] => busyFor[e] <= Unnoticed(e) + spent[e]
      BY <1>1, <1>7 DEF UseOf
    <3>2. busyFor[e] <= Unnoticed(e) + spent[e] => busyFor'[e] <= Unnoticed(e) + spent'[e]
      BY <1>1, <1>2, <1>4
    <3> QED
      BY <3>1, <3>2
  <2> QED
    BY <1>5, <1>6, <1>7, <2>1, <2>2 DEF UseOf
<1>8. CASE at[e] = "judge"
  BY <1>1, <1>2, <1>4, <1>6, <1>8 DEF UseOf
<1>9. CASE at[e] = "spinDown"
  BY <1>1, <1>2, <1>4, <1>6, <1>9 DEF UseOf
<1> QED
  BY <1>7, <1>8, <1>9, <1>10, Zenon

\* A thread's own step keeps the bounds on how long its device was used.
LEMMA UseThread ==
  ASSUME TypeOKH, PaceInv, NEW e \in Recorded, UseOf(e), NEW d \in Devices, Thread(d),
         UNCHANGED busyFor
  PROVE  UseOf(e)'
<1>0. e \in Devices
  BY DeviceAssumption, RecordedAre
<1>1. CASE d # e
  BY <1>0, <1>1, OthersUnchanged DEF UseOf, Unnoticed, Sample, Blind
<1>2. CASE d = e
  <2>1. /\ spent[e] \in Nat /\ busyFor[e] \in Nat /\ Sample \in Nat \ {0} /\ MaxLag \in Nat
        /\ Unnoticed(e) = Sample - 1 + MaxLag + Blind(e) /\ Blind(e) \in Nat
        /\ Unnoticed(e) \in Nat /\ above[e] \in BOOLEAN /\ busyFor' = busyFor
    BY <1>0, BoundsType, DeviceAssumption DEF TypeOKH, TypeOK, Unnoticed
  <2>2. /\ at[e] = "sample" => spent[e] <= Sample
        /\ at[e] = "judge" => spent[e] <= MaxLag
        /\ at[e] = "spinDown" => spent[e] <= MaxSpin /\ Blind(e) = MaxSpin
    BY <1>0, PatienceIs DEF PaceInv, Blind
  <2>3. Unnoticed(e)' = Unnoticed(e) /\ Sample' = Sample
    BY DEF Unnoticed, Sample, Blind
  <2>4. spent'[e] = 0 /\ MaxSpin \in Nat
    BY <1>2, ThreadStep, DeviceAssumption
  <2>5. CASE CalculateUsage(e)
    <3>1. /\ at[e] = "sample" /\ at'[e] = "judge" /\ idleState'[e] = idleState[e]
          /\ above'[e] \in Outcomes(seen[e]) /\ above'[e] \in BOOLEAN /\ spent[e] >= Window
      BY <1>0, RecordedAre, <2>5 DEF CalculateUsage, GoTo, Outcomes, TypeOKH, TypeOK
    <3>2. ~above'[e] => ~(seen[e] \subseteq {"busy"})
      <4>1. seen[e] # {}
        BY <1>0, <2>1, <3>1, DeviceAssumption DEF PaceInv
      <4> QED
        BY <3>1, <4>1 DEF Outcomes
    <3>3. ~above'[e] => busyFor'[e] <= Sample - 1
      <4>1. ~(seen[e] \subseteq {"busy"}) => busyFor[e] < spent[e]
        BY <3>1 DEF UseOf
      <4>2. busyFor[e] < spent[e] => busyFor'[e] <= Sample - 1
        BY <2>1, <2>2, <3>1
      <4> QED
        BY <3>2, <4>1, <4>2, Zenon
    <3>4. idleState'[e] => busyFor'[e] <= Unnoticed(e) + Sample
      BY <2>1, <2>2, <3>1 DEF UseOf
    <3>5. Sample - 1 + spent'[e] = Sample - 1
          /\ Unnoticed(e) + Sample + spent'[e] = Unnoticed(e) + Sample
      BY <2>1, <2>4
    <3> QED
      BY <2>3, <3>1, <3>3, <3>4, <3>5 DEF UseOf
  <2>6. CASE FoundBusy(e)
    <3>1. at'[e] = "sample" /\ seen'[e] = {} /\ ~idleState'[e]
      BY <1>0, <2>6 DEF FoundBusy, StartSample, GoTo, SetIdleState, TypeOKH, TypeOK
    <3> QED
      BY <3>1 DEF UseOf
  <2>7. CASE FoundCalm(e) \/ FoundIdle(e)
    <3>1. at[e] = "judge" /\ ~above[e]
      BY <2>7 DEF FoundCalm, FoundIdle
    <3>2. \/ at'[e] = "sample" /\ seen'[e] = {}
          \/ at'[e] = "spinDown"
      BY <1>0, <2>7 DEF FoundCalm, FoundIdle, StartSample, GoTo, TypeOKH, TypeOK
    <3>3. busyFor'[e] <= Sample - 1 + MaxLag
      BY <2>1, <2>2, <3>1 DEF UseOf
    <3>4. busyFor'[e] <= Unnoticed(e) + spent'[e]
          /\ busyFor'[e] <= Sample - 1 + MaxLag + spent'[e]
      BY <2>1, <2>4, <3>3
    <3> QED
      BY <2>3, <3>2, <3>4 DEF UseOf
  <2>8. CASE SpunDown(e)
    <3>1. at[e] = "spinDown" /\ at'[e] = "sample" /\ seen'[e] = {}
      BY <1>0, <2>8 DEF SpunDown, StartSample, GoTo, TypeOKH, TypeOK
    <3>2. busyFor'[e] <= Unnoticed(e)
      BY <2>1, <2>2, <2>4, <3>1 DEF UseOf
    <3> QED
      BY <2>1, <2>3, <2>4, <3>1, <3>2 DEF UseOf
  <2> QED
    BY <1>2, <2>5, <2>6, <2>7, <2>8 DEF Thread, Judge
<1> QED
  BY <1>1, <1>2

\* Every step keeps the bounds on the use of the devices.
LEMMA UseStep == TypeOKH /\ PaceInv /\ UseInv /\ [NextH]_varsH => UseInv'
<1> SUFFICES ASSUME TypeOKH, PaceInv, UseInv, [NextH]_varsH, NEW e \in Recorded
             PROVE  UseOf(e)'
  BY DEF UseInv, UseOf
<1>1. UseOf(e)
  BY DEF UseInv, UseOf
<1>2. CASE (Suspend \/ Resume \/ UNCHANGED vars) /\ UNCHANGED busyFor
  BY <1>1, <1>2 DEF Suspend, Resume, ResumeAfter, vars, threadVars, UseOf, Unnoticed, Sample, Blind
<1> QED
  BY <1>1, <1>2, UseTick, UseThread DEF NextH, RecordTick, RecordSuspend, RecordThread,
     varsH, useVars

\* The bounds of the three places add up to the reaction time.
LEMMA ReactionInv == TypeOKH /\ PaceInv /\ UseInv => FlagReactsToUse
<1> SUFFICES ASSUME TypeOKH, PaceInv, UseInv, NEW e \in Recorded, idleState[e]
             PROVE  busyFor[e] <= ReactionTime(e)
  BY DEF FlagReactsToUse
<1>1. e \in Devices
  BY DeviceAssumption, RecordedAre
<1>2. /\ at[e] = "sample" => spent[e] <= Sample
      /\ at[e] = "judge" => spent[e] <= MaxLag
      /\ at[e] = "spinDown" => spent[e] <= MaxSpin /\ Blind(e) = MaxSpin
  BY <1>1, PatienceIs DEF PaceInv, Blind
<1>3. /\ spent[e] \in Nat /\ busyFor[e] \in Nat /\ Sample \in Nat \ {0}
      /\ MaxLag \in Nat /\ MaxSpin \in Nat /\ Blind(e) \in Nat
      /\ at[e] \in {"sample", "judge", "spinDown"}
  BY <1>1, BoundsType, DeviceAssumption DEF TypeOKH, TypeOK
<1>4. /\ at[e] = "sample" => busyFor[e] <= Unnoticed(e) + spent[e]
      /\ at[e] = "judge" => busyFor[e] <= Unnoticed(e) + Sample + spent[e]
      /\ at[e] = "spinDown" => busyFor[e] <= Sample - 1 + MaxLag + spent[e]
  BY DEF UseInv
<1>5. /\ Unnoticed(e) = Sample - 1 + MaxLag + Blind(e) /\ Unnoticed(e) \in Nat
      /\ ReactionTime(e) = Unnoticed(e) + Sample + MaxLag
  BY <1>1, BoundsType DEF Unnoticed, ReactionTime
<1> QED
  BY <1>2, <1>3, <1>4, <1>5

-----------------------------------------------------------------------------
(* How long a device without its flag can have been left alone.            *)

RestOf(e) ==
  /\ at[e] = "sample" /\ ~(seen[e] \subseteq {"calm"}) => stillFor[e] < spent[e]
  /\ at[e] = "judge" /\ above[e] => stillFor[e] <= Sample - 1 + spent[e]
  /\ ~idleState[e] =>
       /\ startAge[e] < MaxAge => stillFor[e] <= startAge[e] + Overdue
       /\ at[e] = "sample" => stillFor[e] <= Overdue + CalmAtMost(e) + spent[e]
       /\ at[e] = "judge" => stillFor[e] <= Overdue + CalmAtMost(e) + Sample + spent[e]

\* A tick adds at most one to the rest, and one to the timer and to the time
\* spent.
LEMMA RestTick ==
  ASSUME TypeOKH, NEW e \in Recorded, RestOf(e), Tick, RecordUse
  PROVE  RestOf(e)'
<1> e \in Devices
  BY DeviceAssumption, RecordedAre
<1> USE DEF TypeOKH, TypeOK
<1>1. /\ at' = at /\ above' = above /\ idleState' = idleState /\ spent'[e] = spent[e] + 1
      /\ at[e] = "sample" => seen'[e] = seen[e] \union {load[e]}
      /\ startAge'[e] = Aged(startAge[e], 1)
  BY DEF Tick
<1>2. /\ stillFor'[e] \in Nat /\ stillFor'[e] <= stillFor[e] + 1
      /\ load[e] # "calm" => stillFor'[e] = 0
  BY HistoryAssumption DEF RecordUse, Longer
<1>3. /\ spent[e] \in Nat /\ stillFor[e] \in Nat /\ startAge[e] \in 0 .. MaxAge /\ MaxAge \in Nat
      /\ Overdue \in Nat /\ CalmAtMost(e) \in Nat /\ Sample \in Nat \ {0}
  BY BoundsType, RestBoundsType, DeviceAssumption
<1>4. CalmAtMost(e)' = CalmAtMost(e) /\ Overdue' = Overdue /\ Sample' = Sample
  BY DEF CalmAtMost, Overdue, Sample
<1>5. at[e] = "sample" /\ ~(seen'[e] \subseteq {"calm"}) =>
        ~(seen[e] \subseteq {"calm"}) \/ load[e] # "calm"
  BY <1>1
<1> HIDE DEF TypeOKH, TypeOK
<1>6. at'[e] = "sample" /\ ~(seen'[e] \subseteq {"calm"}) => stillFor'[e] < spent'[e]
  <2>1. (at[e] = "sample" /\ ~(seen[e] \subseteq {"calm"}) => stillFor[e] < spent[e])
    BY DEF RestOf
  <2>2. stillFor[e] < spent[e] \/ load[e] # "calm" => stillFor'[e] < spent'[e]
    BY <1>1, <1>2, <1>3
  <2>3. at'[e] = "sample" => at[e] = "sample"
    BY <1>1
  <2> QED
    BY <1>5, <2>1, <2>2, <2>3, Zenon
<1>7. at'[e] = "judge" /\ above'[e] => stillFor'[e] <= Sample - 1 + spent'[e]
  <2>1. at[e] = "judge" /\ above[e] => stillFor[e] <= Sample - 1 + spent[e]
    BY DEF RestOf
  <2>2. stillFor[e] <= Sample - 1 + spent[e] => stillFor'[e] <= Sample - 1 + spent'[e]
    BY <1>1, <1>2, <1>3
  <2>3. at' = at /\ above' = above
    BY <1>1
  <2> QED
    BY <2>1, <2>2, <2>3
<1>8. ASSUME ~idleState'[e]
      PROVE  /\ startAge'[e] < MaxAge => stillFor'[e] <= startAge'[e] + Overdue
             /\ at'[e] = "sample" => stillFor'[e] <= Overdue + CalmAtMost(e) + spent'[e]
             /\ at'[e] = "judge" => stillFor'[e] <= Overdue + CalmAtMost(e) + Sample + spent'[e]
  <2>1. /\ startAge[e] < MaxAge => stillFor[e] <= startAge[e] + Overdue
        /\ at[e] = "sample" => stillFor[e] <= Overdue + CalmAtMost(e) + spent[e]
        /\ at[e] = "judge" => stillFor[e] <= Overdue + CalmAtMost(e) + Sample + spent[e]
    BY <1>1, <1>8 DEF RestOf
  <2>2. startAge'[e] < MaxAge => startAge[e] < MaxAge /\ startAge'[e] = startAge[e] + 1
    BY <1>1, <1>3 DEF Aged
  <2>3. at'[e] = at[e]
    BY <1>1
  <2> QED
    BY <1>1, <1>2, <1>3, <2>1, <2>2, <2>3
<1> QED
  BY <1>4, <1>6, <1>7, <1>8 DEF RestOf

\* A thread's own step keeps the bounds on how long its device was left alone.
LEMMA RestThread ==
  ASSUME TypeOKH, PaceInv, NEW e \in Recorded, RestOf(e), NEW d \in Devices, Thread(d),
         UNCHANGED stillFor
  PROVE  RestOf(e)'
<1>0. e \in Devices
  BY DeviceAssumption, RecordedAre
<1>1. CASE d # e
  BY <1>0, <1>1, OthersUnchanged DEF RestOf, CalmAtMost, Overdue, Sample
<1>2. CASE d = e
  <2>1. /\ spent[e] \in Nat /\ stillFor[e] \in Nat /\ startAge[e] \in 0 .. MaxAge
        /\ Sample \in Nat \ {0} /\ MaxLag \in Nat /\ MaxAge \in Nat
        /\ Overdue = Sample - 1 + MaxLag /\ Overdue \in Nat /\ CalmAtMost(e) \in Nat
        /\ stillFor'[e] = stillFor[e] /\ spent'[e] = 0
    BY <1>0, <1>2, ThreadStep, BoundsType, RestBoundsType, DeviceAssumption DEF TypeOKH, TypeOK, Overdue
  <2>2. /\ at[e] = "sample" => spent[e] <= Sample
        /\ at[e] = "judge" => spent[e] <= MaxLag
        /\ at[e] = "spinDown" => idleState[e]
    BY <1>0, PatienceIs DEF PaceInv
  <2>3. CalmAtMost(e)' = CalmAtMost(e) /\ Overdue' = Overdue /\ Sample' = Sample
    BY DEF CalmAtMost, Overdue, Sample
  <2>4. CASE CalculateUsage(e)
    <3>1. /\ at[e] = "sample" /\ at'[e] = "judge" /\ idleState'[e] = idleState[e]
          /\ startAge'[e] = startAge[e] /\ above'[e] \in Outcomes(seen[e]) /\ spent[e] >= Window
      BY <1>0, RecordedAre, <2>4 DEF CalculateUsage, GoTo, TypeOKH, TypeOK
    <3>2. above'[e] => ~(seen[e] \subseteq {"calm"})
      <4>1. seen[e] # {}
        BY <1>0, <2>1, <3>1, DeviceAssumption DEF PaceInv
      <4> QED
        BY <3>1, <4>1 DEF Outcomes
    <3>3. above'[e] => stillFor'[e] <= Sample - 1 + spent'[e]
      <4>1. ~(seen[e] \subseteq {"calm"}) => stillFor[e] < spent[e]
        BY <3>1 DEF RestOf
      <4>2. stillFor[e] < spent[e] => stillFor'[e] <= Sample - 1 + spent'[e]
        BY <2>1, <2>2, <3>1
      <4> QED
        BY <3>2, <4>1, <4>2, Zenon
    <3>4. ASSUME ~idleState'[e]
          PROVE  /\ startAge'[e] < MaxAge => stillFor'[e] <= startAge'[e] + Overdue
                 /\ stillFor'[e] <= Overdue + CalmAtMost(e) + Sample + spent'[e]
      BY <2>1, <2>2, <3>1, <3>4 DEF RestOf
    <3> QED
      BY <2>3, <3>1, <3>3, <3>4 DEF RestOf
  <2>5. CASE FoundBusy(e)
    <3>1. /\ at[e] = "judge" /\ above[e] /\ at'[e] = "sample" /\ seen'[e] = {} /\ startAge'[e] = 0
      BY <1>0, <2>5 DEF FoundBusy, StartSample, GoTo, TypeOKH, TypeOK
    <3>2. stillFor'[e] <= Overdue
      BY <2>1, <2>2, <3>1 DEF RestOf
    <3>3. /\ stillFor'[e] <= startAge'[e] + Overdue
          /\ stillFor'[e] <= Overdue + CalmAtMost(e) + spent'[e]
      BY <2>1, <3>1, <3>2
    <3> QED
      BY <2>3, <3>1, <3>3 DEF RestOf
  <2>6. CASE FoundCalm(e)
    <3>1. /\ at[e] = "judge" /\ at'[e] = "sample" /\ seen'[e] = {} /\ startAge' = startAge
          /\ idleState' = idleState /\ ~(Minutes(startAge[e]) >= IdleTime[e])
      BY <1>0, <2>6 DEF FoundCalm, LongEnough, StartSample, GoTo, TypeOKH, TypeOK
    <3>2. startAge[e] <= CalmAtMost(e) /\ startAge[e] < MaxAge
      <4>1. Minutes(startAge[e]) \in Int /\ IdleTime[e] \in Int /\ startAge[e] \in Nat
        BY <1>0, <2>1, DeviceAssumption DEF Minutes
      <4>2. Minutes(startAge[e]) < IdleTime[e]
        BY <3>1, <4>1
      <4> QED
        BY <1>0, <4>1, <4>2, RestBoundsType
    <3>3. ~idleState[e] => stillFor[e] <= startAge[e] + Overdue
      BY <3>2 DEF RestOf
    <3>4. stillFor[e] <= startAge[e] + Overdue => stillFor'[e] <= Overdue + CalmAtMost(e) + spent'[e]
      BY <2>1, <3>2
    <3> QED
      BY <2>1, <2>3, <3>1, <3>3, <3>4 DEF RestOf
  <2>7. CASE FoundIdle(e)
    <3>1. /\ at'[e] = "spinDown" \/ (at'[e] = "sample" /\ seen'[e] = {})
          /\ idleState'[e]
      BY <1>0, <2>7 DEF FoundIdle, StartSample, GoTo, SetIdleState, TypeOKH, TypeOK
    <3> QED
      BY <3>1 DEF RestOf
  <2>8. CASE SpunDown(e)
    <3>1. at[e] = "spinDown" /\ at'[e] = "sample" /\ seen'[e] = {} /\ idleState' = idleState
      BY <1>0, <2>8 DEF SpunDown, StartSample, GoTo, TypeOKH, TypeOK
    <3> QED
      BY <2>2, <3>1 DEF RestOf
  <2> QED
    BY <1>2, <2>4, <2>5, <2>6, <2>7, <2>8 DEF Thread, Judge
<1> QED
  BY <1>1, <1>2

\* A sleep of the machine only ages the timer.
LEMMA RestResume ==
  ASSUME TypeOKH, NEW e \in Recorded, RestOf(e), Resume, UNCHANGED stillFor
  PROVE  RestOf(e)'
<1>1. PICK ticks \in 0 .. MaxAge : ResumeAfter(ticks)
  BY DEF Resume
<1>2. e \in Devices /\ UNCHANGED <<idleState, at, spent, seen, above>>
  BY <1>1, DeviceAssumption, RecordedAre DEF ResumeAfter, threadVars
<1>3. startAge'[e] = Aged(startAge[e], ticks) /\ startAge[e] \in 0 .. MaxAge /\ stillFor[e] \in Nat
  BY <1>1, <1>2 DEF ResumeAfter, TypeOKH, TypeOK
<1>4. ~idleState[e] /\ startAge'[e] < MaxAge => stillFor'[e] <= startAge'[e] + Overdue
  <2>1. MaxAge \in Nat /\ Overdue \in Nat /\ ticks \in Nat
    BY RestBoundsType, DeviceAssumption
  <2>2. startAge'[e] < MaxAge => startAge[e] < MaxAge /\ startAge'[e] >= startAge[e]
    BY <1>3, <2>1 DEF Aged
  <2>3. ~idleState[e] /\ startAge[e] < MaxAge => stillFor[e] <= startAge[e] + Overdue
    BY DEF RestOf
  <2>4. startAge'[e] \in Nat
    BY <1>3, <2>1 DEF Aged
  <2> QED
    BY <1>3, <2>1, <2>2, <2>3, <2>4
<1> QED
  BY <1>2, <1>4 DEF RestOf, CalmAtMost, Overdue, Sample

\* Every step keeps the bounds on the rest of the devices.
LEMMA RestStep == TypeOKH /\ PaceInv /\ RestInv /\ [NextH]_varsH => RestInv'
<1> SUFFICES ASSUME TypeOKH, PaceInv, RestInv, [NextH]_varsH, NEW e \in Recorded
             PROVE  RestOf(e)'
  BY DEF RestInv, RestOf
<1>1. RestOf(e)
  BY DEF RestInv, RestOf
<1>2. CASE (Suspend \/ UNCHANGED vars) /\ UNCHANGED stillFor
  BY <1>1, <1>2 DEF Suspend, vars, threadVars, RestOf, CalmAtMost, Overdue, Sample
<1> QED
  BY <1>1, <1>2, RestTick, RestThread, RestResume DEF NextH, RecordTick, RecordSuspend,
     RecordThread, varsH, useVars

\* The bounds of the two places add up to the settling time; a disk is spun
\* down with its flag set.
LEMMA SettlingInv == TypeOKH /\ PaceInv /\ RestInv => FlagReactsToRest
<1> SUFFICES ASSUME TypeOKH, PaceInv, RestInv, NEW e \in Recorded, ~idleState[e]
             PROVE  stillFor[e] <= SettlingTime(e)
  BY DEF FlagReactsToRest
<1>1. e \in Devices
  BY DeviceAssumption, RecordedAre
<1>2. /\ at[e] = "sample" => spent[e] <= Sample
      /\ at[e] = "judge" => spent[e] <= MaxLag
      /\ at[e] # "spinDown"
  BY <1>1, PatienceIs DEF PaceInv
<1>3. /\ spent[e] \in Nat /\ stillFor[e] \in Nat /\ Sample \in Nat \ {0}
      /\ MaxLag \in Nat /\ Overdue \in Nat /\ CalmAtMost(e) \in Nat
      /\ at[e] \in {"sample", "judge", "spinDown"}
  BY <1>1, BoundsType, RestBoundsType, DeviceAssumption DEF TypeOKH, TypeOK
<1>4. /\ at[e] = "sample" => stillFor[e] <= Overdue + CalmAtMost(e) + spent[e]
      /\ at[e] = "judge" => stillFor[e] <= Overdue + CalmAtMost(e) + Sample + spent[e]
  BY DEF RestInv
<1>5. SettlingTime(e) = Overdue + CalmAtMost(e) + Sample + MaxLag
  BY DEF SettlingTime
<1> QED
  BY <1>2, <1>3, <1>4, <1>5

-----------------------------------------------------------------------------
\* The invariant is inductive.
LEMMA InvStep == IInv /\ [NextH]_varsH => IInv'
BY TypeStep, PaceStep, CalmStep, UseStep, RestStep DEF IInv

\* The invariant is as strong as what is said of the flags.
LEMMA FlagsOK == IInv => FlagReactsToUse /\ FlagReactsToRest /\ FlagMeansCalm
BY ReactionInv, SettlingInv DEF IInv, CalmInv

(* Every state satisfies the inductive invariant.                          *)
THEOREM Invariance == SpecH => []IInv
BY InitOK, InvStep, PTL DEF SpecH

(* A flagged device is one that is not in use, or not for longer than the  *)
(* reaction time, whatever the machine's suspensions.                      *)
THEOREM Reaction == SpecH => []FlagReactsToUse
BY FlagsOK, Invariance, PTL

(* A device that is not flagged has been used within its threshold and two *)
(* samples, whatever the machine's suspensions.                            *)
THEOREM Settling == SpecH => []FlagReactsToRest
BY FlagsOK, Invariance, PTL

(* A flagged device has been calm for its threshold, or the machine was    *)
(* suspended meanwhile.                                                    *)
THEOREM Calm == SpecH => []FlagMeansCalm
BY FlagsOK, Invariance, PTL

=============================================================================
