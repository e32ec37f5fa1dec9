--------------------------- MODULE WakeTimeProofs ---------------------------
(***************************************************************************)
(* For days of every length and wake times of every number: the alarm is   *)
(* the next configured time, if every time has both its parts, and whether *)
(* they do or not, no full time later today is slept through.              *)
(***************************************************************************)
EXTENDS WakeTime, TLAPS

\* The minutes of a valid time are a minute of the day.
LEMMA MinuteType == \A time \in Accepted : MinuteOf(time) \in MinutesOfDay
<1> SUFFICES ASSUME NEW time \in Accepted PROVE MinuteOf(time) \in MinutesOfDay
  OBVIOUS
<1>1. PICK hour \in Nat, minute \in Nat :
        hour = Number(time[1]) /\ minute = Number(time[2]) /\ hour < Hours /\ minute < MinutesInHour
  BY WakeTimeAssumption DEF Accepted, IsValidTime, Number
<1>2. hour * MinutesInHour + minute < Hours * MinutesInHour
  <2>1. (hour + 1) * MinutesInHour <= Hours * MinutesInHour
    BY <1>1, WakeTimeAssumption
  <2> QED
    BY <1>1, <2>1, WakeTimeAssumption
<1>3. hour * MinutesInHour + minute \in Nat /\ Hours * MinutesInHour \in Nat
  BY WakeTimeAssumption
<1> QED
  BY <1>1, <1>2, <1>3 DEF MinuteOf, MinutesOfDay, TotalMinutesInDay

\* A day has some minutes.
LEMMA DayType == TotalMinutesInDay \in Nat \ {0}
BY WakeTimeAssumption DEF TotalMinutesInDay

\* The minute of the day that many minutes later, for at most a day.
LEMMA LaterIs ==
  ASSUME now \in MinutesOfDay, NEW minutes \in 1 .. TotalMinutesInDay
  PROVE  Later(minutes) = IF now + minutes < TotalMinutesInDay
                            THEN now + minutes ELSE now + minutes - TotalMinutesInDay
BY DayType DEF Later, MinutesOfDay

-----------------------------------------------------------------------------
\* A suspension starts within the invariant, with an empty list.
LEMMA InitOK == Init => IInv
<1> SUFFICES ASSUME Init PROVE IInv
  OBVIOUS
<1>1. timesToWakeAt \in Seq(Accepted)
  BY WakeTimeAssumption DEF Init
<1>2. TypeOK
  BY <1>1 DEF Init, TypeOK
<1>3. Lists(1 .. (i - 1)) /\ ListsOnly(1 .. (i - 1))
  BY DEF Init, Lists, ListsOnly
<1>4. i <= Len(timesToWakeAt) + 1
  BY <1>1 DEF Init
<1> QED
  BY <1>2, <1>3, <1>4 DEF Init, IInv, ListInv, AlarmIsNextWake, FullTimesAreKept

\* A full time becomes its minute, another time some integer or nothing.
LEMMA ConvertedType ==
  ASSUME NEW time \in Accepted
  PROVE  /\ Converted(time) \subseteq Int
         /\ Full(time) => Converted(time) = {MinuteOf(time)}
<1>1. MinuteOf(time) \in Int
  BY MinuteType DEF MinutesOfDay
<1>2. \A hour \in {time[1], time[2]} \ {Empty}, beyond \in Garbage :
        hour * MinutesInHour + beyond \in Int
  BY WakeTimeAssumption DEF Accepted
<1> QED
  BY <1>1, <1>2 DEF Converted, Full

\* The elements of a list with one more at its end.
LEMMA AppendIs ==
  ASSUME NEW list \in Seq(Int), NEW m \in Int
  PROVE  /\ Append(list, m) \in Seq(Int)
         /\ DOMAIN list \subseteq DOMAIN Append(list, m)
         /\ \A j \in DOMAIN list : Append(list, m)[j] = list[j]
         /\ Len(list) + 1 \in DOMAIN Append(list, m)
         /\ Append(list, m)[Len(list) + 1] = m
         /\ \A j \in DOMAIN Append(list, m) : j \in DOMAIN list \/ j = Len(list) + 1
OBVIOUS

\* The list covers one time more after a round of the loop.
LEMMA ConvertStep ==
  ASSUME IInv, Convert
  PROVE  IInv'
<1> USE DEF IInv, TypeOK, Convert, ListInv
<1> DEFINE time == timesToWakeAt[i]
<1>1. time \in Accepted /\ i \in DOMAIN timesToWakeAt /\ timesToWakeAt' = timesToWakeAt
  OBVIOUS
<1>2. /\ Converted(time) \subseteq Int
      /\ Full(time) => Converted(time) = {MinuteOf(time)}
  BY <1>1, ConvertedType
<1> HIDE DEF time
<1>3. \/ Converted(time) = {} /\ suspendUpTo' = suspendUpTo
      \/ \E m \in Converted(time) : suspendUpTo' = Append(suspendUpTo, m)
  BY DEF time
<1>4. /\ suspendUpTo' \in Seq(Int)
      /\ DOMAIN suspendUpTo \subseteq DOMAIN suspendUpTo'
      /\ \A j \in DOMAIN suspendUpTo : suspendUpTo'[j] = suspendUpTo[j]
  <2>1. CASE suspendUpTo' = suspendUpTo
    BY <2>1
  <2>2. CASE \E m \in Converted(time) : suspendUpTo' = Append(suspendUpTo, m)
    <3>1. PICK m \in Int : suspendUpTo' = Append(suspendUpTo, m)
      BY <1>2, <2>2
    <3> QED
      BY <3>1, AppendIs
  <2> QED
    BY <1>3, <2>1, <2>2
<1>5. Full(time) =>
        /\ Len(suspendUpTo) + 1 \in DOMAIN suspendUpTo'
        /\ suspendUpTo'[Len(suspendUpTo) + 1] = MinuteOf(time)
        /\ \A j \in DOMAIN suspendUpTo' : j \in DOMAIN suspendUpTo \/ j = Len(suspendUpTo) + 1
  <2> SUFFICES ASSUME Full(time)
               PROVE  /\ Len(suspendUpTo) + 1 \in DOMAIN suspendUpTo'
                      /\ suspendUpTo'[Len(suspendUpTo) + 1] = MinuteOf(time)
                      /\ \A j \in DOMAIN suspendUpTo' :
                           j \in DOMAIN suspendUpTo \/ j = Len(suspendUpTo) + 1
    OBVIOUS
  <2>1. suspendUpTo' = Append(suspendUpTo, MinuteOf(time)) /\ MinuteOf(time) \in Int
    BY <1>2, <1>3
  <2> QED
    BY <2>1, AppendIs
<1>6. \A k \in 1 .. i : Full(timesToWakeAt[k]) =>
        \E j \in DOMAIN suspendUpTo' : suspendUpTo'[j] = MinuteOf(timesToWakeAt[k])
  <2> SUFFICES ASSUME NEW k \in 1 .. i, Full(timesToWakeAt[k])
               PROVE \E j \in DOMAIN suspendUpTo' : suspendUpTo'[j] = MinuteOf(timesToWakeAt[k])
    OBVIOUS
  <2>1. CASE k = i
    BY <1>5, <2>1 DEF time
  <2>2. CASE k < i
    <3>1. PICK j \in DOMAIN suspendUpTo : suspendUpTo[j] = MinuteOf(timesToWakeAt[k])
      BY <2>2 DEF Lists
    <3> QED
      BY <1>4, <3>1
  <2> QED
    BY <2>1, <2>2
<1>7. ASSUME AllFull, NEW j \in DOMAIN suspendUpTo'
      PROVE  \E k \in 1 .. i : suspendUpTo'[j] = MinuteOf(timesToWakeAt[k])
  <2>1. Full(time)
    BY <1>1, <1>7 DEF AllFull, time
  <2>2. CASE j \in DOMAIN suspendUpTo
    <3>1. PICK k \in 1 .. (i - 1) : suspendUpTo[j] = MinuteOf(timesToWakeAt[k])
      BY <1>7, <2>2 DEF ListsOnly
    <3> QED
      BY <1>4, <2>2, <3>1
  <2>3. CASE j = Len(suspendUpTo) + 1
    BY <1>5, <2>1, <2>3 DEF time
  <2> QED
    BY <1>5, <2>1, <2>2, <2>3
<1>8. i' = i + 1 /\ i' <= Len(timesToWakeAt') + 1 /\ 1 .. (i' - 1) = 1 .. i
  BY <1>1
<1>9. TypeOK' /\ pc' = "convert" /\ (AllFull' <=> AllFull)
  BY <1>1, <1>4 DEF AllFull
<1>10. ListInv'
  BY <1>1, <1>6, <1>7, <1>8, <1>9 DEF Lists, ListsOnly
<1> QED
  BY <1>9, <1>10 DEF AlarmIsNextWake, FullTimesAreKept

\* A permutation of the list covers the same times.
LEMMA SortStep ==
  ASSUME IInv, Sort
  PROVE  IInv'
<1> USE DEF IInv, TypeOK, Sort, ListInv
<1>1. PICK order \in Bijection(DOMAIN suspendUpTo, DOMAIN suspendUpTo) :
        suspendUpTo' = [j \in DOMAIN suspendUpTo |-> suspendUpTo[order[j]]]
  OBVIOUS
<1>2. /\ \A j \in DOMAIN suspendUpTo : order[j] \in DOMAIN suspendUpTo
      /\ \A k \in DOMAIN suspendUpTo : \E j \in DOMAIN suspendUpTo : order[j] = k
  BY DEF Bijection, Surjection
<1>3. suspendUpTo' \in Seq(Int) /\ DOMAIN suspendUpTo' = DOMAIN suspendUpTo
  <2>1. DOMAIN suspendUpTo = 1 .. Len(suspendUpTo) /\ Len(suspendUpTo) \in Nat
    OBVIOUS
  <2>2. \A j \in DOMAIN suspendUpTo : suspendUpTo[order[j]] \in Int
    <3>1. \A m \in DOMAIN suspendUpTo : suspendUpTo[m] \in Int
      OBVIOUS
    <3> QED
      BY <1>2, <3>1, Zenon
  <2>3. suspendUpTo' \in [1 .. Len(suspendUpTo) -> Int]
    BY <1>1, <2>1, <2>2
  <2> QED
    BY <1>1, <2>1, <2>3 DEF Seq
<1>4. \A j \in DOMAIN suspendUpTo : suspendUpTo'[j] = suspendUpTo[order[j]]
  BY <1>1
<1>5. \A k \in DOMAIN timesToWakeAt : Full(timesToWakeAt[k]) =>
        \E j \in DOMAIN suspendUpTo : suspendUpTo'[j] = MinuteOf(timesToWakeAt[k])
  <2> SUFFICES ASSUME NEW k \in DOMAIN timesToWakeAt, Full(timesToWakeAt[k])
               PROVE  \E j \in DOMAIN suspendUpTo : suspendUpTo'[j] = MinuteOf(timesToWakeAt[k])
    OBVIOUS
  <2>1. PICK m \in DOMAIN suspendUpTo : suspendUpTo[m] = MinuteOf(timesToWakeAt[k])
    BY DEF Lists
  <2>2. PICK j \in DOMAIN suspendUpTo : order[j] = m
    BY <1>2
  <2> QED
    BY <1>4, <2>1, <2>2
<1>6. ASSUME AllFull, NEW j \in DOMAIN suspendUpTo
      PROVE  \E k \in DOMAIN timesToWakeAt : suspendUpTo'[j] = MinuteOf(timesToWakeAt[k])
  <2>1. PICK k \in DOMAIN timesToWakeAt : suspendUpTo[order[j]] = MinuteOf(timesToWakeAt[k])
    BY <1>2, <1>6 DEF ListsOnly
  <2> QED
    BY <1>4, <2>1
<1>7. timesToWakeAt' = timesToWakeAt /\ pc' = "search" /\ i' = 1 /\ (AllFull' <=> AllFull)
  BY DEF AllFull
<1>8. ListInv'
  BY <1>3, <1>5, <1>6, <1>7 DEF Lists, ListsOnly
<1> QED
  BY <1>3, <1>7, <1>8 DEF AlarmIsNextWake, FullTimesAreKept

-----------------------------------------------------------------------------
(* The four ways to leave the search.                                      *)

\* A minute of the day later than now comes after so many minutes, an
\* earlier one, or now itself, after a day less the difference.
LEMMA ComesAfter ==
  ASSUME now \in MinutesOfDay, NEW until \in MinutesOfDay,
         NEW minutes \in 1 .. TotalMinutesInDay
  PROVE  Later(minutes) = until <=>
           minutes = IF now < until THEN until - now ELSE until + (TotalMinutesInDay - now)
BY LaterIs, DayType DEF MinutesOfDay

\* The alarm is right if it is set to a configured time that no other one
\* comes before.
LEMMA NearestIsNext ==
  ASSUME TypeOK, pc' = "asleep", NEW chosen \in WakeMinutes, SuspendUntil(chosen),
         \A other \in WakeMinutes : now < other => now < chosen /\ chosen <= other,
         \A other \in WakeMinutes : other <= now => now < chosen \/ chosen <= other
  PROVE  AlarmIsNextWake'
<1> USE DEF SuspendUntil
<1>1. WakeMinutes \subseteq MinutesOfDay
  BY MinuteType DEF TypeOK, WakeMinutes
<1>2. /\ sleepFor' \in 1 .. TotalMinutesInDay
      /\ Later(sleepFor') = chosen
  BY <1>1, ComesAfter, DayType DEF TypeOK, MinutesOfDay
<1>3. ASSUME NEW earlier \in 1 .. (sleepFor' - 1), NEW other \in WakeMinutes,
             Later(earlier) = other
      PROVE  FALSE
  <2>1. earlier = IF now < other THEN other - now ELSE other + (TotalMinutesInDay - now)
    <3>1. earlier \in 1 .. TotalMinutesInDay
      BY <1>2, DayType
    <3> QED
      BY <1>1, <1>3, <3>1, ComesAfter DEF TypeOK
  <2> QED
    BY <1>1, <1>2, <1>3, <2>1, DayType DEF TypeOK, MinutesOfDay
<1>4. timesToWakeAt # <<>> /\ timesToWakeAt' # <<>>
  BY DEF WakeMinutes, TypeOK
<1>5. WakeMinutes' = WakeMinutes /\ \A m : Later(m)' = (now + m) % TotalMinutesInDay
  BY DEF WakeMinutes, Later
<1> QED
  BY <1>2, <1>3, <1>4, <1>5 DEF AlarmIsNextWake, Later

\* Which entry the search comes to, and what it means for the alarm.
LEMMA SearchStep ==
  ASSUME IInv, pc = "search",
         TooEarly \/ SuspendUntilToday \/ SuspendUntilTomorrow \/ SuspendForADay
  PROVE  IInv'
<1> USE DEF IInv, TypeOK, ListInv
<1>1. AllFull => WakeMinutes = {suspendUpTo[j] : j \in DOMAIN suspendUpTo}
  BY DEF Lists, ListsOnly, AllFull, WakeMinutes
<1>2. ASSUME NEW k \in DOMAIN timesToWakeAt, Full(timesToWakeAt[k])
      PROVE  \E j \in DOMAIN suspendUpTo : suspendUpTo[j] = MinuteOf(timesToWakeAt[k])
  BY <1>2 DEF Lists
<1>3. /\ now \in Int /\ \A j \in DOMAIN suspendUpTo : suspendUpTo[j] \in Int
      /\ TotalMinutesInDay \in Nat \ {0} /\ now < TotalMinutesInDay
  BY DayType DEF MinutesOfDay
<1>4. CASE TooEarly
  <2>1. /\ UNCHANGED <<timesToWakeAt, now, pc, suspendUpTo>> /\ (AllFull' <=> AllFull)
        /\ i' = i + 1 /\ TypeOK'
    BY <1>4 DEF TooEarly, AllFull
  <2>2. ListInv'
    BY <1>4, <2>1 DEF TooEarly, Lists, ListsOnly
  <2> QED
    BY <2>1, <2>2 DEF AlarmIsNextWake, FullTimesAreKept
<1>5. CASE SuspendUntilToday
  <2>1. \A j \in DOMAIN suspendUpTo : now < suspendUpTo[j] => suspendUpTo[i] <= suspendUpTo[j]
    <3> SUFFICES ASSUME NEW j \in DOMAIN suspendUpTo, now < suspendUpTo[j]
                 PROVE  suspendUpTo[i] <= suspendUpTo[j]
      OBVIOUS
    <3>1. suspendUpTo[j] \in Int /\ i \in DOMAIN suspendUpTo /\ suspendUpTo[i] \in Int
      BY <1>3, <1>5 DEF SuspendUntilToday
    <3>2. i = j \/ i < j
      BY <1>3, <1>5, <3>1 DEF SuspendUntilToday
    <3> QED
      BY <3>1, <3>2, <1>5 DEF SuspendUntilToday, Sorted
  <2>2. /\ sleepFor' = suspendUpTo[i] - now /\ pc' = "asleep" /\ UNCHANGED <<timesToWakeAt, now>>
        /\ i \in DOMAIN suspendUpTo /\ TypeOK' /\ (AllFull' <=> AllFull)
    BY <1>3, <1>5 DEF SuspendUntilToday, SuspendUntil, AllFull
  <2>3. AlarmIsNextWake'
    <3>1. CASE AllFull
      BY <1>1, <1>5, <2>1, <2>2, <3>1, NearestIsNext DEF SuspendUntilToday, SuspendUntil
    <3> QED
      BY <2>2, <3>1 DEF AlarmIsNextWake
  <2>4. FullTimesAreKept'
    <3> SUFFICES ASSUME NEW k \in DOMAIN timesToWakeAt, Full(timesToWakeAt[k]),
                        now < MinuteOf(timesToWakeAt[k])
                 PROVE  sleepFor' <= MinuteOf(timesToWakeAt[k]) - now
      BY <2>2 DEF FullTimesAreKept
    <3>1. PICK j \in DOMAIN suspendUpTo : suspendUpTo[j] = MinuteOf(timesToWakeAt[k])
      BY <1>2
    <3> QED
      BY <1>3, <2>1, <2>2, <3>1
  <2> QED
    BY <2>2, <2>3, <2>4
<1>6. CASE SuspendUntilTomorrow \/ SuspendForADay
  <2>1. \A j \in DOMAIN suspendUpTo : suspendUpTo[j] <= now
    BY <1>6 DEF SuspendUntilTomorrow, SuspendForADay
  <2>2. /\ pc' = "asleep" /\ UNCHANGED <<timesToWakeAt, now, i, suspendUpTo>>
        /\ (AllFull' <=> AllFull)
    BY <1>6 DEF SuspendUntilTomorrow, SuspendForADay, SuspendUntil, AllFull
  <2>3. \A k \in DOMAIN timesToWakeAt :
          Full(timesToWakeAt[k]) => ~(now < MinuteOf(timesToWakeAt[k]))
    BY <1>2, <1>3, <2>1
  <2>4. FullTimesAreKept'
    BY <2>2, <2>3 DEF FullTimesAreKept
  <2>5. TypeOK' /\ AlarmIsNextWake'
    <3>1. CASE SuspendUntilTomorrow
      <4>1. 1 \in DOMAIN suspendUpTo /\ \A j \in DOMAIN suspendUpTo :
              suspendUpTo[1] <= suspendUpTo[j]
        BY <3>1 DEF SuspendUntilTomorrow, Sorted
      <4>2. TypeOK'
        BY <1>3, <2>2, <3>1, <4>1 DEF SuspendUntilTomorrow, SuspendUntil
      <4>3. CASE AllFull
        BY <1>1, <1>3, <2>1, <3>1, <4>1, <4>2, <4>3, NearestIsNext
           DEF SuspendUntilTomorrow, SuspendUntil
      <4> QED
        BY <2>2, <4>2, <4>3 DEF AlarmIsNextWake
    <3>2. CASE SuspendForADay
      <4>1. sleepFor' = TotalMinutesInDay /\ TypeOK'
        BY <1>3, <2>2, <3>2 DEF SuspendForADay, SuspendUntil
      <4>2. AllFull => WakeMinutes' = {} /\ timesToWakeAt' = <<>>
        BY <1>1, <2>2, <3>2 DEF SuspendForADay, WakeMinutes
      <4> QED
        BY <1>3, <2>2, <4>1, <4>2 DEF AlarmIsNextWake
    <3> QED
      BY <1>6, <3>1, <3>2
  <2> QED
    BY <2>2, <2>4, <2>5
<1> QED
  BY <1>4, <1>5, <1>6

\* The invariant is inductive.
LEMMA InvStep == IInv /\ [Next]_vars => IInv'
<1> SUFFICES ASSUME IInv, [Next]_vars PROVE IInv'
  OBVIOUS
<1> USE DEF IInv, TypeOK, ListInv
<1>1. CASE Convert
  BY <1>1, ConvertStep
<1>2. CASE ReadPastEnd
  <2>1. ~AllFull /\ AllFull' = AllFull
    BY <1>2 DEF ReadPastEnd, AllFull, Full
  <2> QED
    BY <1>2, <2>1 DEF ReadPastEnd, AlarmIsNextWake, FullTimesAreKept
<1>3. CASE EndConvert
  <2>1. 1 .. (i - 1) = DOMAIN timesToWakeAt
    BY <1>3 DEF EndConvert
  <2>2. Lists(DOMAIN timesToWakeAt) /\ (AllFull => ListsOnly(DOMAIN timesToWakeAt))
    BY <1>3, <2>1 DEF EndConvert
  <2> QED
    BY <1>3, <2>2 DEF EndConvert, Lists, ListsOnly, AllFull, AlarmIsNextWake, FullTimesAreKept
<1>4. CASE Sort
  BY <1>4, SortStep
<1>5. CASE TooEarly \/ SuspendUntilToday \/ SuspendUntilTomorrow \/ SuspendForADay
  BY <1>5, SearchStep DEF TooEarly, SuspendUntilToday, SuspendUntilTomorrow, SuspendForADay
<1>6. CASE SuspendTheMachine
  BY <1>6 DEF SuspendTheMachine, Lists, ListsOnly, AlarmIsNextWake, FullTimesAreKept
<1>7. CASE UNCHANGED vars
  BY <1>7 DEF vars, Lists, ListsOnly, AllFull, AlarmIsNextWake, FullTimesAreKept, WakeMinutes, Later
<1> QED
  BY <1>1, <1>2, <1>3, <1>4, <1>5, <1>6, <1>7 DEF Next

(* The inductive invariant holds: the list under construction holds every  *)
(* full time passed, and only configured times if all of them are full.    *)
THEOREM Invariance == Spec => []IInv
BY InitOK, InvStep, PTL DEF Spec

(* Manager::suspendTheMachine always sets the alarm to the next configured *)
(* time, whatever the times are and in whatever order they are listed.     *)
THEOREM AlarmCorrect == Spec => []AlarmIsNextWake
<1>1. IInv => AlarmIsNextWake
  BY DEF IInv
<1> QED
  BY <1>1, Invariance, PTL

(* No full time later today is slept through, whatever is read of others.  *)
THEOREM FullTimesKept == Spec => []FullTimesAreKept
<1>1. IInv => FullTimesAreKept
  BY DEF IInv
<1> QED
  BY <1>1, Invariance, PTL

=============================================================================
