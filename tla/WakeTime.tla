------------------------------ MODULE WakeTime ------------------------------
(***************************************************************************)
(* How long the machine is suspended for: Manager::suspendTheMachine turns *)
(* the configured wake times into minutes of the day, sorts them and picks *)
(* the first one after the current minute, or the first one of tomorrow,   *)
(* or 24 hours from now.                                                   *)
(*                                                                         *)
(* A wake time is the pair of parts around its colon, a number or Empty:   *)
(* "7:30" is <<7, 30>> and ":30" is <<Empty, 30>>, which isValidTime takes *)
(* for 0:30.                                                               *)
(***************************************************************************)
EXTENDS Integers, Sequences, Functions

CONSTANTS
  Hours, MinutesInHour,  \* 24 and 60, less for TLC
  Empty,                 \* the part of a time that is not there
  Candidates,            \* times the configuration file may hold
  Garbage,               \* numbers atoi may read past the end of splitTime
  MaxTimes               \* bound: wake times in the file

TotalMinutesInDay == Hours * MinutesInHour
MinutesOfDay == 0 .. (TotalMinutesInDay - 1)

ASSUME WakeTimeAssumption ==
  /\ Hours \in Nat \ {0}
  /\ MinutesInHour \in Nat \ {0}
  /\ Empty \notin Int
  /\ Candidates \subseteq ((Nat \union {Empty}) \X (Nat \union {Empty}))
  /\ Garbage \subseteq Int /\ Garbage # {}
  /\ MaxTimes \in Nat

-----------------------------------------------------------------------------
(* The configuration.                                                      *)

\* strtol of a part: nothing is zero.
Number(part) == IF part = Empty THEN 0 ELSE part

IsValidTime(time) ==
  /\ Number(time[1]) < Hours
  /\ Number(time[2]) < MinutesInHour

Accepted == {time \in Candidates : IsValidTime(time)}

\* The minute of the day that an accepted time names.
MinuteOf(time) == Number(time[1]) * MinutesInHour + Number(time[2])

\* What convertTimeToMinutes may return: nothing for ":" and, for a time
\* with one part only, an hour and whatever lies behind the split string.
Converted(time) ==
  IF Empty \notin {time[1], time[2]} THEN {MinuteOf(time)}
  ELSE {hour * MinutesInHour + beyond :
          hour \in {time[1], time[2]} \ {Empty}, beyond \in Garbage}

-----------------------------------------------------------------------------

VARIABLES
  timesToWakeAt,  \* m_timesToWakeAt
  now,            \* currentTimeInMinutes
  pc,             \* "convert", "sort", "search", "asleep" or "crashed"
  i,              \* the index of the loop the thread is in
  suspendUpTo,    \* the wake times in minutes
  sleepFor        \* what rtcwake is given, in minutes

vars == <<timesToWakeAt, now, pc, i, suspendUpTo, sleepFor>>

TypeOK ==
  /\ timesToWakeAt \in Seq(Accepted)
  /\ now \in MinutesOfDay
  /\ pc \in {"convert", "sort", "search", "asleep", "crashed"}
  /\ i \in Nat \ {0}
  /\ suspendUpTo \in Seq(Int)
  /\ sleepFor \in Int

Init ==
  /\ \E n \in 0 .. MaxTimes : timesToWakeAt \in [1 .. n -> Accepted]
  /\ now \in MinutesOfDay
  /\ pc = "convert"
  /\ i = 1
  /\ suspendUpTo = <<>>
  /\ sleepFor = 0

\* One round of the first loop; a time that is not converted is left out.
Convert ==
  /\ pc = "convert"
  /\ i <= Len(timesToWakeAt)
  /\ i' = i + 1
  /\ LET minutes == Converted(timesToWakeAt[i])
     IN  \/ minutes = {} /\ UNCHANGED suspendUpTo
         \/ \E m \in minutes : suspendUpTo' = Append(suspendUpTo, m)
  /\ UNCHANGED <<timesToWakeAt, now, pc, sleepFor>>

\* Reading past the end of splitTime may also end the program.
ReadPastEnd ==
  /\ pc = "convert"
  /\ i <= Len(timesToWakeAt)
  /\ LET time == timesToWakeAt[i] IN (time[1] = Empty) # (time[2] = Empty)
  /\ pc' = "crashed"
  /\ UNCHANGED <<timesToWakeAt, now, i, suspendUpTo, sleepFor>>

EndConvert ==
  /\ pc = "convert"
  /\ i > Len(timesToWakeAt)
  /\ pc' = "sort"
  /\ UNCHANGED <<timesToWakeAt, now, i, suspendUpTo, sleepFor>>

Sorted(s) == \A j, k \in DOMAIN s : j < k => s[j] <= s[k]

\* A slip: the list keeps the order of the configuration.
SortNothing ==
  /\ pc = "sort"
  /\ pc' = "search"
  /\ i' = 1
  /\ UNCHANGED <<timesToWakeAt, now, suspendUpTo, sleepFor>>

Sort ==
  /\ pc = "sort"
  /\ \E order \in Bijection(DOMAIN suspendUpTo, DOMAIN suspendUpTo) :
       suspendUpTo' = [j \in DOMAIN suspendUpTo |-> suspendUpTo[order[j]]]
  /\ Sorted(suspendUpTo')
  /\ pc' = "search"
  /\ i' = 1
  /\ UNCHANGED <<timesToWakeAt, now, sleepFor>>

\* The minutes from now to the next minute 'until' of a day.
SuspendUntil(until) ==
  /\ sleepFor' = IF now < until THEN until - now
                 ELSE until + (TotalMinutesInDay - now)
  /\ pc' = "asleep"
  /\ UNCHANGED <<timesToWakeAt, now, i, suspendUpTo>>

\* A slip: a time in the next minute is skipped too.
TooEarlyByOne ==
  /\ pc = "search"
  /\ i <= Len(suspendUpTo)
  /\ now + 1 >= suspendUpTo[i]
  /\ i' = i + 1
  /\ UNCHANGED <<timesToWakeAt, now, pc, suspendUpTo, sleepFor>>

TooEarly ==
  /\ pc = "search"
  /\ i <= Len(suspendUpTo)
  /\ now >= suspendUpTo[i]
  /\ i' = i + 1
  /\ UNCHANGED <<timesToWakeAt, now, pc, suspendUpTo, sleepFor>>

SuspendUntilToday ==
  /\ pc = "search"
  /\ i <= Len(suspendUpTo)
  /\ now < suspendUpTo[i]
  /\ SuspendUntil(suspendUpTo[i])

\* A slip: tomorrow's last time.
SuspendUntilTomorrowsLast ==
  /\ pc = "search"
  /\ i > Len(suspendUpTo)
  /\ suspendUpTo # <<>>
  /\ SuspendUntil(suspendUpTo[Len(suspendUpTo)])

SuspendUntilTomorrow ==
  /\ pc = "search"
  /\ i > Len(suspendUpTo)
  /\ suspendUpTo # <<>>
  /\ SuspendUntil(suspendUpTo[1])

SuspendForADay ==
  /\ pc = "search"
  /\ suspendUpTo = <<>>
  /\ SuspendUntil(now)

\* rtcwake returned; the manager calls suspendTheMachine again, some time.
SuspendTheMachine ==
  /\ pc = "asleep"
  /\ pc' = "convert"
  /\ now' \in MinutesOfDay
  /\ i' = 1
  /\ suspendUpTo' = <<>>
  /\ sleepFor' = 0
  /\ UNCHANGED timesToWakeAt

Next ==
  \/ SuspendTheMachine
  \/ Convert \/ ReadPastEnd \/ EndConvert \/ Sort
  \/ TooEarly \/ SuspendUntilToday \/ SuspendUntilTomorrow \/ SuspendForADay

Spec == Init /\ [][Next]_vars

-----------------------------------------------------------------------------
Full(time) == Empty \notin {time[1], time[2]}
AllFull == \A k \in DOMAIN timesToWakeAt : Full(timesToWakeAt[k])

WakeMinutes == {MinuteOf(timesToWakeAt[k]) : k \in DOMAIN timesToWakeAt}

\* The minute of the day after so many minutes.
Later(minutes) == (now + minutes) % TotalMinutesInDay

(* If every configured time has both its parts, the alarm set by           *)
(* Manager::suspendTheMachine goes off at one of them, within a day and    *)
(* never at once, and the machine sleeps through no other before it;       *)
(* without a configured time it goes off after a day.                      *)
AlarmIsNextWake ==
  pc = "asleep" /\ AllFull =>
    /\ sleepFor \in 1 .. TotalMinutesInDay
    /\ IF timesToWakeAt = <<>> THEN sleepFor = TotalMinutesInDay
       ELSE Later(sleepFor) \in WakeMinutes
    /\ \A earlier \in 1 .. (sleepFor - 1) : Later(earlier) \notin WakeMinutes

(* A configured time that has both its parts and comes later on the same   *)
(* day is not slept through, even if what other times of the list are read *)
(* as is anybody's guess (convertTimeToMinutes, Manager::suspendTheMachine:*)
(* sort, then the first time after now).                                   *)
FullTimesAreKept ==
  pc = "asleep" =>
    \A k \in DOMAIN timesToWakeAt :
      LET time == timesToWakeAt[k]
      IN  Full(time) /\ now < MinuteOf(time) => sleepFor <= MinuteOf(time) - now

\* Nothing but these times is in the list.
ListsOnly(times) ==
  \A j \in DOMAIN suspendUpTo : \E k \in times :
    suspendUpTo[j] = MinuteOf(timesToWakeAt[k])

(* The minutes that a time is converted to are the ones it names, and the  *)
(* conversion never ends the program, for every time that isValidTime lets *)
(* through: its comment says "time is of format 'int:int'", and            *)
(* convertTimeToMinutes takes splitTime[1] for the minutes.                *)
AcceptedTimesConvert ==
  /\ pc # "crashed"
  /\ pc = "convert" => ListsOnly(1 .. (i - 1))

-----------------------------------------------------------------------------
(* The inductive form.                                                     *)

\* The full ones of these times are in the list.
Lists(times) ==
  \A k \in times : Full(timesToWakeAt[k]) =>
    \E j \in DOMAIN suspendUpTo : suspendUpTo[j] = MinuteOf(timesToWakeAt[k])

ListInv ==
  /\ pc = "convert" =>
       /\ i <= Len(timesToWakeAt) + 1
       /\ Lists(1 .. (i - 1))
       /\ AllFull => ListsOnly(1 .. (i - 1))
  /\ pc \in {"sort", "search"} =>
       /\ Lists(DOMAIN timesToWakeAt)
       /\ AllFull => ListsOnly(DOMAIN timesToWakeAt)
  /\ pc = "search" =>
       /\ Sorted(suspendUpTo)
       /\ \A j \in DOMAIN suspendUpTo : j < i => suspendUpTo[j] <= now

IInv == TypeOK /\ (AllFull => pc # "crashed") /\ ListInv /\ AlarmIsNextWake /\ FullTimesAreKept

=============================================================================
