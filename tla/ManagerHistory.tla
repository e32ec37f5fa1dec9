--------------------------- MODULE ManagerHistory ---------------------------
(***************************************************************************)
(* Manager with the history its promises are about: how long the machine   *)
(* has been quiet, how long it has waited to be suspended, and which       *)
(* clients have been seen away.                                            *)
(***************************************************************************)
EXTENDS Manager

VARIABLES
  quiet,        \* ticks the machine has been awake for since it was disturbed
  waited,       \* the same, since it was disturbed or suspended by others
  interrupted,  \* suspended by others since the idle timer restarted?
  away          \* clients missed by this iteration's probe: unreachable at
                \* some instant of it, or the network lost their answer

varsH == <<vars, quiet, waited, interrupted, away>>

AwayNow == {c \in Mon!Clients : ~Reachable(c)}

InitH == Init /\ quiet = 0 /\ waited = 0 /\ interrupted = FALSE /\ away = {}

\* A stay for clients ends, a check found the machine busy, rtcwake returned.
Disturbed ==
  \/ pc = "online" /\ pc' = "check"
  \/ pc = "decide" /\ pc' # "decide" /\ ~result
  \/ pc = "resumed" /\ pc' = "check"

IdleTimerRestarts == pc # "check" /\ pc' = "check" /\ idleAge' = 0

\* How long a quiet machine can be kept up: the first check that finds it idle
\* may restart the timers for a busy time before, a later one just not find
\* it idle for long enough, and the next one suspends it.
IdleAtMost == IF SuspendAfter > 0 THEN SuspendAfter * Minute - 1 ELSE 0
WaitingTime == CheckPeriod + IdleAtMost + CheckPeriod

\* Counted to one tick past that.
Longer(ticks) == IF ticks > WaitingTime THEN ticks ELSE ticks + 1

RecordQuiet ==
  \/ /\ Tick
     /\ quiet' = Aged(quiet, 1)
     /\ waited' = Longer(waited)
     /\ UNCHANGED interrupted
  \/ /\ SuspendedByOthers
     /\ interrupted' = TRUE
     /\ waited' = 0
     /\ UNCHANGED quiet
  \/ /\ Resume \/ ManagerStep \/ Environment
     /\ quiet' = IF Disturbed THEN 0 ELSE quiet
     /\ waited' = IF Disturbed THEN 0 ELSE waited
     /\ interrupted' = (interrupted /\ ~Disturbed /\ ~IdleTimerRestarts)

RecordAway ==
  away' = IF pc' = "clients"
            THEN AwayNow' \union Lost \union (IF pc = "clients" THEN away ELSE {})
          ELSE IF pc' = "check" THEN {} ELSE away

NextH == RecordQuiet /\ RecordAway

SpecH == InitH /\ [][NextH]_varsH /\ Fairness

Suspends == pc = "decide" /\ pc' = "suspend"

-----------------------------------------------------------------------------
(* The machine is suspended only after suspend_after minutes it was awake  *)
(* for, since the last check that found it busy, the last stay for clients *)
(* and the last suspension (Manager::monitorSystemUsage): whole minutes,   *)
(* and the check that suspends does not count.  A suspension by others in  *)
(* between is beyond the promise: it counts as idle time.                  *)
SuspendsOnlyWhenQuiet ==
  [][Suspends /\ ~interrupted => quiet >= SuspendAfter * Minute]_varsH

(* The same without the exception: "Suspend the machine if it has been     *)
(* idle for more than (x minute)" (Manager::monitorSystemUsage measures    *)
(* idle time with the system clock).                                       *)
SuspendsOnlyAfterIdling ==
  [][Suspends => quiet >= SuspendAfter * Minute]_varsH

(* The other way round: if reset_monitoring_after is longer than a check   *)
(* takes, and some device waits for idleness, the machine is not kept up   *)
(* undisturbed for longer than suspend_after and two checks, whatever the  *)
(* timers stood at before (Manager::monitorSystemUsage: a check that finds *)
(* it idle restarts the timers for an earlier busy time once at most).     *)
SuspendedInTime ==
  Mon!CanBeSuspended /\ ResetMonitoringAfter * Minute > CheckPeriod /\ pc # "online"
    => waited <= WaitingTime

(* The machine is suspended only if every configured client was missed by  *)
(* the probe of the same iteration: it was unreachable at some instant, or *)
(* its own ping or connection was lost (Manager::monitorSystemUsage,       *)
(* Monitor::isIpAddressOnline, which never retries): no answer of an       *)
(* earlier iteration is used, and no loss hides the answer of another      *)
(* client.                                                                 *)
SuspendsOnlyWhenDeserted == [][Suspends => away = Mon!Clients]_varsH

(* The check that suspends the machine has found it idle: what the sample  *)
(* configuration says of no_suspend_if_not_idle, "Machine will not suspend *)
(* if the cpu is busy" (Manager::monitorSystemUsage decides by the timer). *)
SuspendsOnlyIfFoundIdle == [][Suspends => result]_varsH

-----------------------------------------------------------------------------
(* The inductive form.                                                     *)

TypeOKH ==
  /\ TypeOK
  /\ quiet \in 0 .. MaxAge
  /\ waited \in Nat
  /\ interrupted \in BOOLEAN
  /\ away \subseteq Mon!Clients

QuietInv ==
  ~interrupted =>
    /\ asleep => pc = "resumed"
    /\ pc # "resumed" => idleAge <= quiet

\* Ticks this iteration has taken.
Taken == SleepFor(CheckIfIdleEvery) - sleepLeft + lag

PaceInv ==
  /\ pc = "check" => sleepLeft <= SleepFor(CheckIfIdleEvery)
  /\ pc = "online" => sleepLeft <= SleepFor(StopMonitoringFor)
  /\ pc \notin {"check", "online"} => sleepLeft = 0

\* Either no check has found the quiet machine idle yet, or the busy timer
\* restarted with this iteration, and the idle timer at most a check late.
WaitInv ==
  Mon!CanBeSuspended /\ ResetMonitoringAfter * Minute > CheckPeriod /\ pc # "online" =>
    /\ waited <= CheckPeriod + IdleAtMost + Taken
    /\ pc \in {"check", "clients", "scan", "decide"} /\ waited > Taken =>
         /\ ~asleep
         /\ busyAge <= Taken
         /\ idleAge < MaxAge => waited <= idleAge + CheckPeriod

AwayInv ==
  /\ pc = "clients" =>
       /\ AwayNow \subseteq away
       /\ \A c \in Mon!Clients \ away : c < next => result
  /\ pc \in {"scan", "decide"} => away = Mon!Clients

IInv == TypeOKH /\ LoopInv /\ QuietInv /\ PaceInv /\ WaitInv /\ AwayInv

=============================================================================
