----------------------------- MODULE MCWakeTime -----------------------------
(***************************************************************************)
(* WakeTime with a day of a few minutes.                                   *)
(***************************************************************************)
EXTENDS WakeTime

\* Hours and minutes up to the first that is not valid, or missing.
Times == ((0 .. Hours) \union {Empty}) \X ((0 .. MinutesInHour) \union {Empty})

\* Before, in and after the day.
AnyNumber == {-1, 0, TotalMinutesInDay}

=============================================================================
