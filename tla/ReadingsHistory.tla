--------------------------- MODULE ReadingsHistory ---------------------------
(***************************************************************************)
(* Readings with the history that DeviceHistory records of Device: what is *)
(* said there of the idle flags, checked of threads whose verdicts come    *)
(* from the numbers.                                                       *)
(***************************************************************************)
EXTENDS Readings, DeviceHistory

historyVars == <<useVars, calmVars>>
varsRH == <<varsR, historyVars>>

InitRH == InitR /\ InitH

NextRH ==
  \/ Count /\ RecordTick
  \/ Suspend /\ RecordSuspend /\ UNCHANGED <<work, grown>>
  \/ Resume /\ UNCHANGED <<historyVars, work, grown>>
  \/ \E d \in Devices : ReadingThread(d) /\ RecordThread(d)

SpecRH == InitRH /\ [][NextRH]_varsRH

=============================================================================
