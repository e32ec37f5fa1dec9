----------------------------- MODULE MCSspender -----------------------------
(***************************************************************************)
(* SspenderHistory with one idle_time_threshold for every device.          *)
(***************************************************************************)
EXTENDS SspenderHistory

Thresholds == [d \in 1 .. NumDevices |-> 2]

=============================================================================
