----------------------------- MODULE MCReadings -----------------------------
(***************************************************************************)
(* ReadingsHistory with an idle_time_threshold and an idle_load_threshold  *)
(* for the CPU, device 1, and for the disk, device 2.                      *)
(***************************************************************************)
EXTENDS ReadingsHistory

IdleTimes == [d \in 1 .. NumDevices |-> IF d = 1 THEN 0 ELSE 1]

Thresholds == [d \in 1 .. NumDevices |-> IF d = 1 THEN 60 ELSE 50]

=============================================================================
