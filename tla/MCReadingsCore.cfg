SPECIFICATION SpecRH
CONSTANTS
  NumDevices = 2
  SpinDown = {2}
  Readable = {1, 2}
  IdleTime <- IdleTimes
  Minute = 2
  Window = 1
  Suspending = TRUE
  MaxLag = 1
  MaxSpin = 1
  MaxAge = 2
  MaxUse = 7
  Recorded = {2}
  Disks = {2}
  Cores = 2
  Threshold <- Thresholds
  Grain = 2
  Half = 5
PROPERTY LoadIsTheMachines
