SPECIFICATION SystemSpecH
CONSTANTS
  NumDevices = 1
  Gating = {1}
  NumClients = 1
  WithPort = {}
  LossyNetwork = FALSE
  CheckIfIdleEvery = 1
  StopMonitoringFor = 1
  ResetMonitoringAfter = 2
  SuspendAfter = 2
  Minute = 1
  OthersSuspend = TRUE
  MaxLag = 0
  MaxAge = 2
  SpinDown = {1}
  Readable = {1}
  IdleTime <- Thresholds
  Window = 1
  DeviceLag = 0
  MaxSpin = 0
  MaxDeviceAge = 2
  MaxUse = 6
INVARIANT SystemInv UnusedIsSuspendedInTime
PROPERTY UseKeepsAwake ImplementsDevice UnusedMachineIsSuspended UsedMachineStaysUp FlagFollowsUse
