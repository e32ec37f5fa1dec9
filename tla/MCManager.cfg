SPECIFICATION SpecH
CONSTANTS
  NumDevices = 2
  Gating = {1}
  NumClients = 2
  WithPort = {1}
  LossyNetwork = TRUE
  CheckIfIdleEvery = 1
  StopMonitoringFor = 1
  ResetMonitoringAfter = 2
  SuspendAfter = 3
  Minute = 2
  OthersSuspend = TRUE
  MaxLag = 1
  MaxAge = 6
INVARIANT IInv SuspendedInTime
PROPERTY SuspendsOnlyWhenQuiet SuspendsOnlyWhenDeserted IdleMachineIsSuspended ClientKeepsAwake BusyDeviceKeepsAwake
