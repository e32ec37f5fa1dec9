SPECIFICATION SpecH
CONSTANTS
  NumDevices = 1
  Gating = {1}
  NumClients = 1
  WithPort = {}
  LossyNetwork = FALSE
  CheckIfIdleEvery = 1
  StopMonitoringFor = 1
  ResetMonitoringAfter = 2
  SuspendAfter = 3
  Minute = 2
  OthersSuspend = TRUE
  MaxLag = 1
  MaxAge = 7
PROPERTY SuspendsOnlyAfterIdling
