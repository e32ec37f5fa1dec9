SPECIFICATION SpecH
CONSTANTS
  NumDevices = 3
  Gating = {1, 3}
  NumClients = 2
  WithPort = {1}
  LossyNetwork = FALSE
INVARIANT IInv
PROPERTY ScanIsRegular ProbeIsRegular
