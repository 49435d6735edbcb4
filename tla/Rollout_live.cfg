SPECIFICATION FairSpec
CONSTANTS
  d1 = d1
  d2 = d2
  d3 = d3
  d4 = d4
  op = op
  NoDevice = NoDevice
  Devices <- FourDevices
  Phase <- CanaryAndTwoWaves
  Phased = TRUE
  ThresholdCount = 2
  ThresholdPercent = 100
  Operators = {}
  Requests = {}
  MaxRequests = 0
  Faults = {}
  MaxFaults = 0
  MaxSyncs = 2
  Overlap = FALSE
INVARIANTS WaveAfterGate SuccessIsConvergence PlanDivides PlanIsGradual
PROPERTY Concludes
CHECK_DEADLOCK FALSE
