SPECIFICATION Spec
CONSTANTS
  d1 = d1
  d2 = d2
  d3 = d3
  d4 = d4
  op = op
  NoDevice = NoDevice
  Devices <- TwoDevices
  Phase <- CanaryAndWave
  Phased = TRUE
  ThresholdCount = 2
  ThresholdPercent = 100
  Operators <- OneOperator
  Requests = {"advance", "dispatch", "retry", "resume", "cancel"}
  MaxRequests = 2
  Faults = {"stop", "deadline", "forget", "unhealthy"}
  MaxFaults = 1
  MaxSyncs = 1
  Overlap = TRUE
CONSTRAINT ThenResume
INVARIANTS TypeOK WaveAfterGate OpenIsTracked EndIsTrue
CHECK_DEADLOCK FALSE
