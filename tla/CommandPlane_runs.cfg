SPECIFICATION Spec
CONSTANTS
  c1 = c1
  NoCommand = NoCommand
  Commands <- OneCommand
  MaxRuns = 2
  MaxFaults = 0
  Timer = TRUE
  Cancels = FALSE
  Deadlines = FALSE
  DeliveryLimit = 16
INVARIANTS LaterRunsCount SuccessHasItsRun
