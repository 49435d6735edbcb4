SPECIFICATION Spec
CONSTANTS
  c1 = c1
  NoCommand = NoCommand
  Commands <- OneCommand
  MaxRuns = 1
  MaxFaults = 1
  Timer = TRUE
  Cancels = TRUE
  Deadlines = TRUE
  DeliveryLimit = 16
INVARIANTS TypeOK AcceptedIsDurable QueuedIsUntouched
PROPERTY KeepsLifecycle
