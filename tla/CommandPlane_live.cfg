SPECIFICATION FairSpec
CONSTANTS
  c1 = c1
  NoCommand = NoCommand
  Commands <- OneCommand
  MaxRuns = 0
  MaxFaults = 1
  Timer = FALSE
  Cancels = TRUE
  Deadlines = TRUE
  DeliveryLimit = 16
PROPERTY Settles
