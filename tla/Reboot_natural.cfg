SPECIFICATION Spec
CONSTANTS
  admin = admin
  Manager = Manager
  Devices <- OneDevice
  Callers <- ManagerOnly
  MaxCommands = 2
  MaxBoots = 3
  MaxTrouble = 1
INVARIANT SuccessIsPostDispatch
CHECK_DEADLOCK FALSE
