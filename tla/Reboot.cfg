SPECIFICATION FairSpec
CONSTANTS
  admin = admin
  Manager = Manager
  Devices <- OneDevice
  Callers <- WithAdmin
  MaxCommands = 2
  MaxBoots = 3
  MaxTrouble = 1
INVARIANTS TypeOK OneRebootPerCommand SecondNeedsLostRow CanceledNeverReboots SucceededWasRebooted AnnouncedFirst
PROPERTIES Ended KeepsLifecycle
CHECK_DEADLOCK FALSE
