SPECIFICATION FairSpec
CONSTANTS
  WeekDays = 2
  DayMinutes = 3
  HorizonDays = 2
  g = g
  Devices <- ThreeDevices
  Phase <- TwoCanaries
  Groups <- OneGroup
  GroupsOf <- TwoInGroup
  Policies <- NightAndOff
  FirstPolicies <- SomeSettings
  Soak = 2
  MaxTrouble = 1
INVARIANTS
  TypeOK
  NextAfterSoak
  InWindow
  DispatchedWhole
  WindowsMeanCovered
  ReportedOpening
PROPERTIES
  Concludes
CHECK_DEADLOCK FALSE
