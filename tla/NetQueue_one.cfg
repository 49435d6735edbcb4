SPECIFICATION FairSpec
CONSTANTS
  k1 = k1
  NoKey = NoKey
  Keys <- OneKey
  Room <- OneOrNone
  MaxCrashes = 2
  MaxRetries = 2
INVARIANTS TypeOK RepeatNeedsLostEntry AcceptedIsKept
PROPERTIES KeepsPromise AcceptedIsHandled
