SPECIFICATION Spec
CONSTANTS
  k1 = k1
  NoKey = NoKey
  Keys <- OneKey
  Room <- OneOrNone
  MaxCrashes = 1
  MaxRetries = 0
INVARIANT NeverBlindlyRepeated
