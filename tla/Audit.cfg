SPECIFICATION FairSpec
CONSTANTS
  Inodes <- ThreeInodes
  Chunk = 2
  MaxLines = 4
  MaxRotations = 2
  MaxTrouble = 2
INVARIANTS TypeOK AckedIsStored StoredOnce
PROPERTY Collected
CHECK_DEADLOCK FALSE
