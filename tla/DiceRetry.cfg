CONSTANTS
  LegacyKeys = {legacy}
  MaxKeys = 2
  MaxThrows = 3
  MaxPurges = 1
SPECIFICATION FairSpec
INVARIANTS
  ThrowsOncePerKey
  OneResultPerKey
  ResultKeptUntilSeen
  LandsOncePerThrow
PROPERTY RequestIsServed
CHECK_DEADLOCK FALSE
