CONSTANTS
  Last = 7
  KindOf <- SevenCells
  CellLevel <- OneLevel
  Challenges = {h1, h2}
  LevelOf <- AllOfOneLevel
  Published = {h1, h2}
  Offers = 2
  NoChallenge = NoChallenge
  MaxRolls = 1
  DiceTotals = {1, 2}
  Offsets <- MCOffsets
  CardKinds = {"RE_ROLL", "ROLL_TWICE_CHOOSE", "MOVE_OFFSET", "FREE_MOVE", "GRANT_EXTRA_ROLL"}
  NoRoll = NoRoll
SPECIFICATION FairSpec
INVARIANTS
  DieLandsOnce
  PendingThrownHere
  ChoiceOwnsPending
  RelandsOnceAtMost
PROPERTIES
  CompletionIsFinal
  IsATour
  EventuallyCompleted
CHECK_DEADLOCK FALSE
