CONSTANTS
  Last = 5
  KindOf <- FiveCells
  CellLevel <- OneLevel
  Challenges = {h1}
  LevelOf <- AllOfOneLevel
  Published = {h1}
  Offers = 1
  NoChallenge = NoChallenge
  MaxRolls = 2
  DiceTotals = {1, 2}
  Offsets <- MCOffsets
  CardKinds = {"RE_ROLL", "ROLL_TWICE_CHOOSE", "MOVE_OFFSET", "FREE_MOVE", "GRANT_EXTRA_ROLL"}
  NoRoll = NoRoll
SPECIFICATION Spec
INVARIANT StartLandedOnce
CHECK_DEADLOCK FALSE
