CONSTANTS
  Last = 5
  KindOf <- FiveCells
  CellLevel <- OneLevel
  Challenges = {h1, h2}
  LevelOf <- AllOfOneLevel
  Published = {h1, h2}
  Offers = 1
  NoChallenge = NoChallenge
  MaxRolls = 1
  DiceTotals = {1, 2}
  Offsets = {}
  CardKinds = {"RE_ROLL", "ROLL_TWICE_CHOOSE", "FREE_MOVE", "GRANT_EXTRA_ROLL"}
  NoRoll = NoRoll
  MaxCorrections = 2
  DiceAdjustments <- MCAdjustments
SPECIFICATION OperatorSpec
INVARIANTS
  DieLandsOrIsForfeited
  ActiveIsOpened
  PendingCanBeResolved
  ClosedFormAgrees
SYMMETRY Interchangeable
CHECK_DEADLOCK FALSE
