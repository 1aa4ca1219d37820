CONSTANTS
  Cells = {c1, c2}
  Elsewhere = Elsewhere
  LineOf <- OneLine
  Challenges = {h1, h2}
  Offers = 1
  Users = {u1, u2}
  MaxWrong = 2
  MaxCorrections = 2
  None = None
SPECIFICATION Spec
INVARIANTS
  BonusFollowsLine
  SolvedIsCleared
  OneDiePerChallenge
PROPERTY SolvedByTodaysFlag
SYMMETRY Interchangeable
CHECK_DEADLOCK FALSE
