CONSTANTS
  MaxTeam = 2
  MaxChallenge = 2
  Processes = {p1, p2}
  Scorings <- MCScorings
  Digits = 3
SPECIFICATION Spec
INVARIANTS
  StandingsFollowSolves
  PeriodAwardedOnce
  CyclesAreKnown
SYMMETRY Interchangeable
