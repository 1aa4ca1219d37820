CONSTANTS
  MaxTeam = 3
  MaxChallenge = 1
  Processes = {p1}
  Scorings <- NinthOfTen
  Digits = 3
SPECIFICATION Spec
INVARIANT MinimumAtDecay
