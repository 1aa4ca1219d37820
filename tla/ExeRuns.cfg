CONSTANTS
  Teams = {t1, t2}
  Users = {u1}
  Home = t1
  MaxSubs = 2
  MaxKeys = 2
  MaxCalls = 2
  MaxMoves = 1
  MaxFaults = 1
  None = None
SPECIFICATION FairSpec
INVARIANTS
  OneRunPerTeam
  RequestsRunOnce
  AttemptsAreTrue
PROPERTIES
  WritesOneVerdict
  SubmissionsAreSettled
CHECK_DEADLOCK FALSE
