CONSTANTS
  Releases = {1, 2, 3}
  First = 1
  MaxAttempts = 1
  MaxPreps = 2
  MaxActs = 1
  MaxFaults = 1
SPECIFICATION FairSpec
PROPERTIES
  LaterDecisionWins
  NewestPublicationSurvives
  PublicationsAreDecided
CHECK_DEADLOCK FALSE
