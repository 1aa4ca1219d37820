CONSTANTS
  MaxOps = 2
  Tagging = {TRUE}
  None = None
SPECIFICATION Spec
PROPERTY RecoveryOnlyReads
CHECK_DEADLOCK FALSE
