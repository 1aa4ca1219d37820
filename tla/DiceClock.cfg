CONSTANTS
  CapacityOptions = {1, 2, 4}
  IntervalOptions = {1, 3}
  Adjustments <- MCAdjustments
  MaxOverdue = 12
  MaxChanges = 2
  None = None
SPECIFICATION FairSpec
INVARIANTS
  ClockRunsWhenOwed
PROPERTIES
  RechargeArrives
  PaysOnTime
