CONSTANTS
  MaxOps = 2
  Tagging = {TRUE, FALSE}
  None = None
SPECIFICATION FairSpec
INVARIANTS
  NoLiveOrphan
  CompletedHasRow
PROPERTIES
  SourceIsRetired
  CompletedIsFinal
  TaggedSettles
  RowsFollow
CHECK_DEADLOCK FALSE
