SPECIFICATION CaseSpec
CONSTANTS
  MaxTotal = 7
  MaxSlices = 4
  MaxLength = 6
  MaxWeight = 3
  Buckets = 3
INVARIANTS
  SlicesAddUp
  SlicesFollowShape
\* The largest case is the last.
CHECK_DEADLOCK FALSE
