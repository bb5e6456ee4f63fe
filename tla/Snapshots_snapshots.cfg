SPECIFICATION Spec
CONSTANTS
  None = None
  Missing = Missing
  Malformed = Malformed
  Blank = Blank
  Infinite = Infinite
  Symbols = {1, 2}
  Epsilon <- MCEpsilon
  Sources <- MCSources
CHECK_DEADLOCK FALSE
INVARIANTS
  LoadedFramesAreValid
  RiskNumbersAgree
  SnapshotsReconcile
