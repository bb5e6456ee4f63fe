SPECIFICATION Spec
CONSTANTS
  Symbols = {"A", "B"}
  None = None
  Jobs <- MCJobs
  MaxOrders = 8
INVARIANTS
  EngineTypeOK
  NoOrderIsLost
  FillsAtNextBar
  AccountsBalance
  RerunsAreIdentical
  StrategiesAreInStep
  LimitsHoldForFills
PROPERTIES
  OrdersHaveOneLife
  OnlyLaterFillsRaise
  ReducersPassLimits
  EveryRunEnds
\* An engine that was run as often as its job allows is left alone.
CHECK_DEADLOCK FALSE
