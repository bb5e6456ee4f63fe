SPECIFICATION SchedulerSpec
CONSTANTS
  Ids = {1, 2, 3, 4}
  Prices = {1}
  MaxQuantity = 4
  None = None
  ZeroId = 0
  SequenceBound = 6
  Requests <- MCRequests
  ModifyRequests = {}
  Parents = {"p1", "p2"}
  Offers <- MCOffers
  Observations <- MCObservations
  Given <- MCGiven
  Horizon = 2
  CatchUp = TRUE
  ChildType = "Limit"
  OtherIds = {4}
  OtherQuantities = {4}
  Volumes = {3}
INVARIANTS
  SummaryAddsUp
  LifecycleOK
PROPERTIES
  EveryAdvanceReturns
