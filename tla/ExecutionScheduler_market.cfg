SPECIFICATION SchedulerSpec
CONSTANTS
  Ids = {1, 2, 3, 4}
  Prices = {1, 2}
  MaxQuantity = 4
  None = None
  ZeroId = 0
  SequenceBound = 6
  Requests <- MCRequests
  ModifyRequests = {}
  Parents = {"p1", "p2"}
  Offers <- MCOffers
  Observations <- MCObservations
  Given <- MCGiven
  Horizon = 2
  CatchUp = TRUE
  ChildType = "Market"
  OtherIds = {4}
  OtherQuantities = {1, 4}
  Volumes = {1, 3}
INVARIANTS
  ShortfallIsPaperDifference
PROPERTIES
  LastSliceCatchesUp
  NoChildIsOvertaken
  EndIsFinal
  WorksTheParents
