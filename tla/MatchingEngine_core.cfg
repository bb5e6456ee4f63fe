SPECIFICATION Spec
CONSTANTS
  Ids = {o1, o2, o3}
  Prices = {1, 2}
  MaxQuantity = 9
  None = None
  ZeroId = ZeroId
  SequenceBound = 5
  RequestQuantities = {1, 2}
  Sizes = {1, 2, 3}
  Requests <- MCRequests
  ModifyRequests <- MCModifyRequests
INVARIANTS
  TypeOK
  ValidateInvariants
  FillsAreTrades
  OneMapPerId
PROPERTIES
  HistoryIsFinal
  ImplementsPriceTimePriority
SYMMETRY Symmetry
