SPECIFICATION Spec
CONSTANTS
  Ids = {o1, o2, o3}
  Prices = {1, 2}
  MaxQuantity = 3
  None = None
  ZeroId = ZeroId
  SequenceBound = 4
  RequestQuantities = {2}
  Sizes = {1, 3}
  Requests <- MCRequests
  ModifyRequests <- MCModifyRequests
INVARIANTS
  BookInvariant
PROPERTIES
  OnlyOverflowStrands
  EveryCallReturns
\* The null level's dereference ends the process.
CHECK_DEADLOCK FALSE
