SPECIFICATION Spec
CONSTANTS
  e1 = e1
  e2 = e2
  Evaluations = {e1, e2}
  None = None
  Jobs <- MCJobs
  Bars <- MCBars
  Values <- MCValues
  Capital <- MCCapital
  Backtest <- MCBacktest
  Objective <- MCObjective
CHECK_DEADLOCK FALSE
INVARIANTS
  FoldsAreHonest
  SelectionIsBlind
