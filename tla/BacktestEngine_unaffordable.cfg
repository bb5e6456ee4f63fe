SPECIFICATION Spec
CONSTANTS
  Symbols = {"A", "B"}
  None = None
  Jobs <- SwingJobs
  MaxOrders = 8
INVARIANT UnaffordableFillsAreRejected
\* An engine that was run as often as its job allows is left alone.
CHECK_DEADLOCK FALSE
