SPECIFICATION ApprovalSafety
CONSTANTS
  Slot = {d1}
  Canceller = {}
  MaxDeliveries = 2
  MaxFaults = 0
  Gates = {FALSE}
  Call = {c1}
  Decider = {a1}
CHECK_DEADLOCK FALSE
INVARIANTS ResumedRunHasWorker
