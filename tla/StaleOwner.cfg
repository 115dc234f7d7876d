SPECIFICATION ExecSafety
CONSTANTS
  Slot = {d1, d2}
  Canceller = {}
  MaxDeliveries = 2
  MaxFaults = 1
CHECK_DEADLOCK FALSE
PROPERTIES
  StaleOwnerRejected
