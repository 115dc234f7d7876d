SPECIFICATION ExecSafety
CONSTANTS
  Slot = {d1, d2}
  Canceller = {k1, k2}
  MaxDeliveries = 2
  MaxFaults = 1
CHECK_DEADLOCK FALSE
INVARIANTS
  OneTerminalEvent
  
