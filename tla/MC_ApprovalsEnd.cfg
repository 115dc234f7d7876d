SPECIFICATION ReapedSpec
CONSTANTS
  Slot = {d1}
  Canceller = {}
  MaxDeliveries = 2
  MaxFaults = 1
  Gates = {TRUE, FALSE}
  Call = {c1}
  Decider = {a1}
CONSTRAINT GateOrFault
CHECK_DEADLOCK FALSE
PROPERTIES
  EventuallyTerminal
  ApprovalsClose
