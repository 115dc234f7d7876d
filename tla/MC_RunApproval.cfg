SPECIFICATION ApprovalSafety
CONSTANTS
  Slot = {d1}
  Canceller = {k1}
  MaxDeliveries = 2
  MaxFaults = 1
  Gates = {TRUE}
  Call = {c1}
  Decider = {a1}
SYMMETRY Symmetry
CONSTRAINT FaultOrCancel
CHECK_DEADLOCK FALSE
INVARIANTS
  AllowedOnlyApproved
  ApprovalSettled
