SPECIFICATION QueueSpec
CONSTANTS
  Task = {t1, t2}
  Proc = {p1, p2}
  Receipt = {r1, r2, r3, r4}
  NoReceipt = NoReceipt
  MaxCalls = 2
SYMMETRY Symmetry
INVARIANTS
  Conservation
PROPERTIES
  LeaseEndsByItsReceipt
  ImplementsLeaseQueue
