SPECIFICATION EventSpec
CONSTANTS
  Writer = {w1, w2}
  Stream = {s1}
  MaxEvents = 4
  MaxFaults = 2
CHECK_DEADLOCK FALSE
INVARIANTS
  ClientsMissNothing
PROPERTIES
  EndReachesClients
