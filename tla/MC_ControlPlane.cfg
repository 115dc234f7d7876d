SPECIFICATION ControlSpec
CONSTANTS
  Kinds = {"preview", "eval", "deployment", "quality"}
  Job = {j1, j2}
  Single = j1
  Controller = {c1, c2}
  Client = {u1, u2}
  First = u1
  Second = u2
  MaxRequests = 1
  MaxFaults = 1
  MaxAttempts = 2
  Cases = 1
  Version = {v1, v2}
  NoVersion = NoVersion
CONSTRAINT Bound
CHECK_DEADLOCK FALSE
INVARIANTS
  PreviewsAccounted
  PassedMeansEveryCase
  DeploymentsApplyOnce
  RoutesResolve
PROPERTIES
  JobsEnd
