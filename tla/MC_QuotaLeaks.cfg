SPECIFICATION QuotaSpec
CONSTANTS
  a = a
  b = b
  tenant = tenant
  agent = agent
  Run = {a}
  Api = {api}
  Worker = {w1}
  Reaper = reaper
  Scope = {tenant, agent}
  ScopesOf <- McScopesOf
  Plan <- McPlan
  Limit = {1, 2, 3}
  NoLimit = NoLimit
  FirstPolicy <- McFirstPolicy
  NewLimits <- McNewLimits
  Usage = {0, 3}
  NoRow = NoRow
  MaxBatch = 1
  MaxMonth = 2
  MaxPolicy = 0
  MaxCrash = 1
INVARIANTS
  CountersBalance
PROPERTIES
  ReservationsEnd
CHECK_DEADLOCK FALSE
