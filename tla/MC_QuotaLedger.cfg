SPECIFICATION QuotaSafety
CONSTANTS
  a = a
  b = b
  tenant = tenant
  agent = agent
  Run = {a, b}
  Api = {api}
  Worker = {w1, w2}
  Reaper = reaper
  Scope = {tenant, agent}
  ScopesOf <- McScopesOf
  Plan <- McPlan
  Limit = {1, 2, 3}
  NoLimit = NoLimit
  FirstPolicy <- McFirstPolicy
  NewLimits <- McNewLimits
  Usage = {3}
  NoRow = NoRow
  MaxBatch = 1
  MaxMonth = 1
  MaxPolicy = 1
  MaxCrash = 0
SYMMETRY Symmetry
CONSTRAINT RetryOrContention
INVARIANTS
  NotOversold
  AccountedOnce
  EndedRunsHoldNothing
CHECK_DEADLOCK FALSE
