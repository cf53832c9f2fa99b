SPECIFICATION AccessSpec
CONSTANTS
  Tenants = {"a", "b"}
  Callers = {1, 2, 3}
  TenantOf <- MCTenantOf
  Credentials <- MCCredentials
  Cases <- DefaultDryRun
  Segments <- MCSegments
  WorkDir <- MCWorkDir
  MaxUnits = 2
  Pages = 1
  Lifetime = 3
  RefreshBuffer = 2
  MaxLatency = 1
  MaxTime = 4
  None = None
  MAX_CONCURRENT_PER_TENANT = 2
  PROACTIVE_THROTTLE_THRESHOLD = 0
  Quotas = {0}
  NoQuota = NoQuota
INVARIANTS
  RefusedMeansEscapes
CHECK_DEADLOCK FALSE
