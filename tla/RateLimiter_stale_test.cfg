SPECIFICATION LimiterSpec
CONSTANTS
  t1 = t1
  t2 = t2
  c1 = c1
  c2 = c2
  c3 = c3
  c4 = c4
  c5 = c5
  Tenants = {t1, t2}
  Callers = {c1, c2, c3, c4, c5}
  TenantOf <- MCTenantOf
  MAX_CONCURRENT_PER_TENANT = 3
  PROACTIVE_THROTTLE_THRESHOLD = 1
  Quotas = {0, 1, 2}
  NoQuota = NoQuota
INVARIANT
  CapRespected
