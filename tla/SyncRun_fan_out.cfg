SPECIFICATION FairSpec
CONSTANTS
  t1 = t1
  Tenants = {t1}
  Entities <- MCEntities
  KindOf <- MCKindOf
  units <- FanOutUnits
  max_concurrent = 9
  MAX_CONCURRENCY = 2
  MAX_CONCURRENT_PER_TENANT = 2
  PROACTIVE_THROTTLE_THRESHOLD = 0
  Quotas = {0, 1}
  NoQuota = NoQuota
  MAX_ATTEMPTS = 1
  MaxPages = 2
  RemotePages = 2
INVARIANTS
  TypeOK
  ConcurrencyBound
  OneOutcomePerUnit
  PermitsBalanced
  CapNeverBlocks
  SidecarsUsable
  ManifestBacked
  PermitsReturned
PROPERTIES
  ImplementsFanOut
  AppendOnly
  RunEnds
