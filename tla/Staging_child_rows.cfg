SPECIFICATION StagingSpec
CONSTANTS
  Null = Null
  Nobody = Nobody
  Unscanned = Unscanned
  Backfill = Backfill
  Files <- HistoryFiles
  Page <- HistoryPage
  TenantOrder <- TwoTenants
  Instances = {}
  Threads = {w1}
CHECK_DEADLOCK FALSE
INVARIANT
  BackfillLinesNewest
