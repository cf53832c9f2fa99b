SPECIFICATION FairStagingSpec
CONSTANTS
  Null = Null
  Nobody = Nobody
  Unscanned = Unscanned
  Backfill = Backfill
  Files <- HistoryFiles
  Page <- HistoryPage
  TenantOrder <- TwoTenants
  Instances = {}
  Threads = {w1, w2}
CHECK_DEADLOCK FALSE
INVARIANTS
  StagingTypeOK
  OwnSchema
  BackfillHeadersNewest
PROPERTIES
  BackfillEnds
  ImplementsTables
