SPECIFICATION StagingSpec
CONSTANTS
  i1 = i1
  i2 = i2
  Null = Null
  Nobody = Nobody
  Unscanned = Unscanned
  Backfill = Backfill
  Files <- EventFiles
  Page <- EventPage
  TenantOrder <- TwoTenants
  Instances = {i1, i2}
  Threads = {}
CHECK_DEADLOCK FALSE
INVARIANTS
  OneRowUnlessRaced
  OkMeansStaged
