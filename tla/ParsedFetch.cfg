SPECIFICATION ParsedSpec
CONSTANTS
  Paths = {"page", "offset", "single"}
  Raw = FALSE
  Remotes <- MCRemotes
  PageSize = 2
  MaxRecord = 6
  MaxPages = 3
  Faults = {"not_json", "no_array", "unnumbered", "not_modified", "past_end"}
  Calls <- MCCalls
  Orgs <- MCOrgs
  DateOf <- MCDateOf
  ModifiedOf <- MCModifiedOf
  Unknown = Unknown
  Unbounded = Unbounded
CHECK_DEADLOCK FALSE
INVARIANTS
  ParsedTypeOK
  HealthyUnlessMisread
  NoRecordTwice
  CapMeansFull
  BusinessWindowExact
  ModifiedWindowExact
