SPECIFICATION RawFetchSpec
CONSTANTS
  Paths = {"page", "offset"}
  Raw = TRUE
  Remotes <- MCRemotes
  PageSize = 2
  MaxRecord = 8
  MaxPages = 4
  Faults = {"not_json", "no_array", "unnumbered", "not_modified", "past_end"}
CHECK_DEADLOCK FALSE
INVARIANT
  HealthyMeansComplete
