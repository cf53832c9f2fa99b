SPECIFICATION LayersSpec
CONSTANTS
  r1 = r1
  r2 = r2
  Records = {1, 2}
  DateOf <- MCDateOf
  Readers = {r1, r2}
  Layers = {"incremental", "open-sweep", "rolling-full"}
  WindowDays = 1
  TightDays = 1
  MaxQueue = 1
  MaxStarts = 1
  MaxTime = 2
  MaxVersion = 2
  NoRead = NoRead
INVARIANTS
  LayersTypeOK
  NoChangeMissed
  SweepRepairs
  RollingRepairs
SYMMETRY Symmetry
CHECK_DEADLOCK FALSE
