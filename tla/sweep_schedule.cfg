SPECIFICATION FairSpec
CONSTANTS
  N = 3
  Schedules <- ThreeSFs
  Bounds <- OddBounds
  Plans = {5, 7, 9}
  Poll = 2
  Grpc = 1
  Late = 1
  MaxRuns = 1
  Horizon = 6
  MaxTime = 24
  Phases = TRUE
  Failures = TRUE
INVARIANTS
  NeverAheadOfPlan
  NeverDoneEarly
PROPERTY SweepEnds
CHECK_DEADLOCK FALSE
