SPECIFICATION Spec
CONSTANTS
  N = 2
  Schedules <- BothOrders
  Bounds <- LongBounds
  Plans = {4, 12}
  Poll = 3
  Grpc = 1
  Late = 1
  MaxRuns = 2
  Horizon = 6
  MaxTime = 30
  Phases = FALSE
  Failures = FALSE
INVARIANTS
  DriftBounded
  LastSegmentMeasured
  StatsFollowTheSweep
  EndsOnTime
  ProfileMatchesSegment
CHECK_DEADLOCK FALSE
