SPECIFICATION Spec
CONSTANTS
  Devices = {d1, d2}
  Gateway = gw
  Threads = {t1}
  MaxRuns = 2
  MaxPlacements = 3
  Segments = 2
  SingleOperator = TRUE
SYMMETRY DeviceSymmetry
INVARIANTS
  LogAccountsForRuns
  OneRunningRun
  RunsMeasureWhereTheyAre
