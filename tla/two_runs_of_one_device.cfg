SPECIFICATION Spec
CONSTANTS
  Devices = {d1}
  Gateway = gw
  Threads = {t1, t2}
  MaxRuns = 2
  MaxPlacements = 3
  Segments = 2
  SingleOperator = FALSE
INVARIANT OneRunningRun
