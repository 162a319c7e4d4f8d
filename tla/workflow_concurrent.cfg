SPECIFICATION Spec
CONSTANTS
  Devices = {d1}
  Gateway = gw
  Threads = {t1, t2}
  MaxRuns = 2
  MaxPlacements = 3
  Segments = 1
  SingleOperator = FALSE
SYMMETRY ThreadSymmetry
INVARIANTS
  OnePlacementOpen
PROPERTIES
  ImplementsFieldLog
