SPECIFICATION PageSpec
CONSTANTS
  Kinds = {k1, k2}
  Limit = 2
  MaxEvents = 5
  MaxFlight = 2
INVARIANTS
  PagesFitTogether
  NewestAppears
