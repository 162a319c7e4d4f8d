SPECIFICATION Spec
CONSTANTS
  Columns = {c1, c2}
  Legacy = {1, 2}
  LegacyEnded = {1}
  MaxRuns = 4
  MaxWal = 6
  MaxBackfills = 2
INVARIANTS
  ServesMigrated
  BackfillComplete
  EventsHaveTheirRows
