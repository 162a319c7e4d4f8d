SPECIFICATION FairSpec
CONSTANTS
  Schedule <- TwoSegments
  K = 2
  MaxRuns = 2
  MaxPackets = 5
  MaxQueue = 3
INVARIANTS
  AckedWithinSent
  CsvCoversPackets
  AloneAcksAreTestAcks
  NeverPileUp
  TestCadence
PROPERTY PendingIsResolved
CHECK_DEADLOCK FALSE
