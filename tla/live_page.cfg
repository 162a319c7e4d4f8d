SPECIFICATION FairSpec
CONSTANTS
  Ingest = ingest
  Publishers = {ingest, api}
  Clients = {c1, c2}
  None = none
  Capacity = 1
  MaxPublished = 2
  MaxFailures = 1
INVARIANTS
  NothingSkipped
  QuietIsFresh
PROPERTIES
  SurveyNeverGoesBack
  SurveyCatchesUp
CHECK_DEADLOCK FALSE
