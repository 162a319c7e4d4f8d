SPECIFICATION Spec
CONSTANTS
  Devices = {d1}
  Strangers = {s1}
  Retention = 2
  TrimEvery = 2
  MaxFrames = 4
  MaxSessions = 2
  MaxRestarts = 1
INVARIANTS
  RetentionBounded
  NewestKept
  CountersAgree
  SurveyIsForeign
CHECK_DEADLOCK FALSE
