SPECIFICATION Spec
CONSTANTS
  Threads = {t1, t2}
  Devices = {d1}
  Profiles = {adr, sf12}
  Adr = adr
  MaxFaults = 1
  MaxAttempts = 2
  MaxDownlinks = 1
INVARIANTS
  RejectionsAreExplained
  EditsSurvive
  NothingTwice
  LabelIsTheProfile
CHECK_DEADLOCK FALSE
SYMMETRY Interchangeable
