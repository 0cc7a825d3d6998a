CONSTANTS
  Providers = {p1}
  Sweeps = {"schedule"}
  Tasks = {t1}
  Interval = 1
  MaxAttempts = 2
  MaxFaults = 1
  MaxUpdates = 1
SPECIFICATION FairSpec
PROPERTY UpdatedCredentialIsProbed
PROPERTY SweepsClose
CHECK_DEADLOCK FALSE
