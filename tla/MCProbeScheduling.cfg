CONSTANTS
  Providers = {p1}
  Sweeps = {"user"}
  Tasks = {t1, t2}
  Interval = 1
  MaxAttempts = 2
  MaxFaults = 1
  MaxUpdates = 0
SYMMETRY Symmetry
SPECIFICATION Spec
PROPERTY MinimumIntervalKept
PROPERTY NextAllowedAdvances
CHECK_DEADLOCK FALSE
