CONSTANTS
  w1 = w1
  w2 = w2
  w3 = w3
  p1 = p1
  p2 = p2
  Workers = {w1, w2, w3}
  Processes = {p1, p2}
  ProcessOf <- TwoProcesses
  LeaseKeys = {k1, k2}
  FlightKeys = {f1}
  NoLease = NoLease
  NoWorker = NoWorker
  Duration = 1
  MaxTime = 1
  MaxTries = 1
SPECIFICATION Spec
INVARIANT FlightsAreRequestSpecific
CHECK_DEADLOCK FALSE
