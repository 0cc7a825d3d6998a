CONSTANTS
  w1 = w1
  w2 = w2
  w3 = w3
  p1 = p1
  p2 = p2
  Workers = {w1, w2, w3}
  Processes = {p1, p2}
  ProcessOf <- TwoProcesses
  LeaseKeys = {k1}
  FlightKeys = {f1, f2}
  NoLease = NoLease
  NoWorker = NoWorker
  Duration = 0
  MaxTime = 1
  MaxTries = 2
SPECIFICATION FairSpec
INVARIANT ExclusiveUnlessOverrun
INVARIANT LeaseBacksProbe
PROPERTY TakeoverOnlyAfterExpiry
PROPERTY EveryCallReturns
CHECK_DEADLOCK FALSE
