CONSTANTS
  Providers = {p1, p2}
  Values = {v1, v2}
  Unset = Unset
  Absent = Absent
  Callers = {c1}
  MaxRequests = 4
SPECIFICATION Spec
PROPERTY ImplementsRegistry
CHECK_DEADLOCK FALSE
