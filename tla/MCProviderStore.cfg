CONSTANTS
  Providers = {p1}
  Values = {v1, v2}
  Unset = Unset
  Absent = Absent
  Callers = {c1, c2}
  MaxRequests = 4
SYMMETRY Symmetry
SPECIFICATION Spec
INVARIANT TypeOK
INVARIANT GenerationMarksRow
INVARIANT VersionIdentifiesRow
PROPERTY AtomicUnlessStale
PROPERTY OnlyCreateInserts
CHECK_DEADLOCK FALSE
