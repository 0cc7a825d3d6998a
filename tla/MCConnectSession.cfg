CONSTANTS
  Sessions = {s1, s2}
  Callers = {c1, c2}
  Providers = {p1, p2}
  None = None
  Names = {n1, n2}
  MaxPolls = 4
  MaxRenames = 1
SYMMETRY Symmetry
SPECIFICATION Spec
INVARIANT ConnectedInOrder
INVARIANT RegistersOnceUnlessDisturbed
INVARIANT OpenSessionsAreWatched
PROPERTY RenameKeptUnlessNewer
PROPERTY ConnectionKeptUnlessStale
CHECK_DEADLOCK FALSE
