SPECIFICATION FairSpec
CONSTANTS
  Client = {p1, p2}
  Key = {k1, k2}
  Content = {c1, c2}
  None = None
  MaxCrashes = 1
INVARIANTS
  DataIsKept
  ReceiptsAreTrue
  TemporariesReclaimed
PROPERTIES
  ImplementsTarget
  LockReleased
