SPECIFICATION MCSpec
CONSTANTS
  Process = {p1, p2}
  Key = {k1, k2}
  Content = {c1, c2}
  None = None
  Frames = {c1, c2, c3}
  Views = {orders, trades}
  Hash <- MCHash
  Times = {0, 1}
  Never = 9
  c3 = c3
  MaxCalls = 4
  MaxOps = 4
  MaxChanges = 1
  Names = {n1, n2}
  Half = Half
  MaxCreates = 3
  MaxEdits = 1
SYMMETRY Symmetry
INVARIANTS
  RowsAreWhole
  HandlesAreTrue
  RemoteAnswersAreTrue
PROPERTIES
  ImplementsManagedTarget
CHECK_DEADLOCK FALSE
