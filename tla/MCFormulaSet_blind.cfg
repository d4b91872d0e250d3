CONSTANTS
  Providers = {"feishu"}
  Callers = {c1, c2}
  Keys = {k1, k2}
  Formulas = {f1, f2}
  None = None
  Limit = 1
  MaxCalls = 3
  MaxForeign = 1
  Subjects = {"sets"}
  GridProviders = {"google", "maybe", "maybe_plain", "excel"}
  FieldProviders = {"maybe", "maybe_unstamped", "feishu", "feishu_named"}
  MaxRecords = 2
  MaxEdits = 2
SPECIFICATION MCSpec
SYMMETRY Symmetry
INVARIANT RefusedWasNotWritten
CHECK_DEADLOCK FALSE
