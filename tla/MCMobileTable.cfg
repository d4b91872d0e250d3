SPECIFICATION Spec
CONSTANTS
    r1 = r1
    r2 = r2
    Records = {r1, r2}
    PageOf <- MCPageOf
    Fields = {f1}
    Values = {0, 1}
    MaxCalls = 2
    None = None
    Undefined = Undefined
    MaxLoads = 1
    MaxRefreshes = 1
    MaxEdits = 2
    MaxSaves = 2
    MaxForeign = 1
INVARIANTS
    RowsAreFresh
    EditCommitsOnce
    SpinnerMeansWork
PROPERTIES
    EditsAreKept
CHECK_DEADLOCK FALSE
