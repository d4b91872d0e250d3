CONSTANTS
    Creates = {n1}
    Commits = {c1}
    Sets = {s1, s2}
    Recalcs = {r1}
    MaxCalls = 3
    Key = {k1}
    Foreign = app
    None = None
SPECIFICATION FairSpec
INVARIANTS
    AnsweredOnce
    NoStagingLeft
PROPERTIES
    EditsStay
    CallsEnd
CHECK_DEADLOCK FALSE
