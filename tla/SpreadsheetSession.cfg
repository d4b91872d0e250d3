CONSTANTS
    Thread = {t1, t2, t3}
    MaxEdits = 4
    MaxSends = 2
    None = None
SPECIFICATION FairSpec
INVARIANTS
    AtMostOnce
    AnswersAreTrue
PROPERTIES
    NothingIsDropped
    SessionIsFreed
CHECK_DEADLOCK FALSE
