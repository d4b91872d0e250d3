CONSTANTS
    Request = {r1, r2, r3}
    Session = {s1}
    Message = {m1, m2}
    MaxMessages = 1
    MaxPending = 2
    Workers = 2
    None = None
SPECIFICATION FairSpec
INVARIANTS
    ResourcesComeBack
    CancelIsFinal
    IdsAreExact
PROPERTY EveryFrameIsAnswered
CHECK_DEADLOCK FALSE
