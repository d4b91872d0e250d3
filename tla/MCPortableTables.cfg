CONSTANTS
    Call = {c1, c2, c3}
    Table = {json, excel}
    Sheet = {excel}
    Key = {k1, k2}
    Body = {b1, b2}
    Foreign = Foreign
    MaxForeign = 1
    None = None
SPECIFICATION Spec
SYMMETRY Symmetry
INVARIANTS
    AnswersAreTrue
PROPERTIES
    OnlyCreates
CHECK_DEADLOCK FALSE
