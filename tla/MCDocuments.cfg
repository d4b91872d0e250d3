SPECIFICATION MCSpec
CONSTANTS
    Names <- MCNames
    Folded <- MCFolded
    Numbered <- MCNumbered
    Rows <- MCRows
    Columns <- MCColumns
    Areas <- MCAreas
    Contents <- MCContents
    Pictures = {"p"}
    Books <- MCBooks
    SheetLimit = 2
    CellLimit = 5
    PictureLimit = 1
    MaxEdits = 2
    Threads = {t1, t2}
    SheetNames <- MCSheetNames
    Absent = Absent
    Bound <- MCBound
    MaxChanges = 2
    MaxOthers = 1
    Contexts = {main, task, other}
    Root = main
    Tasks = {task}
    TableNames = {"rows"}
    Txs = {x1, x2}
    MaxWrites = 2
    Nothing = Nothing
    Endpoints <- MCEndpoints
    Limits = {0, 2, 3}
    Sizes = {0, 3}
SYMMETRY Symmetry
CHECK_DEADLOCK FALSE
INVARIANTS BookIsSound SheetsAreTheOnesMeant TablesStayTrue WritesAreTrue
PROPERTIES SortsKeepRows ReplaceLeavesNoGap
