SPECIFICATION MCSpec
CONSTANTS
  None = None
  DayLen = 4
  Micro = 2
  Months = 12
  MonthDays <- MCMonthDays
  Zone <- MCZone
  Requests <- MCRequests
  Tables <- MCTables
  MaxChanges = 1
  MaxSize = 3
INVARIANT AnswersAreTrue
CHECK_DEADLOCK FALSE
