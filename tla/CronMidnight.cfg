CONSTANTS
  Minute = 2
  Hour = 4
  Day = 12
  Week = 3
  MonthStart <- MCMonthStart
  Cycle = 32
  MonthLimit = 4
  Year = 2
  ScanYears = 2
  Zones <- MCMidnight
  Texts <- MCHourTexts
  Starts <- MCStarts
  Rounds = 2
SPECIFICATION Spec
PROPERTY NextReturns
\* Parse may refuse the expression, and the last Next returns.
CHECK_DEADLOCK FALSE
