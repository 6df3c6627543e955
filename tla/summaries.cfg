SPECIFICATION Spec
CONSTANTS
  v1 = v1
  v2 = v2
  None = None
  Text <- SomeText
  Reports <- SomeReports
  MaxReports = 3
  MaxCommands = 1
INVARIANTS
  TypeOK
  SummaryTells
  SingleLinesSurvive
  FileUpToDate
CHECK_DEADLOCK FALSE
