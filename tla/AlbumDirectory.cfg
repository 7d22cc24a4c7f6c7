\* Up to two files, in three folders to be scanned and two to be skipped.
SPECIFICATION Spec
CONSTANTS
  DayFolder <- MCDayFolder
  Name <- MCName
  MaxFiles = 2
  Flags <- MCFlags
  MaxEntries = {0, 1, 2}
INVARIANTS
  ReportedOnce
  RoomIsRespected
  ScanIsComplete
