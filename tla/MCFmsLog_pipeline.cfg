CONSTANTS
  Printers = {p1, p2}
  MaxLines = 3
  QueueMax = 2
  PopMax = 2
  PageSize = 1
  FileCapacity = 2
  Capacity = 3
  KeepTime = 2
  DayLength = 2
  MaxTime = 2
SPECIFICATION Spec
CHECK_DEADLOCK FALSE
INVARIANTS SyncNotStranded LinesInOrder FolderInUseUntouched FileSizeBounded ServiceSound
PROPERTIES TakenLinesAreStored RemovedIsPacked AcceptedLinesPrinted
