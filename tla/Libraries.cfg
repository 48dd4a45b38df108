CONSTANTS
  Callers = {c1, c2}
  MaxCalls = 3
  FirstYear = 1970
  LastYear = 2125
  Hours = {0, 7, 8, 15, 16, 23}
  TextBytes = {0, 1, 2, 3, 4, 7}
  MaxText = 5
  FrameBytes = {0, 1, 128, 255}
  MaxFrame = 3
  FileChars = {"k", "v", "=", "#", "SP", "CR", "LF"}
  MaxFile = 6
SPECIFICATION Spec
CHECK_DEADLOCK FALSE
INVARIANTS HandlesSound PoolSound CalendarSound TextsSound ChecksumIsModbus ConfigSound
