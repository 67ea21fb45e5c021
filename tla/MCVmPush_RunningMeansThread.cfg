CONSTANTS
  MaxStarts = 2
  MaxLines = 1
  BUFFER_SIZE = 4
  LineLens = {1}
  PortOptions = {0, 9000}
  UserOptions = {FALSE, TRUE}
SPECIFICATION Spec
INVARIANT RunningMeansThread
CHECK_DEADLOCK FALSE
