CONSTANTS
  MaxStarts = 2
  MaxLines = 2
  BUFFER_SIZE = 3
  LineLens = {1, 2}
  PortOptions = {0, 9000}
  UserOptions = {FALSE}
SPECIFICATION FairSpec
INVARIANTS TypeOK MutexInv NothingLost BufferFits 
PROPERTIES Implements FrozenWhilePushing Delivery StopEndsThreads
CHECK_DEADLOCK FALSE
