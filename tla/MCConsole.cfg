SPECIFICATION MCSpec
CONSTANTS
  SIZE = 4
  Chunk = 2
  MaxChars = 5
  MaxLosses = 2
  MaxSessions = 2
  MaxStarts = 2
  MaxLines = 4
  QueueLength = 1
  ErrorLimit = 1
  Numbered = 2
  Named = 1
  MaxText = 3
  MaxLogs = 4
INVARIANTS UnreadIntact ShownInOrder  LogsKept
PROPERTIES AllShown StopRestoresStdout
CONSTRAINT Sequential
CHECK_DEADLOCK FALSE
