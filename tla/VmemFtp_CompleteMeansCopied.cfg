SPECIFICATION FtpSpec
CONSTANTS
  Windows = {0}
  Lengths = {1, 3}
  Answers = {TRUE, FALSE}
  StatWrites = {TRUE, FALSE}
  FileSize = 1
  VMEM_SERVER_MTU = 1
INVARIANT CompleteMeansCopied
CHECK_DEADLOCK FALSE
