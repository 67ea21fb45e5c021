SPECIFICATION MCSpec
CONSTANTS
  Windows = {0, 1}
  Lengths = {1, 3}
  Answers = {TRUE, FALSE}
  StatWrites = {TRUE, FALSE}
  FileSize = 5
  VMEM_SERVER_MTU = 1
  Nodes = {"5", "6"}
  HostNames = {"obc"}
  UserVars = {"obc"}
  UserValues = {"v"}
  Scripts = {"a.csh", ""}
  DirOf <- Directory
  MaxDepth = 2
  MaxFailures = 1
INVARIANTS  NoHole  FileIsInnermost
CONSTRAINT ShortFile
CHECK_DEADLOCK FALSE
