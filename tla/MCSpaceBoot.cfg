SPECIFICATION Spec
CONSTANTS
  Windows = {0, 9}
  NUM_SLOTS = 2
  SlotSize = 10
  Files <- OnDisk
  WALKDIR_MAX_ENTRIES = 2
  FileOptions <- ByName
  SlotArgs = {1}
  FromArgs = {0, 2}
  CrcOptions = {TRUE, FALSE}
  Times = {257}
  Delivery = {TRUE, FALSE}
  SelfReboots = TRUE
  KnownParams = {{0}}
INVARIANTS CrcSuccessMeansProgrammed  OfferedFits SwitchBoots
CHECK_DEADLOCK FALSE
