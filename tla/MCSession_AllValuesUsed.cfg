SPECIFICATION MCSpec
CONSTANTS
  None = None
  Room = 2
  Sizes = {1, 3}
  TokenLists <- AnyLists
  ArgLists <- SomeArgs
  Params = {1, 2, 3}
  ReadOnly = {2}
  HwRegs = {3}
  Vals = {1}
  Cells = 4
  Inputs <- AnyInput
  Defined <- Values
  Step = 2
  Vee = Vee
  Dot = Dot
  Plus = Plus
  Big = Big
  Foreign = Foreign
  Wildcard = Wildcard
  NoPart = NoPart
  Tags <- AnyTag
  Operators <- AnyOperator
  Constraints <- AnyConstraint
  Actions = {{"error", "warn"}, {}}
  Dirs = {1, 2, 3}
  Missing = {}
  PathLen <- Lengths
  NameLen = 3
  Natives = {1, 3}
  Pythons = {2}
  Disk0 <- TwoModules
  SysPath <- FirstOnly
  Searches <- SomeSearches
  WALKDIR_MAX_ENTRIES = 2
  MaxInstalls = 2
  MaxListed = 2
INVARIANT AllValuesUsed
CHECK_DEADLOCK FALSE
