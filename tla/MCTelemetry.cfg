SPECIFICATION MCSpec
CONSTANTS
  MaxSamples = 4
  BufCells = 3
  Arrives = {TRUE, FALSE}
  Stamps = {1, 2}
  Consumers = {"prometheus", "vm", "vts"}
  Nodes = {1, 2, 3}
  Params = {7}
  MAX_HKS = 2
  Y2020 = 10
  DAY = 2
  HkStamps = {3, 12}
  Values = {14, 19}
  EpochArgs = {9, 12}
  Now0 = 15
  MaxNow = 16
INVARIANTS BufferFits ServedIsWritten  TableRightUnlessRaced TableLegal
PROPERTY AutoSyncNeverBack
CONSTRAINT WithinTable
CHECK_DEADLOCK FALSE
