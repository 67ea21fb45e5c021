SPECIFICATION FairSpec
CONSTANTS
  QueueCap = 2
  hdx_node = TRUE
  hdx_powerup_delay = 1
  hdx_powerdown_delay = 1
  delay_ms = 1
  Kinds = {"from", "to", "short"}
  MaxPackets = 3
  MaxTime = 4
INVARIANTS Accounted 
PROPERTY DelayedIsSent
CHECK_DEADLOCK FALSE
