\* One partition, three cards one after the other, a stranger's node with
\* the same number, slow devices, commands that fail, one restart of the
\* monitor.
SPECIFICATION Spec
CONSTANTS
  SdNames    <- OnePartition
  Strangers  <- OneStranger
  Number     <- NumberOf
  MaxCards   = 3
  MaxStrange = 2
  MaxKills   = 1
  SlowNodes  = TRUE
  MayFail    = TRUE
INVARIANTS
  MountsMatch
PROPERTIES
  UnmountedIsRemounted
  Settles
\* When no more cards come the monitor waits in read for good.
CHECK_DEADLOCK FALSE
