\* Two threads on the line of the chip, or three that publish.
SPECIFICATION MCSpec
CONSTANTS
  Threads = {t1, t2}
  Sigal  <- SigalRegs
  Con    <- ConRegs
  Values = {0, 1}
  None   = None
  Publishers = {p1, p2, p3}
  Control    = control
INVARIANTS
  LineExclusive
  CacheMatchesChip
  PublishExclusive
  PublishesToClient
PROPERTIES
  Returns
\* A context that could not be connected, or both threads in im3332_write_regs.
CHECK_DEADLOCK FALSE
