\* The data of the modem, whose answers may fail.
SPECIFICATION Spec
CONSTANTS
  Threads  = {daemon}
  Process <- InOneProcess
  Nobody   = Nobody
  Ops     <- InfoOnly
  Quectel  = TRUE
  Echoes   = TRUE
  Slow     = FALSE
  MaxOps   = 1
INVARIANTS
  InfoComplete
CHECK_DEADLOCK FALSE
