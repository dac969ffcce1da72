\* The monitor of the modem and two programs that reset and dial; or two
\* threads that send commands to a Lynq modem which answers in time; or two
\* programs that ping; or two that configure the Ethernet interface.
SPECIFICATION MCSpec
CONSTANTS
  Monitor   = monitor
  Resetters = {p1, p2}
  Failures  = 2
  Threads  = {daemon, other}
  Process <- InOneProcess
  Nobody   = Nobody
  Ops     <- LockedOps
  Quectel  = FALSE
  Echoes   = TRUE
  Slow     = FALSE
  MaxOps   = 1
  Pingers   = {"a", "b"}
  Id       <- IdZero
  Local     = {"b"}
  Times     = 2
  Queue     = 1
  OnTheWay  = 1
  Configurers = {"a", "b"}
  Addresses   = {"a1", "a2"}
  Masks       = {"m"}
  Gateways    = {"g"}
  NoAddress   = "none"
  Classful    = "classful"
  NetFailures = 1
INVARIANTS
  LeftOffOnlyByFailure
  CountedAnswered
  Settled
  OwnAnswer
  OkMeansDone
PROPERTIES
  Heals
  RadioBack
  Returns
\* Each thread sends the commands of so many operations.
CHECK_DEADLOCK FALSE
