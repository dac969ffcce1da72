\* The registers of the sensor; or the daemon, an application that stops, closes
\* and starts the stream again,
\* and a client of the TCP server that starts it too.
SPECIFICATION MCSpec
CONSTANTS
  Buffers  = {b1, b2}
  Frames   = 2
  Viewers  = {g1}
  Captures = {t1, t2}
  Nothing  = Nothing
  Settings = {"ae_mode", "ag_mode", "gpio1_mode", "trigger_mode", "brightness"}
  Values   = {0, 1, 2}
INVARIANTS
  NoTornPicture
  QuietAfterStop
  ReadsBack
PROPERTIES
  StopReturns
  KeepsDelivering
\* Without viewers, or after an error, everything waits.
CHECK_DEADLOCK FALSE
