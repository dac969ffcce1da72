\* The capture thread that video_daemon.c starts, the GStreamer reader and a
\* TCP client whose send may fail.
SPECIFICATION FairSpec
CONSTANTS
  MaxBuffers = 3
  Producers  = {p1}
  GstReaders = {g1}
  TcpReaders = {n1}
  Pictures   = {1, 2}
  NoPicture  = NoPicture
  NoFrame    = NoFrame
INVARIANTS
  ExclusiveOwnership
  Conservation
  NoLostWakeup
  NoBlankPicture
PROPERTIES
  ImplementsChannel
  PictureDelivered
\* Once failing sends have leaked every frame, all threads wait.
CHECK_DEADLOCK FALSE
