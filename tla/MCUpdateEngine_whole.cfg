\* Whole partitions of an image with items of both slots, power losses and
\* I/O errors; the new system is built with RETRY_BOOT, the old one with
\* SUCCESSFUL_BOOT.
SPECIFICATION FairSpec
CONSTANTS
  MaxTries = 3
  Mask     <- DefaultMask
  Items    <- ItemsOfBoth
  Patches  = {}
  OldMode  = "success"
  NewMode  = "retry"
  IoErrors = TRUE
INVARIANTS
  SafeToStop
  NoConfusedSlot
  FinishedMeansWritten
PROPERTIES
  RunningSlotUntouched
  UpdateCompletes
  ComesUp
