\* An update with the default mask, power losses and failures anywhere, and
\* a request to wipe the user data at any moment; or an SD card with a script.
SPECIFICATION MCSpec
CONSTANTS
  Mask    <- RecoveryModeMask
  Items   <- FullImage
  Patient = TRUE
  Images    <- CardImages
  ItemsOf   <- CardItems
  LayoutOf  <- CardLayout
  Commented = {"comment"}
  MaxRuns   = 3
INVARIANTS
  AlwaysBoots
  ScriptInstalls
PROPERTIES
  RunningUntouched
  UpdateCompletes
\* A half written boot loader starts nothing.
CHECK_DEADLOCK FALSE
