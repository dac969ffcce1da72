\* A patch update after a power loss.
SPECIFICATION FairSpec
CONSTANTS
  MaxTries = 2
  Mask     <- DefaultMask
  Items    <- ItemsOfA
  Patches  <- ItemsOfA
  OldMode  = "retry"
  NewMode  = "retry"
  IoErrors = FALSE
PROPERTIES
  UpdateCompletes
