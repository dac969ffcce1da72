\* Patches and power losses.
SPECIFICATION Spec
CONSTANTS
  MaxTries = 2
  Mask     <- DefaultMask
  Items    <- ItemsOfA
  Patches  <- ItemsOfA
  OldMode  = "retry"
  NewMode  = "retry"
  IoErrors = FALSE
INVARIANTS
  PatchRecoverable
