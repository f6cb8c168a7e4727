SPECIFICATION Spec
CONSTANTS
  HalfWord = 3
  NameTypes <- Names
  Targets <- Outputs
  Literals = {1}
  Bounds <- Pairs
  MaxSize = 6
INVARIANTS
  ErrorsExplained
  FamiliesKept
  WidthsKept
  FittingAccepted
CHECK_DEADLOCK FALSE
