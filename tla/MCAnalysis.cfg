SPECIFICATION ASpec
CONSTANTS
  A = A
  b = b
  Names <- Both
  Capitalised <- JustA
  Widths = {1, 3}
  MaxWidth = 2
  Profiles <- Files
INVARIANTS
  ConstWidthsExact
  ErrorTypesReported
  WalkOK
  UsesFindDeclarations
  ConstantsProtected
CHECK_DEADLOCK FALSE
