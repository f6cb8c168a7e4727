SPECIFICATION ASpec
CONSTANTS
  A = A
  b = b
  Names <- Both
  Capitalised <- JustA
  Widths = {1, 3}
  MaxWidth = 2
  Profiles <- UsesOnly
INVARIANT
  UndeclaredUsesReported
CHECK_DEADLOCK FALSE
