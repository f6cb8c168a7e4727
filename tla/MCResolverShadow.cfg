SPECIFICATION Spec
CONSTANTS
  A = A
  b = b
  Names <- Both
  Capitalised <- JustA
  Widths = {1, 2}
  MaxWidth = 2
  Profiles <- Shadowing
INVARIANT
  WidthsFollowScopes
CHECK_DEADLOCK FALSE
