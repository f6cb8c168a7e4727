SPECIFICATION Spec
CONSTANTS
  Widths <- MCWidths
  MaxLines = 4
INVARIANT
  EveryBlockHasContent
CHECK_DEADLOCK FALSE
