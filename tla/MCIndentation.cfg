SPECIFICATION Spec
CONSTANTS
  Widths <- MCWidths
  MaxLines = 5
INVARIANTS
  TypeOK
  StackIsOpenLevels
  TokensBalanced
PROPERTIES
  FeedsParser
  ImplementsOffsideRule
CHECK_DEADLOCK FALSE
