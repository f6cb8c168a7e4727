SPECIFICATION Spec
CONSTANTS
  Texts <- ShortTexts
  Bits = 4
INVARIANTS
  TypeOK
  TokensCoverText
  CommentsNest
  NumbersAsWritten
CHECK_DEADLOCK FALSE
