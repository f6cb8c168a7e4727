SPECIFICATION Spec
CONSTANTS
  Scenes <- MCScenes
INVARIANTS
  DelimitersAgree
  BlocksAgree
  TreeIsPrecedence
PROPERTY
  Terminates
CHECK_DEADLOCK FALSE
