SPECIFICATION Spec
CONSTANTS
  Scenes <- WildcardScenes
INVARIANT WildcardArms
CHECK_DEADLOCK FALSE
