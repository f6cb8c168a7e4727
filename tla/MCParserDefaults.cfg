SPECIFICATION Spec
CONSTANTS
  Scenes <- DefaultScenes
INVARIANT AnglesClose
CHECK_DEADLOCK FALSE
