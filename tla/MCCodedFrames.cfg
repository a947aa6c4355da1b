CONSTANTS
  FRAMES <- MCFrames
  MAX_FRAMES = 2
  WINDOW = 420
  LEFT = {0}
SPECIFICATION Spec
CHECK_DEADLOCK FALSE
INVARIANTS TypeOK SlicedAsSent DecidesWithinLevel Decodes
