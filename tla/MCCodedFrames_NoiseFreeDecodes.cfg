CONSTANTS
  FRAMES <- MCCleanFrames
  MAX_FRAMES = 2
  WINDOW = 420
  LEFT = {0}
SPECIFICATION Spec
CHECK_DEADLOCK FALSE
INVARIANT NoiseFreeDecodes
