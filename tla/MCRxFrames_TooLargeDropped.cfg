\* Frames of two or three symbols, of which three are too many.
CONSTANTS
    FRAMES = 3
    NSYMS = {2, 3}
    MAX_SYM = 2
    CAPACITY = 2
    LTF1 = 2
    SIG = 1
    AFTER = 1
    GARBAGE <- GarbageValues
    UNINITIALISED = {0}
    LEAVES <- LeavingFrames
SPECIFICATION Spec
\* Reception ends after the last frame.
CHECK_DEADLOCK FALSE
INVARIANT TooLargeDropped
