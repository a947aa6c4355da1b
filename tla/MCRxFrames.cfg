\* Frames of one to three symbols, of which three are too many.
CONSTANTS
    FRAMES = 3
    NSYMS = {1, 2, 3}
    MAX_SYM = 2
    CAPACITY = 1
    LTF1 = 2
    SIG = 1
    AFTER = 2
    GARBAGE <- GarbageValues
    UNINITIALISED = {0, 2}
    LEAVES <- LeavingFrames
SPECIFICATION Spec
INVARIANTS
    TypeOK
    WholeFramePublished
    OwnMetadata
    TagsOnFirstSymbol
    OwnChannel
    AtMostOneStray
\* Reception ends after the last frame.
CHECK_DEADLOCK FALSE
