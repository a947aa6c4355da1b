\* Two samples make a plateau, as in halow_phy_hier; the gap and the longest
\* frame are shortened, the stream holds two longest frames and a start.
CONSTANTS
    MIN_PLATEAU = 2
    MIN_GAP = 4
    MAX_SAMPLES = 9
    STREAM = 20
SPECIFICATION Spec
INVARIANTS
    TypeOK
    CopiedSinceTag
PROPERTIES
    ImplementsFrameStream
    TagOnlyOnPlateau
    NoPlateauDropped
\* The stream is finite: a recording ends.
CHECK_DEADLOCK FALSE
