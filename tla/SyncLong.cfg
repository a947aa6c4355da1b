CONSTANTS
    SAMPLES_PER_OFDM_SYMBOL = 3
    SAMPLES_PER_GI = 1
    SYNC_LENGTH = 4
    DELAY = 4
    MIN_GAP = 8
    MAX_SAMPLES = 17
    MAX_INPUT = 6
    MAX_OUTPUT = 3
    STREAM = 32
SPECIFICATION FairSpec
INVARIANTS
    TypeOK
    NoThrow
    TagsAligned
    WindowFromTag
    SymbolsIntact
    CompleteUpToDelay
    OneTagPerFrame
    FrequencyOfFrame
CHECK_DEADLOCK FALSE
PROPERTIES FrameAnnounced
