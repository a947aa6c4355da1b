\* As MCTxFrames.
CONSTANTS
    MSGS = 3
    SIZES = {0, 2, 3}
    NDBPS <- Rates
    MAX_SYM = 2
    MAX_SEED = 2
    CAPACITY = 3
    UNMAPPED = {"QAM64_5_6"}
SPECIFICATION Spec
INVARIANT EveryEncodingSent
CHECK_DEADLOCK FALSE
