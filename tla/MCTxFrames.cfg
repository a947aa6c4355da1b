\* Messages that are no PDU, fit at every MCS, or do not fit at MCS 10.
CONSTANTS
    MSGS = 3
    SIZES = {0, 2, 3}
    NDBPS <- Rates
    MAX_SYM = 2
    MAX_SEED = 2
    CAPACITY = 3
    UNMAPPED = {"QAM64_5_6"}
SPECIFICATION FairSpec
INVARIANTS
    TypeOK
    OneEncodingTag
PROPERTIES
    ImplementsTxQueue
    EverySent
\* The last message has been sent.
CHECK_DEADLOCK FALSE
