\* Every MCS with every PSDU mac can build.
CONSTANTS MAX_SENT = 1528 BURST_EVERY = 37
SPECIFICATION Spec
INVARIANTS
    SymbolBufferExact
    DecoderFits
    OnlyLongestRefused
    OnlyLongestCut
    SigErrorsFound
    SymbolsHold
    PilotsExpected
\* There is a largest PSDU.
CHECK_DEADLOCK FALSE
