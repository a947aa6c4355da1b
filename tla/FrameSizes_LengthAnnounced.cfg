CONSTANTS MAX_SENT = 1528 BURST_EVERY = 37
SPECIFICATION Spec
INVARIANT LengthAnnounced
CHECK_DEADLOCK FALSE
