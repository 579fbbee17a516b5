CONSTANTS
    HEADER_LEN = 1
    FOOTER_TRAILER_LEN = 1
    MaxOffset = 5
    MaxSize = 2
    MaxFile = 7
    MaxRanges = 3
SPECIFICATION Spec
INVARIANTS
    VerdictExact
    EveryByteOwnedOnce
\* The list is bounded.
CHECK_DEADLOCK FALSE
