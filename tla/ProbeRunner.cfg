SPECIFICATION FairSpec
CONSTANTS
    MaxBytes = 3
    Chunk = 3
    MaxWritten = 6
CHECK_DEADLOCK FALSE
INVARIANTS
    TypeOK
    ParsedIsComplete
    VerdictJustified
    NoCloseUnderReader
    Released
PROPERTIES
    RunReturns
