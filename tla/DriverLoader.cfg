SPECIFICATION Spec
CONSTANTS
    NumCandidates = 2
    Images = {i1, i2}
    Outside = Outside
    MaxChanges = 1
    None = None
CHECK_DEADLOCK FALSE
INVARIANTS
    TypeOK
    FirstUsableWins
    MappedWasReviewed
    ReasonWasTrue
PROPERTIES
    LoadReturns
