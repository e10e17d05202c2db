SPECIFICATION Spec
CONSTANTS
    Trees <- MCTrees
    Documents <- MCDocuments
    MaxChanges = 1
CHECK_DEADLOCK FALSE
INVARIANTS
    RaisesOnlyProbeErrors
