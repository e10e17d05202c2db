SPECIFICATION SmokeSpec
CONSTANTS
    c1 = c1
    s1 = s1
    a1 = a1
    h1 = h1
    h2 = h2
    x1 = x1
    x2 = x2
    Contexts <- MCContexts
    Streams <- MCStreams
    Allocations <- MCAllocations
    CtxHandles <- MCCtxHandles
    KidHandles <- MCKidHandles
    Foreign <- MCForeign
    MaxStack = 6
    None = None
INVARIANTS
    ImageOutlivesResources
    CompleteMeansClean
