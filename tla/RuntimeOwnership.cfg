SPECIFICATION Spec
CONSTANTS
    c1 = c1
    c2 = c2
    s1 = s1
    a1 = a1
    h1 = h1
    h2 = h2
    x1 = x1
    x2 = x2
    f1 = f1
    Contexts <- MCContexts
    Streams <- MCStreams
    Allocations <- MCAllocations
    CtxHandles <- MCCtxHandles
    KidHandles <- MCKidHandles
    Foreign <- MCForeign
    MaxStack = 3
    None = None
SYMMETRY SymmetricNames
INVARIANTS
    TypeOK
    NeverMisused
    Owned
    ContextsReleased
    ChildrenReleased
PROPERTIES
    StackRestored
