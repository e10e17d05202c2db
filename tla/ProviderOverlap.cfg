SPECIFICATION FairSpec
CONSTANTS
    t1 = t1
    t2 = t2
    t3 = t3
    Threads <- MCThreads3
    Requests <- MCOneRequest
    WellFormed <- MCOneRequest
    Hosts <- MCUnsteadyHosts
    MinDriver = 12000
    MinToolkit <- MCMinToolkit
    MaxGen = 3
    NoRequest = NoRequest
    NoToolkit = NoToolkit
INVARIANTS
    AuthorityIsNewest
    AttemptsAreDistinct
    ContributionBacked
PROPERTIES
    ImplementsAuthority
    CallsReturn
    SuccessIsGranted
