SPECIFICATION Spec
CONSTANTS
    t1 = t1
    t2 = t2
    t3 = t3
    Threads <- MCThreads2
    Requests <- MCTwoDevices
    WellFormed <- MCWellFormed
    Hosts <- MCHosts
    MinDriver = 12030
    MinToolkit <- MCRaisedToolkit
    MaxGen = 2
    NoRequest = NoRequest
    NoToolkit = NoToolkit
SYMMETRY SymmetricThreads
INVARIANTS
    TypeOK
    ReadyWasObservable
