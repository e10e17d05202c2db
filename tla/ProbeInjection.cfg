SPECIFICATION Spec
CONSTANTS
    None = None
    Bytes <- MCBytes
    MaxReportBytes = 65536
    Versions <- MCVersions
    Counts <- MCCounts
    Names <- MCNames
    Majors <- MCMajors
    Minors <- MCMinors
    MaxDevices = 2
CHECK_DEADLOCK FALSE
INVARIANTS
    InjectionIsAsStrict
