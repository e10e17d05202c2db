SPECIFICATION Spec
CONSTANTS
    None = None
    Bytes <- MCBytes
    MaxReportBytes = 1200
    Versions <- MCVersions
    Counts <- MCCounts
    Names <- MCNames
    Majors <- MCMajors
    Minors <- MCMinors
    MaxDevices = 2
CHECK_DEADLOCK FALSE
INVARIANTS
    ReportIsRead
    CompleteIsWhole
    AdmittedIffUsable
    ParsedConstructs
