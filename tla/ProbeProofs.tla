----------------------------- MODULE ProbeProofs -----------------------------
(***************************************************************************)
(* The parser is at least as strict as the constructors, for every report; *)
(* and for every driver, what the probe reports can be read, is complete   *)
(* only when it is whole, and is admitted exactly when a device will do.   *)
(***************************************************************************)
EXTENDS ProbeInventory, TLAPS

\* A row that parses at an index makes a device record with that ordinal.
LEMMA RowConstructs ==
    \A row, index: RowParses(row, index) => DeviceRecord(row) /\ row.ordinal = index
BY DEF RowParses, DeviceRecord

\* The parser ends by constructing the report: that never fails, so the reason
\* code of a bad report is always that of the check it failed.
THEOREM ParserIsStricter == \A rep: Parses(rep) => Constructs(rep)
<1>1. SUFFICES ASSUME NEW rep, Parses(rep) PROVE Constructs(rep)
      OBVIOUS
<1>2. \A i \in DOMAIN rep.devices:
          DeviceRecord(rep.devices[i]) /\ rep.devices[i].ordinal = i - 1
      BY <1>1, RowConstructs DEF Parses
<1>3. ASSUME rep.status = "probe-complete" PROVE rep.count # 0
  <2>1. rep.count # None /\ Bounded(rep.count, 0, 1024) /\ rep.count >= 1
        BY <1>1, <1>3 DEF Parses, CompleteParses, NumbersInRange
  <2> QED BY <2>1 DEF Bounded
<1> QED BY <1>1, <1>2, <1>3 DEF Parses, Constructs, CompleteParses

\* The invariant of the run probe_inventory, for every driver and every bound.
THEOREM ParsedReportsConstruct == Spec => []ParsedConstructs
<1>1. ParsedConstructs
      BY ParserIsStricter DEF ParsedConstructs
<1> QED BY <1>1, PTL

-----------------------------------------------------------------------------
\* The rows written so far: sanitized names, numbers in range, the next ordinal.
Sanitized == {"plain", "long", "unknown", "drive"}
Rows == [ordinal: 0..1023, name: Sanitized, major: 1..99, minor: 0..99, sm: Seq(Int)]
RowWritten(row, index) == row.ordinal = index /\ row.sm = SmName(row.major, row.minor)

\* The two kinds of reports the probe writes: one of a whole inventory, and one
\* that says why there is none.
Complete ==
    /\ report = Report("probe-complete", None, TRUE, version, count, 0, devices)
    /\ ~ failed /\ count \in 1..1024 /\ Len(devices) = count
Incomplete ==
    /\ report.target = Target[build]
    /\ report.status \in {"unavailable", "unsupported"}
    /\ report.reason # None
    /\ report.version \in {None, version} /\ report.count \in {None, 0}
    /\ report.devices = << >>
    /\ failed \/ ~ Supported(build) \/ count \notin 1..1024 \/ Len(devices) # count

Calls == {"load", "init", "version", "count", "get", "name", "capability"}

TypeInv ==
    /\ build \in DOMAIN Target
    /\ at \in Calls \union {"written"}
    /\ version \in Int /\ count \in Int
    /\ failed \in BOOLEAN /\ altered \in BOOLEAN

InventoryInv ==
    /\ devices \in Seq(Rows)
    /\ \A i \in DOMAIN devices: RowWritten(devices[i], i - 1)
    /\ at \in {"get", "name", "capability"} => count \in 1..1024 /\ Len(devices) < count
    /\ at \in {"load", "init", "version", "count"} => Len(devices) = 0
    /\ at = "capability" => current \in Sanitized

ReportInv ==
    /\ at # "written" => ~ failed /\ ~ altered
    /\ Written => Complete \/ Incomplete

ReportsInv == TypeInv /\ InventoryInv /\ ReportInv

LEMMA ReportsInit == Init => ReportsInv
<1> SUFFICES ASSUME Init PROVE ReportsInv
    OBVIOUS
<1>1. TypeInv
  <2>1. build \in DOMAIN Target /\ at \in Calls /\ version \in Int /\ count \in Int
        BY DEF Init, Calls
  <2>2. failed \in BOOLEAN /\ altered \in BOOLEAN
        BY Zenon DEF Init
  <2> QED BY <2>1, <2>2 DEF TypeInv
<1>2. InventoryInv
      BY DEF Init, InventoryInv
<1>3. ReportInv
      BY DEF Init, ReportInv, Written
<1> QED BY <1>1, <1>2, <1>3 DEF ReportsInv

\* What the steps that write no report, and those that write one, leave true.
LEMMA Continues ==
    ASSUME ReportsInv, at \in Calls, at' \in Calls, TypeInv', InventoryInv',
           UNCHANGED <<failed, altered>>
    PROVE  ReportsInv'
<1>1. "written" \notin Calls
      BY DEF Calls
<1> QED BY <1>1 DEF ReportsInv, ReportInv, Written

LEMMA FailureWritten ==
    ASSUME ReportsInv, at \in Calls, NEW reason \in Reasons, NEW loaded, NEW n \in {None, 0},
           NEW v \in {None, version}, NEW result,
           at' = "written", report' = Report("unavailable", reason, loaded, v, n, result, << >>),
           failed' \/ count' \notin 1..1024 \/ Len(devices) # count',
           failed' \in BOOLEAN, count' \in Int,
           UNCHANGED <<build, version, devices, altered>>
    PROVE  ReportsInv'
<1>1. Incomplete'
      BY ValuesAssumption DEF Incomplete, Report
<1>2. TypeInv' /\ InventoryInv'
      BY DEF ReportsInv, TypeInv, InventoryInv, Calls
<1> QED BY <1>1, <1>2 DEF ReportsInv, ReportInv

LEMMA SmNameType ==
    ASSUME NEW major \in Int, NEW minor \in Int PROVE SmName(major, minor) \in Seq(Int)
<1>1. \A n \in Int: Decimal(n) \in Seq(Int)
      BY DEF Decimal
<1> QED BY <1>1 DEF SmName

\* A row is appended with its ordinal, and the last one completes the report.
LEMMA RowAppended ==
    ASSUME ReportsInv, CuDeviceComputeCapability PROVE ReportsInv'
<1>1. /\ at = "capability" /\ at \in Calls
      /\ UNCHANGED <<build, version, count, failed, altered>>
      /\ current \in Sanitized
      /\ devices \in Seq(Rows)
      BY DEF CuDeviceComputeCapability, Calls, ReportsInv, InventoryInv
<1> DEFINE n == Len(devices)
<1>2. n \in Nat /\ count \in 1..1024 /\ n < count
      BY DEF CuDeviceComputeCapability, ReportsInv, InventoryInv
<1>3. PICK major \in Majors, minor \in Minors:
         IF major \notin 1..99 \/ minor \notin 0..99
         THEN /\ Return(Unavailable("INVALID_COMPUTE_CAPABILITY", TRUE))
              /\ UNCHANGED devices
         ELSE LET rows == Append(devices, [ordinal |-> Len(devices), name |-> current,
                                           major |-> major, minor |-> minor,
                                           sm |-> SmName(major, minor)])
              IN /\ devices' = rows
                 /\ IF LastDevice(rows)
                    THEN Return(Report("probe-complete", None, TRUE, version, count, 0, rows))
                    ELSE Continue("get")
      BY DEF CuDeviceComputeCapability
<1>4. CASE major \notin 1..99 \/ minor \notin 0..99
  <2>1. /\ at' = "written"
        /\ report' = Report("unavailable", "INVALID_COMPUTE_CAPABILITY", TRUE, None, None, None, << >>)
        /\ devices' = devices
        BY <1>3, <1>4 DEF Unavailable, Return
  <2>2. count' \in Int /\ Len(devices) # count'
        BY <1>1, <1>2
  <2>3. failed' \in BOOLEAN
        BY <1>1, Zenon DEF ReportsInv, TypeInv
  <2>4. "INVALID_COMPUTE_CAPABILITY" \in Reasons
        BY DEF Reasons
  <2>5. None \in {None, 0} /\ None \in {None, version}
        OBVIOUS
  <2> QED BY <1>1, <2>1, <2>2, <2>3, <2>4, <2>5, FailureWritten, Zenon
<1>5. CASE major \in 1..99 /\ minor \in 0..99
  <2> DEFINE row == [ordinal |-> Len(devices), name |-> current, major |-> major,
                     minor |-> minor, sm |-> SmName(major, minor)]
             rows == Append(devices, row)
  <2>1. /\ devices' = rows
        /\ IF LastDevice(rows)
           THEN Return(Report("probe-complete", None, TRUE, version, count, 0, rows))
           ELSE Continue("get")
        BY <1>3, <1>5
  <2>2. n \in 0..1023
    <3> HIDE DEF n
    <3> QED BY ONLY <1>2
  <2>3. row \in Rows /\ RowWritten(row, Len(devices))
    <3>1. SmName(major, minor) \in Seq(Int)
          BY <1>5, SmNameType
    <3> QED BY <1>1, <1>5, <2>2, <3>1 DEF Rows, RowWritten
  <2>4. /\ rows \in Seq(Rows)
        /\ Len(rows) = Len(devices) + 1
        /\ \A i \in DOMAIN rows: RowWritten(rows[i], i - 1)
    <3> HIDE DEF row
    <3>1. rows \in Seq(Rows) /\ Len(rows) = Len(devices) + 1
          BY <1>1, <2>3
    <3>2. ASSUME NEW i \in DOMAIN rows PROVE RowWritten(rows[i], i - 1)
      <4>1. CASE i = Len(devices) + 1
        <5>1. rows[i] = row
              BY <1>1, <2>3, <4>1
        <5>2. i - 1 = Len(devices)
              BY <1>2, <4>1
        <5> QED BY <2>3, <5>1, <5>2
      <4>2. CASE i # Len(devices) + 1
        <5>1. i \in DOMAIN devices /\ rows[i] = devices[i]
              BY <1>1, <2>3, <3>1, <4>2
        <5> QED BY <5>1 DEF ReportsInv, InventoryInv
      <4> QED BY <4>1, <4>2
    <3> QED BY <3>1, <3>2
  <2>5. TypeInv /\ ReportInv
        BY DEF ReportsInv
  <2> HIDE DEF rows
  <2>6. CASE LastDevice(rows)
    <3>1. /\ at' = "written"
          /\ report' = Report("probe-complete", None, TRUE, version, count, 0, rows)
          BY <2>1, <2>6 DEF Return
    <3>2. Len(rows) = count
          BY <2>6 DEF LastDevice
    <3>3. Complete'
      <4>1. ~ failed
            BY <1>1, <2>5 DEF ReportInv
      <4> QED BY <1>1, <1>2, <2>1, <3>1, <3>2, <4>1 DEF Complete, Report
    <3>4. TypeInv'
          BY <1>1, <2>5, <3>1 DEF TypeInv
    <3>5. InventoryInv'
          BY <2>1, <2>4, <3>1 DEF InventoryInv
    <3> QED BY <3>1, <3>3, <3>4, <3>5 DEF ReportsInv, ReportInv
  <2>7. CASE ~ LastDevice(rows)
    <3>1. at' = "get"
          BY <2>1, <2>7 DEF Continue
    <3>2. Len(rows) < count
          BY <1>2, <2>4, <2>7 DEF LastDevice
    <3>3. TypeInv'
          BY <1>1, <2>5, <3>1 DEF TypeInv, Calls
    <3>4. InventoryInv'
          BY <1>1, <1>2, <2>1, <2>4, <3>1, <3>2 DEF InventoryInv
    <3> QED BY <1>1, <3>1, <3>3, <3>4, Continues DEF Calls
  <2> QED BY <2>6, <2>7
<1> QED BY <1>4, <1>5

\* The calls before the first device, and the two ahead of each row.
LEMMA CallAnswered ==
    ASSUME ReportsInv, CuInit \/ CuDriverGetVersion \/ CuDeviceGet \/ CuDeviceGetName
    PROVE  ReportsInv'
<1>1. /\ at \in Calls /\ at' \in Calls
      /\ UNCHANGED <<build, count, devices, failed, altered>>
      BY DEF CuInit, CuDriverGetVersion, CuDeviceGet, CuDeviceGetName, Continue, Calls
<1>2. version' \in Int
      BY ValuesAssumption
         DEF CuInit, CuDriverGetVersion, CuDeviceGet, CuDeviceGetName, ReportsInv, TypeInv
<1>3. TypeInv'
      BY <1>1, <1>2 DEF ReportsInv, TypeInv
<1>4. InventoryInv'
  <2>1. CASE CuInit \/ CuDriverGetVersion
        BY <1>1, <2>1 DEF CuInit, CuDriverGetVersion, Continue, ReportsInv, InventoryInv
  <2>2. CASE CuDeviceGet
        BY <1>1, <2>2 DEF CuDeviceGet, Continue, ReportsInv, InventoryInv
  <2>3. CASE CuDeviceGetName
    <3>1. current' \in Sanitized
          BY <2>3, ValuesAssumption DEF CuDeviceGetName, Sanitize, Sanitized, NameKinds
    <3> QED BY <1>1, <2>3, <3>1 DEF CuDeviceGetName, Continue, ReportsInv, InventoryInv
  <2> QED BY <2>1, <2>2, <2>3
<1> QED BY <1>1, <1>3, <1>4, Continues

LEMMA Counted == ASSUME ReportsInv, CuDeviceGetCount PROVE ReportsInv'
<1>1. /\ at = "count" /\ at \in Calls
      /\ count' \in Int
      /\ UNCHANGED <<build, version, devices, failed, altered>>
      BY ValuesAssumption DEF CuDeviceGetCount, Calls
<1>2. failed' \in BOOLEAN
      BY <1>1, Zenon DEF ReportsInv, TypeInv
<1>3. "INVALID_DEVICE_COUNT" \in Reasons /\ "NO_CUDA_DEVICES" \in Reasons
      BY DEF Reasons
<1>4. /\ None \in {None, 0} /\ 0 \in {None, 0}
      /\ None \in {None, version} /\ version \in {None, version}
      OBVIOUS
<1>5. CASE count' \notin 0..1024
  <2>1. /\ at' = "written"
        /\ report' = Report("unavailable", "INVALID_DEVICE_COUNT", TRUE, None, None, None, << >>)
        BY <1>5 DEF CuDeviceGetCount, Unavailable, Return
  <2>2. count' \notin 1..1024
        BY <1>5
  <2> QED BY <1>1, <1>2, <1>3, <1>4, <2>1, <2>2, FailureWritten, Zenon
<1>6. CASE count' = 0
  <2>1. /\ at' = "written"
        /\ report' = Report("unavailable", "NO_CUDA_DEVICES", TRUE, version, 0, 0, << >>)
        BY <1>6 DEF CuDeviceGetCount, Return
  <2>2. count' \notin 1..1024
        BY <1>6
  <2> QED BY <1>1, <1>2, <1>3, <1>4, <2>1, <2>2, FailureWritten, Zenon
<1>7. CASE count' \in 1..1024
  <2>1. at' = "get"
    <3>1. count' \in 0..1024 /\ count' # 0
          BY <1>7
    <3> QED BY <3>1 DEF CuDeviceGetCount, Continue
  <2>2. TypeInv'
        BY <1>1, <2>1 DEF ReportsInv, TypeInv, Calls
  <2>3. InventoryInv'
        BY <1>1, <1>7, <2>1 DEF ReportsInv, InventoryInv
  <2> QED BY <1>1, <2>1, <2>2, <2>3, Continues DEF Calls
<1> QED BY <1>1, <1>5, <1>6, <1>7

\* A driver that is not there, a target without one, a call that fails.
LEMMA GivenUp == ASSUME ReportsInv, Load \/ Unsupported \/ CallFails PROVE ReportsInv'
<1>1. /\ at \in Calls
      /\ UNCHANGED <<build, version, count, devices, altered>>
      BY DEF Load, Unsupported, CallFails, Calls
<1>2. count' \in Int
      BY <1>1 DEF ReportsInv, TypeInv
<1>3. "NOT_LOADED" \in Reasons /\ "CALL_FAILED" \in Reasons /\ "UNSUPPORTED_TARGET" \in Reasons
      BY DEF Reasons
<1>4. None \in {None, 0} /\ None \in {None, version}
      OBVIOUS
<1>5. CASE Load
  <2>1. CASE at' = "init" /\ UNCHANGED failed
    <3>1. TypeInv'
          BY <1>1, <2>1 DEF ReportsInv, TypeInv, Calls
    <3>2. InventoryInv'
          BY <1>1, <1>5, <2>1 DEF Load, ReportsInv, InventoryInv
    <3> QED BY <1>1, <2>1, <3>1, <3>2, Continues DEF Calls
  <2>2. ASSUME NEW loaded, failed' = TRUE, at' = "written",
               report' = Report("unavailable", "NOT_LOADED", loaded, None, None, None, << >>)
        PROVE  ReportsInv'
        BY <1>1, <1>2, <1>3, <1>4, <2>2, FailureWritten, Zenon
  <2> QED BY <1>5, <2>1, <2>2 DEF Load, Continue, Return, Unavailable
<1>6. CASE Unsupported
  <2>1. /\ at' = "written" /\ UNCHANGED <<failed, current>>
        /\ report' = [Report("unsupported", "UNSUPPORTED_TARGET", FALSE, None, None, None, << >>)
                        EXCEPT !.supported = FALSE]
        /\ ~ Supported(build)
        BY <1>6 DEF Unsupported, Return
  <2>2. Incomplete'
        BY <1>1, <1>3, <2>1, ValuesAssumption DEF Incomplete, Report
  <2>3. TypeInv' /\ InventoryInv'
        BY <1>1, <2>1 DEF ReportsInv, TypeInv, InventoryInv
  <2> QED BY <2>1, <2>2, <2>3 DEF ReportsInv, ReportInv
<1>7. CASE CallFails
  <2>1. /\ at' = "written"
        /\ report' = Report("unavailable", "CALL_FAILED", TRUE, None, None, Error, << >>)
        /\ failed' = TRUE
        BY <1>7 DEF CallFails, CudaFailure, Return
  <2> QED BY <1>1, <1>2, <1>3, <1>4, <2>1, FailureWritten, Zenon
<1> QED BY <1>5, <1>6, <1>7

LEMMA ReportsNext == ReportsInv /\ [Next]_vars => ReportsInv'
<1> SUFFICES ASSUME ReportsInv, [Next]_vars PROVE ReportsInv'
    OBVIOUS
<1>1. CASE Alter
  <2>1. /\ at' = at /\ at = "written" /\ altered' = TRUE
        /\ UNCHANGED <<build, version, count, devices, current, failed>>
        BY <1>1 DEF Alter
  <2> QED BY <2>1 DEF ReportsInv, TypeInv, InventoryInv, ReportInv, Written
<1>2. CASE UNCHANGED vars
  <2>1. TypeInv' /\ InventoryInv'
        BY <1>2 DEF vars, ReportsInv, TypeInv, InventoryInv
  <2>2. (Complete => Complete') /\ (Incomplete => Incomplete')
        BY <1>2 DEF vars, Complete, Incomplete, Report
  <2>3. (at' # "written" => ~ failed' /\ ~ altered') /\ (Written' => Written)
        BY <1>2 DEF vars, ReportsInv, ReportInv, Written
  <2> QED BY <2>1, <2>2, <2>3 DEF ReportsInv, ReportInv
<1> QED BY <1>1, <1>2, RowAppended, CallAnswered, Counted, GivenUp DEF Next

LEMMA Invariance == Spec => []ReportsInv
BY ReportsInit, ReportsNext, PTL DEF Spec

-----------------------------------------------------------------------------
\* A complete report is one of an inventory that went through, of every device.
THEOREM WholeReports == Spec => []CompleteIsWhole
<1>1. ReportsInv => CompleteIsWhole
      BY DEF ReportsInv, ReportInv, CompleteIsWhole, Complete, Incomplete, Report
<1> QED BY <1>1, Invariance, PTL

\* The targets of the probe, and those a request may name.
LEMMA Targets ==
    ASSUME NEW b \in DOMAIN Target
    PROVE  /\ TargetAccepted(Target[b])
           /\ \A triple \in DOMAIN TargetFacts:
                 /\ Target[b] = TargetFacts[triple] <=> b = triple
                 /\ b = triple => Supported(b)
<1>1. TargetAccepted(Target[b])
      BY DEF Target, TargetFacts, TargetAccepted
<1>2. ASSUME NEW triple \in DOMAIN TargetFacts
      PROVE  /\ Target[b] = TargetFacts[triple] <=> b = triple
             /\ b = triple => Supported(b)
      BY DEF Target, TargetFacts, Supported
<1> QED BY <1>1, <1>2

\* With a minor of one digit an SM name has two or three, and tells the numbers.
LEMMA SmNameDigits ==
    ASSUME NEW major \in Int, NEW minor \in Int, minor < 10
    PROVE  LET sm == SmName(major, minor) IN
           /\ major < 10 => Len(sm) = 2 /\ sm[1] = major /\ sm[2] = minor
           /\ ~ (major < 10) => /\ Len(sm) = 3
                                /\ sm[1] = major \div 10 /\ sm[2] = major % 10 /\ sm[3] = minor
<1>1. Decimal(minor) = <<minor>> /\ <<minor>> \in Seq(Int)
      BY DEF Decimal
<1>2. CASE major < 10
  <2>1. Decimal(major) = <<major>> /\ <<major>> \in Seq(Int)
        BY <1>2 DEF Decimal
  <2> QED BY <1>1, <1>2, <2>1 DEF SmName
<1>3. CASE ~ (major < 10)
  <2> DEFINE tens == <<major \div 10, major % 10>>
  <2>1. Decimal(major) = tens /\ tens \in Seq(Int)
        BY <1>3 DEF Decimal
  <2>2. SmName(major, minor) = tens \o <<minor>>
        BY <1>1, <2>1 DEF SmName
  <2> QED BY <1>1, <1>3, <2>1, <2>2
<1> QED BY <1>2, <1>3

LEMMA SmNameTells ==
    ASSUME NEW a \in Int, NEW b \in Int, NEW x \in Int, NEW y \in Int, x < 10, y < 10,
           SmName(a, x) = SmName(b, y)
    PROVE  a = b /\ x = y
<1>1. CASE a < 10 /\ b < 10
      BY <1>1, SmNameDigits
<1>2. CASE a < 10 /\ ~ (b < 10)
      BY <1>2, SmNameDigits
<1>3. CASE ~ (a < 10) /\ b < 10
      BY <1>3, SmNameDigits
<1>4. CASE ~ (a < 10) /\ ~ (b < 10)
  <2>1. a \div 10 = b \div 10 /\ a % 10 = b % 10 /\ x = y
        BY <1>4, SmNameDigits
  <2> QED BY <2>1
<1> QED BY <1>1, <1>2, <1>3, <1>4

\* The numbers of a row are numbers, and the driver's own values may fit.
LEMMA RowHolds ==
    ASSUME NEW row \in Rows
    PROVE  /\ row.name \in Sanitized /\ row.major \in Int /\ row.minor \in Int
           /\ FittingRow(row) => row.minor < 10 /\ row.name # "drive"
<1>1. /\ row.name \in Sanitized
      /\ row.major \in 1..99 /\ row.minor \in 0..99
      BY DEF Rows
<1>2. FittingRow(row) => row.minor < 10 /\ row.name # "drive"
      BY DEF Rows, FittingRow
<1> QED BY <1>1, <1>2

\* Both kinds of reports are of the form the parser reads.
LEMMA OwnReportParses ==
    ASSUME ReportsInv, Written, Fitting, Short(report) PROVE Parses(report)
<1>1. /\ build \in DOMAIN Target /\ version \in Int
      /\ devices \in Seq(Rows)
      /\ \A i \in DOMAIN devices: RowWritten(devices[i], i - 1)
      BY DEF ReportsInv, TypeInv, InventoryInv
<1>2. /\ Bounded(report.version, 1000, 99999)
      /\ \A i \in DOMAIN report.devices: FittingRow(report.devices[i])
      BY DEF Fitting
<1>3. CASE Incomplete
  <2>1. TargetAccepted(report.target) /\ report.status \in Statuses
        BY <1>1, <1>3, Targets DEF Incomplete, Statuses
  <2>2. NumbersInRange(report)
    <3>1. Bounded(report.count, 0, 1024)
          BY <1>3 DEF Incomplete, Bounded
    <3> QED BY <1>2, <3>1 DEF NumbersInRange
  <2>3. /\ report.devices = << >>
        /\ report.status # "probe-complete"
        /\ report.reason # None
        /\ report.count \in {None, 0}
        BY <1>3 DEF Incomplete
  <2> QED BY <2>1, <2>2, <2>3 DEF Parses
<1>4. CASE Complete
  <2>1. /\ report.target = Target[build] /\ report.status = "probe-complete"
        /\ report.reason = None /\ report.supported /\ report.loaded
        /\ report.version = version /\ report.count = count
        /\ report.result = 0 /\ report.devices = devices
        /\ count \in 1..1024 /\ Len(devices) = count
        BY <1>4, Zenon DEF Complete, Report
  <2>2. TargetAccepted(report.target) /\ report.status \in Statuses
        BY <1>1, <2>1, Targets DEF Statuses
  <2>3. version # None /\ count # None
        BY <1>1, <2>1, ValuesAssumption
  <2>4. NumbersInRange(report)
    <3>1. Bounded(count, 0, 1024)
          BY <2>1 DEF Bounded
    <3> QED BY <1>2, <2>1, <3>1 DEF NumbersInRange
  <2>5. Len(devices) <= 1024
    <3>1. count \in 1..1024 => count <= 1024
          OBVIOUS
    <3> QED BY <2>1, <3>1
  <2>6. CompleteParses(report)
        BY <2>1, <2>3 DEF CompleteParses
  <2>7. ASSUME NEW i \in DOMAIN devices PROVE RowParses(devices[i], i - 1)
    <3>1. devices[i] \in Rows /\ RowWritten(devices[i], i - 1)
          BY <1>1, <2>7
    <3>2. devices[i].minor < 10 /\ devices[i].name # "drive"
      <4>1. FittingRow(devices[i])
            BY <1>2, <2>1, <2>7
      <4> QED BY <3>1, <4>1, RowHolds, Zenon
    <3>3. NameAccepted(devices[i].name)
          BY <3>1, <3>2, RowHolds DEF Sanitized, NameAccepted
    <3>4. devices[i].major \in Int /\ devices[i].minor \in Int
          BY <3>1, RowHolds, Zenon
    <3>5. SmPattern(devices[i].sm)
          BY <3>1, <3>2, <3>4, SmNameDigits DEF RowWritten, SmPattern
    <3>6. /\ devices[i].ordinal \in 0..1023
          /\ devices[i].major \in 1..99 /\ devices[i].minor \in 0..99
          BY <3>1 DEF Rows
    <3>7. /\ devices[i].ordinal = i - 1
          /\ devices[i].sm = SmName(devices[i].major, devices[i].minor)
          BY <3>1, Zenon DEF RowWritten
    <3> QED BY <3>3, <3>5, <3>6, <3>7, Zenon DEF RowParses
  <2> QED BY <2>1, <2>2, <2>4, <2>5, <2>6, <2>7 DEF Parses
<1> QED BY <1>3, <1>4 DEF ReportsInv, ReportInv

\* Whatever the driver does, run() can read what the probe reports of it, as
\* long as the driver's own values fit the schema and the text fits the limit,
\* whatever the length of each report is.
THEOREM ReadableReports == Spec => []ReportIsRead
<1>1. ReportsInv => ReportIsRead
      BY OwnReportParses DEF ReportIsRead
<1> QED BY <1>1, Invariance, PTL

\* A device is admitted exactly when the driver has it as requested.
LEMMA AdmittedDevice ==
    ASSUME ReportsInv, Written, Fitting, NEW triple \in DOMAIN TargetFacts,
           NEW ordinal \in 0..MaxDevices, NEW major \in Majors, NEW minor \in Minors \intersect 0..9
    PROVE  Admits(report, triple, ordinal, SmName(major, minor))
            <=> /\ build = triple /\ ~ failed
                /\ count \in 1..1024 /\ Len(devices) = count /\ version >= MinDriver
                /\ ordinal < count
                /\ devices[ordinal + 1].major = major /\ devices[ordinal + 1].minor = minor
<1>1. /\ build \in DOMAIN Target /\ version \in Int
      /\ devices \in Seq(Rows)
      /\ \A i \in DOMAIN devices: RowWritten(devices[i], i - 1)
      BY DEF ReportsInv, TypeInv, InventoryInv
<1>2. CASE Incomplete
  <2>1. ~ Admits(report, triple, ordinal, SmName(major, minor))
        BY <1>2 DEF Incomplete, Admits
  <2>2. failed \/ build # triple \/ count \notin 1..1024 \/ Len(devices) # count
        BY <1>1, <1>2, Targets DEF Incomplete
  <2> QED BY <2>1, <2>2
<1>3. CASE Complete
  <2>1. /\ report.target = Target[build] /\ report.status = "probe-complete"
        /\ report.version = version /\ report.devices = devices
        /\ ~ failed /\ count \in 1..1024 /\ Len(devices) = count
        BY <1>3, Zenon DEF Complete, Report
  <2>2. version # None
        BY <1>1, ValuesAssumption
  <2>3. report.target = TargetFacts[triple] <=> build = triple
        BY <1>1, <2>1, Targets
  <2>4. ordinal \in Nat /\ major \in Int /\ minor \in Int /\ minor < 10
        BY DevicesAssumption, ValuesAssumption
  <2>5. ASSUME ordinal < count
        PROVE  /\ devices[ordinal + 1].ordinal = ordinal
               /\ devices[ordinal + 1].sm = SmName(major, minor)
                  <=> devices[ordinal + 1].major = major /\ devices[ordinal + 1].minor = minor
    <3> DEFINE i == ordinal + 1
    <3>1. i \in DOMAIN devices /\ i - 1 = ordinal
          BY <1>1, <2>1, <2>4, <2>5
    <3> HIDE DEF i
    <3>2. devices[i] \in Rows /\ RowWritten(devices[i], ordinal)
          BY <1>1, <3>1
    <3>3. devices[i].minor < 10
      <4>1. FittingRow(devices[i])
            BY <2>1, <3>1 DEF Fitting
      <4> QED BY <3>2, <4>1, RowHolds, Zenon
    <3>4. devices[i].major \in Int /\ devices[i].minor \in Int
          BY <3>2, RowHolds, Zenon
    <3>5. devices[i].sm = SmName(devices[i].major, devices[i].minor) /\ devices[i].ordinal = ordinal
          BY <3>2 DEF RowWritten
    <3>6. devices[i].sm = SmName(major, minor)
            <=> devices[i].major = major /\ devices[i].minor = minor
          BY <2>4, <3>3, <3>4, <3>5, SmNameTells
    <3> QED BY <3>5, <3>6 DEF i
  <2> QED BY <2>1, <2>2, <2>3, <2>5 DEF Admits
<1> QED BY <1>2, <1>3 DEF ReportsInv, ReportInv

\* From the driver to the verdict, for every driver and every request.
THEOREM UsableIsAdmitted == Spec => []AdmittedIffUsable
<1>1. Parses(report) => Short(report)
      BY DEF Parses
<1>2. ReportsInv => AdmittedIffUsable
      BY <1>1, OwnReportParses, AdmittedDevice DEF AdmittedIffUsable
<1> QED BY <1>2, Invariance, PTL
=============================================================================
