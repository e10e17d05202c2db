----------------------------- MODULE ProbeReport -----------------------------
(***************************************************************************)
(* What a report of the driver probe must be (probe.py), twice: as the     *)
(* parser checks a probe's output, and as the constructors check a report  *)
(* that a runner in Python builds.  The texts are abstract: an SM name is  *)
(* the sequence of its digits, a device name one of the kinds the checks   *)
(* tell apart, and the length of a whole report a parameter.  Then what    *)
(* the provider asks of a report.                                          *)
(***************************************************************************)
EXTENDS Integers, Sequences

CONSTANTS
    None,           \* JSON null and Python's None
    Bytes(_),       \* the length of the JSON text of a report
    MaxReportBytes  \* _MAX_REPORT_BYTES

\* f"sm_{major}{minor}", and the two or three digits of _SM_PATTERN.
Decimal(n) == IF n < 10 THEN <<n>> ELSE <<n \div 10, n % 10>>
SmName(major, minor) == Decimal(major) \o Decimal(minor)
SmPattern(sm) == Len(sm) \in {2, 3}

\* _DEVICE_NAME_PATTERN, up to 160 characters, and the two path checks.
NameAccepted(name) == name \in {"plain", "long", "unknown"}

\* The characters and the length of os, arch and environment.
TargetAccepted(target) == \A i \in DOMAIN target: target[i] # "malformed"

Statuses == {"probe-complete", "unavailable", "unsupported", "error"}

\* A value that may be null.
Bounded(value, low, high) == value = None \/ value \in low..high

\* The types and ranges of a report's numbers, in _bounded_int and in the
\* constructor of CudaProbeReport.
NumbersInRange(rep) ==
    /\ Bounded(rep.version, 1000, 99999)
    /\ Bounded(rep.count, 0, 1024)

-----------------------------------------------------------------------------
\* parse_probe_report, rows and report.
RowParses(row, index) ==
    /\ row.ordinal \in 0..1023 /\ row.ordinal = index
    /\ row.major \in 1..99 /\ row.minor \in 0..99
    /\ NameAccepted(row.name)
    /\ SmPattern(row.sm)
    /\ row.sm = SmName(row.major, row.minor)

\* Seeded defect: rows are checked, their number is not.
ParsesAnyCount(rep) ==
    /\ rep.reason = None /\ rep.supported /\ rep.loaded
    /\ rep.version # None
    /\ rep.count # None /\ rep.count >= 1
    /\ rep.result = 0
CompleteParses(rep) ==
    /\ rep.reason = None /\ rep.supported /\ rep.loaded
    /\ rep.version # None
    /\ rep.count # None /\ rep.count >= 1 /\ rep.count = Len(rep.devices)
    /\ rep.result = 0

\* The reading of the output and the parser have the same limit.
Short(rep) == Bytes(rep) <= MaxReportBytes

Parses(rep) ==
    /\ Short(rep)
    /\ TargetAccepted(rep.target)
    /\ rep.status \in Statuses
    /\ NumbersInRange(rep)
    /\ Len(rep.devices) <= 1024
    /\ \A i \in DOMAIN rep.devices: RowParses(rep.devices[i], i - 1)
    /\ IF rep.status = "probe-complete" THEN CompleteParses(rep)
       ELSE rep.reason # None /\ rep.devices = << >> /\ rep.count \in {None, 0}

-----------------------------------------------------------------------------
\* CudaDeviceRecord and CudaProbeReport.
DeviceRecord(row) ==
    /\ row.ordinal \in 0..1023
    /\ NameAccepted(row.name)
    /\ row.major \in 1..99 /\ row.minor \in 0..99
    /\ row.sm = SmName(row.major, row.minor)

Constructs(rep) ==
    /\ TargetAccepted(rep.target)
    /\ rep.status \in Statuses
    /\ NumbersInRange(rep)
    /\ \A i \in DOMAIN rep.devices: DeviceRecord(rep.devices[i]) /\ rep.devices[i].ordinal = i - 1
    /\ IF rep.status = "probe-complete"
       THEN /\ rep.reason = None /\ rep.supported /\ rep.loaded
            /\ rep.version # None
            /\ rep.count = Len(rep.devices) /\ rep.count # 0
            /\ rep.result = 0
       ELSE rep.reason # None /\ rep.devices = << >> /\ rep.count \in {None, 0}

-----------------------------------------------------------------------------
\* expected_probe_target: os, arch and environment of the probe for a target.
TargetFacts ==
    [triple \in {"x86_64-unknown-linux-gnu", "aarch64-unknown-linux-gnu", "x86_64-pc-windows-msvc"} |->
        CASE triple = "x86_64-unknown-linux-gnu" -> <<"linux", "x86_64", "gnu">>
          [] triple = "aarch64-unknown-linux-gnu" -> <<"linux", "aarch64", "gnu">>
          [] triple = "x86_64-pc-windows-msvc" -> <<"windows", "x86_64", "msvc">>]

MinDriver == 12000      \* CUDA_DRIVER_VERSION_FLOOR

\* Seeded defect: the floor itself is refused.
AdmitsAboveFloor(rep, triple, ordinal, sm) ==
    /\ rep.target = TargetFacts[triple]
    /\ rep.status = "probe-complete"
    /\ rep.version # None /\ rep.version > MinDriver
    /\ ordinal < Len(rep.devices)
    /\ rep.devices[ordinal + 1].ordinal = ordinal
    /\ rep.devices[ordinal + 1].sm = sm
\* preflight's checks of a report, for the target, device and SM requested.
Admits(rep, triple, ordinal, sm) ==
    /\ rep.target = TargetFacts[triple]
    /\ rep.status = "probe-complete"
    /\ rep.version # None /\ rep.version >= MinDriver
    /\ ordinal < Len(rep.devices)
    /\ rep.devices[ordinal + 1].ordinal = ordinal
    /\ rep.devices[ordinal + 1].sm = sm
=============================================================================
