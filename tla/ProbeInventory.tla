--------------------------- MODULE ProbeInventory ---------------------------
(***************************************************************************)
(* The driver inventory probe (crates/rextio-cuda-driver-probe): one driver *)
(* call after another, an early return with a failure report at each, and  *)
(* the report that run() parses; or a report of another origin.            *)
(***************************************************************************)
EXTENDS ProbeReport

CONSTANTS
    Versions,   \* what cuDriverGetVersion may store
    Counts,     \* what cuDeviceGetCount may store
    Names,      \* kinds of names cuDeviceGetName may store
    Majors, Minors,  \* compute capabilities
    MaxDevices  \* bound: devices the driver has

Error == 100    \* any CUresult but 0

ASSUME DevicesAssumption == MaxDevices \in Nat

\* A name of a few bytes or of many, one that is empty, that starts with a slash
\* or a backslash, or with a drive.
NameKinds == {"plain", "long", "empty", "rooted", "drive"}

\* The reason codes of the probe's own reports: one for every error of the
\* loader, one for every call that fails.
Reasons == {"UNSUPPORTED_TARGET", "NOT_LOADED", "CALL_FAILED", "INVALID_DEVICE_COUNT",
            "NO_CUDA_DEVICES", "INVALID_COMPUTE_CAPABILITY"}

\* The driver stores C integers; JSON's null is neither a number nor a text.
ASSUME ValuesAssumption ==
    /\ Versions \union Counts \union Majors \union Minors \subseteq Int
    /\ Names \subseteq NameKinds
    /\ None \notin Int \union Reasons

\* Targets the probe may be compiled for, their os and arch in std::env::consts
\* and their environment, target_environment().
Target ==
    [b \in DOMAIN TargetFacts \union {"x86_64-unknown-linux-musl", "aarch64-apple-darwin"} |->
        CASE b = "x86_64-unknown-linux-gnu" -> <<"linux", "x86_64", "gnu">>
          [] b = "aarch64-unknown-linux-gnu" -> <<"linux", "aarch64", "gnu">>
          [] b = "x86_64-unknown-linux-musl" -> <<"linux", "x86_64", "musl">>
          [] b = "x86_64-pc-windows-msvc" -> <<"windows", "x86_64", "msvc">>
          [] b = "aarch64-apple-darwin" -> <<"macos", "aarch64", "unknown">>]
\* The cfg of run_probe: the environment does not matter.
Supported(b) == Target[b][1] \in {"windows", "linux"}

VARIABLES
    build,     \* the target the probe is compiled for
    at,        \* the next driver call, "written" at the end
    version,   \* driver_version
    count,     \* device_count
    devices,   \* rows so far
    current,   \* the name of the device being asked about
    report,    \* the report, None before it is written
    failed,    \* history: a driver call failed
    altered    \* history: the report is not the probe's own

vars == <<build, at, version, count, devices, current, report, failed, altered>>

Init ==
    /\ build \in DOMAIN Target
    /\ at = "load" /\ version = 0 /\ count = 0 /\ devices = << >> /\ current = None
    /\ report = None /\ failed = FALSE /\ altered = FALSE

Report(status, reason, loaded, v, n, result, rows) ==
    [target |-> Target[build], status |-> status, reason |-> reason, supported |-> TRUE, loaded |-> loaded,
     version |-> v, count |-> n, result |-> result, devices |-> rows]

\* Report::unavailable and Report::cuda_failure.
Unavailable(reason, loaded) == Report("unavailable", reason, loaded, None, None, None, << >>)
CudaFailure(reason) == Report("unavailable", reason, TRUE, None, None, Error, << >>)

Return(rep) == at' = "written" /\ report' = rep
Continue(next) == at' = next /\ UNCHANGED report

\* The driver image or one of its symbols is missing.
Load ==
    /\ at = "load" /\ Supported(build)
    /\ \/ Continue("init") /\ UNCHANGED failed
       \/ \E loaded \in BOOLEAN: Return(Unavailable("NOT_LOADED", loaded)) /\ failed' = TRUE
    /\ UNCHANGED <<build, version, count, devices, current, altered>>

\* Report::unsupported
Unsupported ==
    /\ at = "load" /\ ~ Supported(build)
    /\ Return([Report("unsupported", "UNSUPPORTED_TARGET", FALSE, None, None, None, << >>)
                EXCEPT !.supported = FALSE])
    /\ UNCHANGED <<build, version, count, devices, current, failed, altered>>

\* Every driver call may fail, and then ends the inventory.
CallFails ==
    /\ at \in {"init", "version", "count", "get", "name", "capability"}
    /\ Return(CudaFailure("CALL_FAILED"))
    /\ failed' = TRUE
    /\ UNCHANGED <<build, version, count, devices, current, altered>>

CuInit ==
    /\ at = "init"
    /\ Continue("version")
    /\ UNCHANGED <<build, version, count, devices, current, failed, altered>>

CuDriverGetVersion ==
    /\ at = "version"
    /\ version' \in Versions
    /\ Continue("count")
    /\ UNCHANGED <<build, count, devices, current, failed, altered>>

CuDeviceGetCount ==
    /\ at = "count"
    /\ count' \in Counts
    /\ IF count' \notin 0..1024 THEN Return(Unavailable("INVALID_DEVICE_COUNT", TRUE))
       ELSE IF count' = 0
            THEN Return(Report("unavailable", "NO_CUDA_DEVICES", TRUE, version, 0, 0, << >>))
       ELSE Continue("get")
    /\ UNCHANGED <<build, version, devices, current, failed, altered>>

CuDeviceGet ==
    /\ at = "get"
    /\ Len(devices) < MaxDevices
    /\ Continue("name")
    /\ UNCHANGED <<build, version, count, devices, current, failed, altered>>

\* Seeded defect: the name as the driver stored it.
SanitizeNothing(name) == name
\* sanitize_name: control characters go, a name that is empty or starts with a
\* slash or backslash becomes "unknown"; one that starts with a drive stays, and
\* so do the first 160 characters of a long one.
Sanitize(name) == IF name \in {"empty", "rooted"} THEN "unknown" ELSE name

CuDeviceGetName ==
    /\ at = "name"
    /\ \E name \in Names: current' = Sanitize(name)
    /\ Continue("capability")
    /\ UNCHANGED <<build, version, count, devices, failed, altered>>

\* Seeded defect: the loop over the devices ends one too early.
LastDeviceEarly(rows) == Len(rows) >= count - 1
LastDevice(rows) == Len(rows) = count

CuDeviceComputeCapability ==
    /\ at = "capability"
    /\ \E major \in Majors, minor \in Minors:
          IF major \notin 1..99 \/ minor \notin 0..99
          THEN /\ Return(Unavailable("INVALID_COMPUTE_CAPABILITY", TRUE))
               /\ UNCHANGED devices
          ELSE LET rows == Append(devices, [ordinal |-> Len(devices), name |-> current,
                                            major |-> major, minor |-> minor,
                                            sm |-> SmName(major, minor)])
               IN /\ devices' = rows
                  /\ IF LastDevice(rows)
                     THEN Return(Report("probe-complete", None, TRUE, version, count, 0, rows))
                     ELSE Continue("get")
    /\ current' = None
    /\ UNCHANGED <<build, version, count, failed, altered>>

\* A report of another program, or of a runner in Python: like the probe's,
\* but for one field.
Alter ==
    /\ at = "written" /\ ~ altered
    /\ altered' = TRUE
    /\ \/ report' = [report EXCEPT !.target = <<"linux", "malformed", "gnu">>]
       \/ \E s \in Statuses: report' = [report EXCEPT !.status = s]
       \/ \E b \in BOOLEAN: report' = [report EXCEPT !.supported = b]
       \/ \E c \in {None, "OTHER"}: report' = [report EXCEPT !.reason = c]
       \/ \E b \in BOOLEAN: report' = [report EXCEPT !.loaded = b]
       \/ \E v \in Versions \union {None}: report' = [report EXCEPT !.version = v]
       \/ \E n \in Counts \union {None}: report' = [report EXCEPT !.count = n]
       \/ \E x \in {None, 0, Error}: report' = [report EXCEPT !.result = x]
       \/ report.devices # << >> /\ report' = [report EXCEPT !.devices = Tail(@)]
       \/ \E i \in DOMAIN report.devices: \E name \in Names, minor \in Minors:
             report' = [report EXCEPT !.devices[i].name = name, !.devices[i].minor = minor]
    /\ UNCHANGED <<build, at, version, count, devices, current, failed>>

Next ==
    \/ Load \/ Unsupported \/ CallFails \/ CuInit \/ CuDriverGetVersion \/ CuDeviceGetCount \/ CuDeviceGet
    \/ CuDeviceGetName \/ CuDeviceComputeCapability \/ Alter

Spec == Init /\ [][Next]_vars

-----------------------------------------------------------------------------
Written == at = "written" /\ ~ altered

\* The driver's own values fit the report's schema: a version of four or five
\* digits, architectures of two or three, no name with a drive.
FittingRow(row) == row.minor < 10 /\ row.name # "drive"
Fitting ==
    /\ Bounded(report.version, 1000, 99999)
    /\ \A i \in DOMAIN report.devices: FittingRow(report.devices[i])

\* Every report the probe writes is one run() can read, as long as the driver's
\* own values fit and the text is not too long: no path through the inventory
\* produces a mix of status, reason, numbers and rows that the parser refuses.
\* The probe itself does not know the limit on the length of the text.
ReportIsRead == Written /\ Fitting /\ Short(report) => Parses(report)

\* A report is complete only if no driver call failed, and it names every
\* device the driver counted.
CompleteIsWhole ==
    Written /\ report.status = "probe-complete" =>
        ~ failed /\ report.version = version /\ Len(report.devices) = count

\* From the driver to the verdict: run() and preflight's checks pass for a device
\* and an SM exactly when the probe was compiled for the target requested, no
\* driver call failed, the driver is new enough, its device at that ordinal has
\* that compute capability, and the inventory of the host fits into the bytes
\* that run() reads.  Nothing else makes a usable device be refused.
AdmittedIffUsable ==
    Written /\ Fitting =>
        \A triple \in DOMAIN TargetFacts, ordinal \in 0..MaxDevices, major \in Majors,
           minor \in Minors \intersect 0..9:
            Parses(report) /\ Admits(report, triple, ordinal, SmName(major, minor))
            <=> /\ build = triple /\ ~ failed /\ Short(report)
                /\ count \in 1..1024 /\ Len(devices) = count /\ version >= MinDriver
                /\ ordinal < count
                /\ devices[ordinal + 1].major = major /\ devices[ordinal + 1].minor = minor

\* Whatever the origin of a report, the parser never lets pass what the
\* constructors refuse: the error of a bad report is the parser's own, and the
\* report that run() returns exists.
ParsedConstructs == at = "written" /\ Parses(report) => Constructs(report)

\* CudaProbeReport.__post_init__, "Keep direct runner injection as strict as
\* parsed subprocess output".
InjectionIsAsStrict == at = "written" /\ Constructs(report) => Parses(report)
=============================================================================
