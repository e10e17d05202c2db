--------------------------- MODULE PreflightRules ---------------------------
(***************************************************************************)
(* The checks of preflight before the probe runs (provider.py), in their   *)
(* order, as operators on a request r and a provider configuration c; the  *)
(* values CudaProviderConfig accepts (config.py); what manifest() declares. *)
(* Reason codes are the code's, without their LIBTORCH_ or TENSORFLOW_TFE_ *)
(* prefix.                                                                 *)
(***************************************************************************)
EXTENDS Integers, Sequences, FiniteSets

CONSTANT None   \* Python's None, or an absent option

\* _CAPABILITY_TARGETS and the lane of each capability.
CapabilityTargets ==
    [linux_x86_64 |-> "x86_64-linux", linux_aarch64 |-> "aarch64-linux",
     windows_x86_64 |-> "x86_64-windows", libtorch |-> "x86_64-linux", tfe |-> "x86_64-linux"]
Frameworks == {"libtorch", "tfe"}
IsFramework(r) == r.capability \in Frameworks

\* _ARCHITECTURES, and names that only _SM_PATTERN accepts.
Architectures == {"sm_60", "sm_80", "sm_90"}
SmPattern(sm) == sm \in Architectures \union {"sm_10", "sm_999"}

\* isascii() and isdigit() of an ordinal's text, and its int().
Digits == [zero |-> 0, zeroPadded |-> 0, one |-> 1, tooLarge |-> 1024]
TextOf(n) == CHOOSE t \in DOMAIN Digits: Digits[t] = n /\ t # "zeroPadded"

\* What each framework lane requires of its one device, and its runtime pins.
Required ==
    [libtorch |-> [runtime |-> "libtorch", features |-> {"inference", "no-grad"},
                   layouts |-> {"strided"}, spaces |-> {"device"}],
     tfe |-> [runtime |-> "tensorflow-tfe", features |-> {"eager", "inference", "no-grad"},
              layouts |-> {"dense"}, spaces |-> {"device"}]]
Pins == [libtorch |-> {"libtorch", "tch"}, tfe |-> {"cpython", "tensorflow"}]

\* The configurations the constructor accepts; sm_wide has digits that are not
\* ASCII, which str.isdigit accepts and _SM_PATTERN does not.
ValidConfig(c) ==
    /\ c.ordinal # None => c.ordinal \in 0..1023
    /\ c.sm # None => SmPattern(c.sm) \/ c.sm = "sm_wide"

-----------------------------------------------------------------------------
\* checks is a sequence of pairs <<holds, reason>>; the first that fails
\* decides, and Then goes on when none did.
FirstFailure(checks) ==
    LET failing == {i \in DOMAIN checks: ~ checks[i][1]} IN
    IF failing = {} THEN "ok" ELSE checks[CHOOSE i \in failing: \A j \in failing: i <= j][2]
Then(verdict, next) == IF verdict = "ok" THEN next ELSE verdict

\* Before the try block: what no option and no configuration can repair.
SelectionChecks(r) ==
    Then(FirstFailure(<<
            <<r.provider = "rextio-device-cuda", "PROVIDER_ID_MISMATCH">>,
            <<r.capability \in DOMAIN CapabilityTargets, "CAPABILITY_UNKNOWN">> >>),
         FirstFailure(<<
            <<r.target = CapabilityTargets[r.capability], "TARGET_MISMATCH">>,
            <<IsFramework(r) => r.kind = "extension", "ARTIFACT_KIND_UNSUPPORTED">> >>))

\* Seeded defect: the keys of the framework lanes for every lane.
AllowedKeysOfFramework(r) == {"probe", "ordinal", "sm"}
AllowedKeys(r) ==
    {"probe", "ordinal", "sm"} \union IF IsFramework(r) THEN {} ELSE {"root"}

OptionChecks(c, r) ==
    FirstFailure(<<
        <<"invalid" \notin DOMAIN r.options, "PROVIDER_OPTIONS_INVALID">>,
        <<DOMAIN r.options \subseteq AllowedKeys(r), "PROVIDER_OPTION_UNKNOWN">>,
        <<IsFramework(r) => c.root = None, "TOOLKIT_ROOT_UNSUPPORTED">> >>)

\* _raw_cuda_requirement: device requirements that are no CUDA device, or that
\* cannot be normalized, are skipped; the first bad one of the others decides.
IsCuda(d) == d.device.kind = "gpu" /\ d.device.backend = "cuda"
CudaDevices(r) == {i \in DOMAIN r.devices: IsCuda(r.devices[i])}
OneSm(d) == Len(d.architectures) = 1
RawArchitectureChecks(r) ==
    LET bad == {i \in CudaDevices(r):
                   ~ (OneSm(r.devices[i]) /\ SmPattern(r.devices[i].architectures[1]))}
    IN IF bad = {} THEN "ok"
       ELSE IF OneSm(r.devices[CHOOSE i \in bad: \A j \in bad: i <= j])
            THEN "INVALID_SM" ELSE "EXPLICIT_SM_REQUIRED"

\* The one requirement that a request of either lane is about.
Requirement(r) ==
    IF IsFramework(r) THEN r.devices[1] ELSE r.devices[CHOOSE i \in CudaDevices(r): TRUE]

RawChecks(r) ==
    Then(RawArchitectureChecks(r),
    Then(FirstFailure(<< <<Cardinality(CudaDevices(r)) = 1, "EXACTLY_ONE_CUDA_DEVICE_REQUIRED">> >>),
         LET d == Requirement(r) IN FirstFailure(<<
            <<~ d.reuse, "FRAMEWORK_RUNTIME_REUSE_UNSUPPORTED">>,
            <<d.runtime \in {None, "cuda", "cuda-driver"}, "CUDA_RUNTIME_INCOMPATIBLE">>,
            <<d.features \subseteq {"driver-api"}, "CUDA_FEATURE_UNSUPPORTED">>,
            <<d.spaces \subseteq {"device"}, "CUDA_MEMORY_SPACE_UNSUPPORTED">>,
            <<d.layouts = {}, "CUDA_LAYOUT_UNSUPPORTED">> >>)))

\* Seeded defect: the index of the device is not compared.
AnyCudaDevice(d) == IsCuda(d)
\* A framework lane is for the first GPU.
FirstCudaDevice(d) == IsCuda(d) /\ d.device.index = 0

\* frozenset(...) != ...: exactly the lane's.
Exactly(asked, required) == asked = required

\* _libtorch_cuda_requirement and _tensorflow_tfe_cuda_requirement.  A name
\* among the pins stands for the right version and features.
FrameworkChecks(r) ==
    LET d == r.devices[1]
        lane == Required[r.capability]
    IN
    Then(FirstFailure(<<
            <<r.capability = "tfe" => r.fallback = "cpython", "CPYTHON_REQUIRED">>,
            <<Len(r.devices) = 1, "EXACTLY_ONE_CUDA_DEVICE_REQUIRED">> >>),
         FirstFailure(<<
            <<d.device.kind # "malformed", "CUDA_DEVICE_REQUIREMENT_INVALID">>,
            <<FirstCudaDevice(d), "CUDA_DEVICE_UNSUPPORTED">>,
            <<d.runtime = lane.runtime, "RUNTIME_REQUIRED">>,
            <<d.reuse, "RUNTIME_REUSE_REQUIRED">>,
            <<Len(d.architectures) <= 1, "AT_MOST_ONE_SM_ALLOWED">>,
            <<d.architectures = << >> \/ SmPattern(d.architectures[1]), "INVALID_SM">>,
            <<Exactly(d.features, lane.features), "FEATURES_INCOMPATIBLE">>,
            <<Exactly(d.layouts, lane.layouts), "LAYOUT_INCOMPATIBLE">>,
            <<Exactly(d.spaces, lane.spaces), "MEMORY_SPACE_INCOMPATIBLE">>,
            <<Pins[r.capability] \subseteq r.pins, "RUNTIME_PINS_REQUIRED">> >>))

\* required_sm; a framework lane may leave it open.
RequiredSm(r) ==
    IF Requirement(r).architectures = << >> THEN None ELSE Requirement(r).architectures[1]

RequirementChecks(r) ==
    Then(IF IsFramework(r) THEN FrameworkChecks(r) ELSE RawChecks(r),
         FirstFailure(<< <<RequiredSm(r) \in Architectures \union {None},
                           "CUDA_ARCHITECTURE_UNSUPPORTED">> >>))

-----------------------------------------------------------------------------
\* _private_option, and the constructor's value in the form options have.
Option(r, key) == IF key \in DOMAIN r.options THEN r.options[key] ELSE None
Constructor(c, key) ==
    IF key = "ordinal" /\ c.ordinal # None THEN TextOf(c.ordinal) ELSE c[key]

\* Seeded defect: the request silently wins.
AgreeAlways(a, b) == TRUE
\* _coalesce_private_value: two values must agree, and the request's is taken.
Agree(a, b) == a = None \/ b = None \/ a = b
Coalesce(c, r, key) ==
    IF Option(r, key) # None THEN Option(r, key) ELSE Constructor(c, key)

Conflict(key) ==
    [probe |-> "PROBE_CONFIGURATION_CONFLICT", root |-> "TOOLKIT_CONFIGURATION_CONFLICT",
     ordinal |-> "DEVICE_CONFIGURATION_CONFLICT", sm |-> "SM_CONFIGURATION_CONFLICT"][key]
MergeChecks(c, r) ==
    LET check(key) == <<Agree(Option(r, key), Constructor(c, key)), Conflict(key)>> IN
    FirstFailure(<< check("probe"), <<IsFramework(r) \/ check("root")[1], Conflict("root")>>,
                    check("ordinal"), check("sm") >>)

\* The selected device is the one the request requires.
Matches(c, r) ==
    /\ Digits[Coalesce(c, r, "ordinal")] = Requirement(r).device.index
    /\ RequiredSm(r) \in {None, Coalesce(c, r, "sm")}

\* The checks on the merged values, and the choice of a runner.
SelectedChecks(c, r) ==
    LET text == Coalesce(c, r, "ordinal")
        sm == Coalesce(c, r, "sm")
    IN
    Then(FirstFailure(<<
            <<text # None, "DEVICE_ORDINAL_NOT_CONFIGURED">>,
            <<text \in DOMAIN Digits, "DEVICE_ORDINAL_INVALID">> >>),
         FirstFailure(<<
            <<Digits[text] <= 1023, "DEVICE_ORDINAL_INVALID">>,
            <<sm # None, "SM_NOT_CONFIGURED">>,
            <<SmPattern(sm), "INVALID_SM">>,
            <<sm \in Architectures, "CUDA_ARCHITECTURE_UNSUPPORTED">>,
            <<Matches(c, r), "DEVICE_REQUIREMENT_MISMATCH">>,
            <<"runner" \in c.injected \/ Coalesce(c, r, "probe") # None, "PROBE_NOT_CONFIGURED">> >>))

\* Every check before the probe runs; "ok" when all succeed.
Verdict(c, r) ==
    Then(SelectionChecks(r),
    Then(OptionChecks(c, r),
    Then(RequirementChecks(r),
    Then(MergeChecks(c, r), SelectedChecks(c, r)))))

Accepted(c, r) == Verdict(c, r) = "ok"

\* The device and toolkit facts an accepted request goes on with: the options
\* of CudaProvider's requests.
Merged(c, r) ==
    [sm |-> Coalesce(c, r, "sm"),
     ordinal |-> Digits[Coalesce(c, r, "ordinal")],
     inspects |-> /\ ~ IsFramework(r)
                  /\ "inspector" \in c.injected \/ Coalesce(c, r, "root") # None]

-----------------------------------------------------------------------------
\* manifest(): the capabilities a core chooses from.  Those of the framework lanes
\* are written apart from the checks: their target, their artifact kind and the
\* one device requirement, logical device gpu:0 of backend cuda.
DeclaredDevice(lane) ==
    [device |-> [kind |-> "gpu", backend |-> "cuda", index |-> 0],
     runtime |-> Required[lane].runtime, features |-> Required[lane].features,
     layouts |-> Required[lane].layouts, spaces |-> Required[lane].spaces, reuse |-> TRUE]
FrameworkCapability(lane) ==
    [targets |-> {"x86_64-linux"}, kinds |-> {"extension"}, accelerators |-> {"cuda"},
     architectures |-> Architectures, device |-> DeclaredDevice(lane)]
RawCapability(capability) ==
    [targets |-> {CapabilityTargets[capability]}, kinds |-> {"executable", "extension", "crate"},
     accelerators |-> {"cuda"}, architectures |-> Architectures]

-----------------------------------------------------------------------------
\* What is accepted is what manifest() declares for the capability.  On every
\* lane: the requirement that was picked is one for a declared accelerator, and
\* the architecture selected, whoever named it, is a declared one.  On a
\* framework lane: its target, its artifact kind, and no device but its only one,
\* down to the index, the features and the reuse of the framework's runtime.
Declared(c, r) ==
    IF IsFramework(r)
    THEN LET cap == FrameworkCapability(r.capability) IN
         /\ r.target \in cap.targets /\ r.kind \in cap.kinds
         /\ Merged(c, r).sm \in cap.architectures
         /\ Len(r.devices) = 1
         /\ \A field \in DOMAIN cap.device: r.devices[1][field] = cap.device[field]
    ELSE LET cap == RawCapability(r.capability) IN
         /\ r.target \in cap.targets
         /\ Requirement(r).device.backend \in cap.accelerators
         /\ Merged(c, r).sm \in cap.architectures

\* Whoever names a fact - the requirement, the option, the constructor - names
\* the one that was selected.
NothingOverridden(c, r) ==
    LET m == Merged(c, r) IN
    /\ m.ordinal = Requirement(r).device.index
    /\ "ordinal" \in DOMAIN r.options => Digits[r.options.ordinal] = m.ordinal
    /\ c.ordinal # None => c.ordinal = m.ordinal
    /\ {RequiredSm(r), Option(r, "sm"), c.sm} \subseteq {None, m.sm}
    /\ \A key \in {"probe", "root"}: Option(r, key) # None /\ c[key] # None => Option(r, key) = c[key]

\* The request that carries all facts itself, and the configuration without any.
Explicit(c, r) ==
    LET keys == {k \in {"probe", "root", "ordinal", "sm"}: Coalesce(c, r, k) # None} IN
    [r EXCEPT !.options = [k \in keys |-> Coalesce(c, r, k)]]
NoFacts(c) == [c EXCEPT !.probe = None, !.root = None, !.ordinal = None, !.sm = None]
=============================================================================
