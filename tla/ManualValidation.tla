-------------------------- MODULE ManualValidation --------------------------
(***************************************************************************)
(* scripts/validate_preflight.py: the command-line arguments it refuses,   *)
(* and the one request it makes of a provider without configuration.  What *)
(* follows (the core resolves a plan, evidence is written) is sequential.  *)
(***************************************************************************)
EXTENDS PreflightRules

\* Command lines: the host they are run on, --device-ordinal, --sm,
\* --probe-executable and --toolkit-root, None when absent or empty.
Arguments ==
    [host: {"linux-x86_64", "linux-amd64", "linux-aarch64", "windows-amd64", "windows-x86_64",
            "darwin-arm64"},
     ordinal: {-1, 0, 1, 1024}, sm: Architectures \union {"sm_10", "sm_999", "bad"},
     probe: {"probe1"}, root: {None, "root1"}]

\* _TARGETS: target triple and capability of a host.
X86Linux == [target |-> "x86_64-linux", capability |-> "linux_x86_64"]
AArch64Linux == [target |-> "aarch64-linux", capability |-> "linux_aarch64"]
Windows == [target |-> "x86_64-windows", capability |-> "windows_x86_64"]
HostTargets ==
    [h \in {"linux-x86_64", "linux-amd64", "linux-aarch64", "windows-amd64", "windows-x86_64"} |->
        IF h \in {"windows-amd64", "windows-x86_64"} THEN Windows
        ELSE IF h = "linux-aarch64" THEN AArch64Linux ELSE X86Linux]

\* parser.error: the script ends with exit code 2.
Refused(a) ==
    \/ a.ordinal \notin 0..1023
    \/ ~ SmPattern(a.sm)
    \/ a.host \notin DOMAIN HostTargets

\* Seeded defect: the ordinal is not passed on.
ScriptOptionsOfFirst(a) ==
    [k \in {"probe", "ordinal", "sm"} \union (IF a.root = None THEN {} ELSE {"root"}) |->
        IF k = "ordinal" THEN "zero" ELSE a[k]]
ScriptOptions(a) ==
    [k \in {"probe", "ordinal", "sm"} \union (IF a.root = None THEN {} ELSE {"root"}) |->
        IF k = "ordinal" THEN TextOf(a.ordinal) ELSE a[k]]

ScriptDevice(a) ==
    [device |-> [kind |-> "gpu", backend |-> "cuda", index |-> a.ordinal],
     runtime |-> "cuda-driver", features |-> {"driver-api"}, layouts |-> {},
     spaces |-> {"device"}, architectures |-> <<a.sm>>, reuse |-> FALSE]

ScriptRequest(a) ==
    [provider |-> "rextio-device-cuda", capability |-> HostTargets[a.host].capability,
     target |-> HostTargets[a.host].target, kind |-> "crate", fallback |-> None,
     devices |-> <<ScriptDevice(a)>>, pins |-> {}, options |-> ScriptOptions(a)]

\* CudaDeviceProvider() without arguments.
Unconfigured == [probe |-> None, root |-> None, ordinal |-> None, sm |-> None, injected |-> {}]

\* The verdict on what the script asks: every architecture the provider knows
\* gets to the probe, for the device, the architecture and the toolkit named.
AskedAsTold(a, r) ==
    /\ Verdict(Unconfigured, r) =
          IF a.sm \in Architectures THEN "ok" ELSE "CUDA_ARCHITECTURE_UNSUPPORTED"
    /\ Accepted(Unconfigured, r) =>
          /\ Declared(Unconfigured, r)
          /\ Merged(Unconfigured, r) =
                [sm |-> a.sm, ordinal |-> a.ordinal, inspects |-> a.root # None]
=============================================================================
