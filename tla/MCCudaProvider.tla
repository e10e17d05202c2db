--------------------------- MODULE MCCudaProvider ---------------------------
(***************************************************************************)
(* Requests as scripts/validate_preflight.py makes them of a provider      *)
(* whose configuration sets nothing but the version floors (raised ones in *)
(* ProviderDevices), judged by the operators of PreflightRules: two of one *)
(* capability that differ in the device they ask for, one of them without  *)
(* a toolkit root, and one for an unsupported architecture.  Hosts at the  *)
(* declared floors, at the raised ones and at the driver/toolkit boundary, *)
(* with another device, with a driver one minor version short of its       *)
(* toolkit, and without a usable driver.                                   *)
(***************************************************************************)
EXTENDS CudaProvider, TLC

CONSTANTS t1, t2, t3

Script == INSTANCE ManualValidation WITH None <- NoRequest

Asked(sm, root) ==
    Script!ScriptRequest([host |-> "linux-x86_64", ordinal |-> 0, sm |-> sm,
                          probe |-> "probe1", root |-> root])

\* What CudaProvider keeps of a request.
Seen(q) ==
    [artifact |-> <<q.target, q.kind, q.devices, q.pins>>,
     selection |-> <<q.provider, q.capability>>,
     options |-> Script!Merged(Script!Unconfigured, q)]

Raw80 == Asked("sm_80", "root1")
Raw90 == Asked("sm_90", NoRequest)
Raw999 == Asked("sm_999", "root1")

Host(status, version, sms, toolkit) ==
    [devices |-> sms, status |-> status, toolkit |-> toolkit, driver |-> version]

AtFloor == Host("probe-complete", 12000, <<"sm_80">>, <<12, 0>>)
AtBoundary == Host("probe-complete", 12040, <<"sm_80">>, <<12, 4>>)
DriverBehind == Host("probe-complete", 12030, <<"sm_80">>, <<12, 4>>)
OtherDevice == Host("probe-complete", 12030, <<"sm_90">>, <<12, 4>>)
Broken == Host("unavailable", 0, << >>, NoToolkit)

MCThreads2 == {t1, t2}
MCThreads3 == {t1, t2, t3}
SymmetricThreads == Permutations({t1, t2, t3})

MCOneRequest == {Seen(Raw80)}
MCTwoDevices == {Seen(q) : q \in {Raw80, Raw90, Raw999}}
MCWellFormed ==
    {Seen(q) : q \in {r \in {Raw80, Raw90, Raw999} : Script!Accepted(Script!Unconfigured, r)}}

MCHosts == {AtFloor, AtBoundary, OtherDevice}
MCUnsteadyHosts == {AtFloor, DriverBehind, Broken}
\* The configured toolkit floor: the declared one, and a raised one.
MCMinToolkit == <<12, 0>>
MCRaisedToolkit == <<12, 4>>
=============================================================================
