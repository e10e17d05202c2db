-------------------------- MODULE MCPreflightRules --------------------------
(***************************************************************************)
(* A well-formed request of each capability, all of whose facts are        *)
(* options, and up to MaxEdits changes of a field of the request or of the *)
(* provider's configuration, so that several defects meet; or the request  *)
(* of the manual validation script.                                        *)
(***************************************************************************)
EXTENDS ManualValidation

CONSTANT MaxEdits   \* bound: fields changed

VARIABLES
    config, request, edits,
    arguments   \* of the script, None when the request is not the script's

mcVars == <<config, request, edits, arguments>>

Device(kind, backend, index) == [kind |-> kind, backend |-> backend, index |-> index]
Devices == {Device("gpu", "cuda", 0), Device("gpu", "cuda", 1), Device("gpu", "rocm", 0),
            Device("cpu", None, 0), Device("malformed", None, 0)}

RawDevice ==
    [device |-> Device("gpu", "cuda", 0), runtime |-> "cuda-driver", features |-> {"driver-api"},
     layouts |-> {}, spaces |-> {"device"}, architectures |-> <<"sm_80">>, reuse |-> FALSE]
FrameworkDevice(lane) ==
    [device |-> Device("gpu", "cuda", 0), runtime |-> Required[lane].runtime,
     features |-> Required[lane].features, layouts |-> Required[lane].layouts,
     spaces |-> Required[lane].spaces, architectures |-> << >>, reuse |-> TRUE]

Good(capability) ==
    [provider |-> "rextio-device-cuda", capability |-> capability,
     target |-> CapabilityTargets[capability], kind |-> "extension", fallback |-> "cpython",
     devices |-> << IF capability \in Frameworks THEN FrameworkDevice(capability) ELSE RawDevice >>,
     pins |-> IF capability \in Frameworks THEN Pins[capability] ELSE {},
     options |-> [probe |-> "probe1", ordinal |-> "zero", sm |-> "sm_80"]]

Values ==
    [probe |-> {"probe1", "probe2"}, root |-> {"root1", "root2"},
     ordinal |-> DOMAIN Digits \union {"text"}, sm |-> {"sm_80", "sm_90", "sm_10", "bad"},
     unknown |-> {"value"}, invalid |-> {"value"}]
ConfigValues ==
    [probe |-> {None, "probe1"}, root |-> {None, "root1"}, ordinal |-> {None, 0, 1, 1024},
     sm |-> {None, "sm_80", "sm_90", "sm_wide", "bad"}, injected |-> SUBSET {"runner", "inspector"}]
\* Python's None is no option's text, and no name the script passes on.
ASSUME NoneAssumption ==
    /\ \A key \in DOMAIN Values: None \notin Values[key]
    /\ \A a \in Arguments: None \notin {a.probe, a.sm}

Init ==
    /\ config = Unconfigured
    /\ \/ /\ request \in {Good(capability) : capability \in DOMAIN CapabilityTargets}
          /\ arguments = None
       \/ /\ arguments \in {a \in Arguments : ~ Refused(a)}
          /\ request = ScriptRequest(arguments)
    /\ edits = 0

Edit ==
    /\ arguments = None /\ edits < MaxEdits
    /\ edits' = edits + 1 /\ UNCHANGED arguments

EditSelection ==
    /\ Edit
    /\ \/ \E p \in {"other"}: request' = [request EXCEPT !.provider = p]
       \/ \E n \in DOMAIN CapabilityTargets \union {"unknown"}: request' = [request EXCEPT !.capability = n]
       \/ \E t \in {"x86_64-linux", "aarch64-linux"}: request' = [request EXCEPT !.target = t]
       \/ \E k \in {"executable", "crate"}: request' = [request EXCEPT !.kind = k]
       \/ request' = [request EXCEPT !.fallback = None]
       \/ \E p \in {{}, Pins.libtorch, Pins.tfe, {"libtorch"}}: request' = [request EXCEPT !.pins = p]
    /\ UNCHANGED config

EditDevice ==
    /\ Edit
    /\ \E i \in DOMAIN request.devices:
          \/ \E d \in Devices: request' = [request EXCEPT !.devices[i].device = d]
          \/ \E n \in {None, "cuda", "libtorch", "tensorflow-tfe"}:
                request' = [request EXCEPT !.devices[i].runtime = n]
          \/ \E fs \in {{}, {"inference", "no-grad"}, {"eager", "inference", "no-grad"}}:
                request' = [request EXCEPT !.devices[i].features = fs]
          \/ \E ls \in {{}, {"strided"}, {"dense", "strided"}}:
                request' = [request EXCEPT !.devices[i].layouts = ls]
          \/ \E ss \in {{}, {"device", "host"}}: request' = [request EXCEPT !.devices[i].spaces = ss]
          \/ \E sms \in {<< >>, <<"sm_90">>, <<"sm_999">>, <<"bad">>, <<"sm_80", "sm_90">>}:
                request' = [request EXCEPT !.devices[i].architectures = sms]
          \/ request' = [request EXCEPT !.devices[i].reuse = ~ @]
    /\ UNCHANGED config

EditDevices ==
    /\ Edit
    /\ \/ request' = [request EXCEPT !.devices = << >>]
       \/ \E d \in Devices:
             request' = [request EXCEPT !.devices = <<[RawDevice EXCEPT !.device = d]>> \o @]
    /\ Len(request'.devices) <= 2
    /\ UNCHANGED config

EditOptions ==
    /\ Edit
    /\ \/ \E k \in DOMAIN request.options:
             request' = [request EXCEPT !.options = [j \in DOMAIN @ \ {k} |-> @[j]]]
       \/ \E k \in DOMAIN Values: \E v \in Values[k]:
             request' = [request EXCEPT !.options =
                            [j \in DOMAIN @ \union {k} |-> IF j = k THEN v ELSE @[j]]]
    /\ UNCHANGED config

\* A provider constructed with another configuration.
EditConfig ==
    /\ Edit
    /\ \E k \in DOMAIN config: \E v \in ConfigValues[k]: config' = [config EXCEPT ![k] = v]
    /\ ValidConfig(config')
    /\ UNCHANGED request

Done == (arguments # None \/ edits = MaxEdits) /\ UNCHANGED mcVars

Next == EditSelection \/ EditDevice \/ EditDevices \/ EditOptions \/ EditConfig \/ Done

Spec == Init /\ [][Next]_mcVars

-----------------------------------------------------------------------------
\* preflight probes only for requests that manifest() declares.
AcceptedIsDeclared == Accepted(config, request) => Declared(config, request)

\* No fact of an accepted request is overridden by another source of it.
FactsAgree == Accepted(config, request) => NothingOverridden(config, request)

\* What the constructor's values make acceptable is accepted, with the same
\* device and toolkit, when the request carries them as options instead: the
\* only way production has (docs/evidence/build-only.md).
OptionsSuffice ==
    Accepted(config, request) =>
        LET explicit == Explicit(config, request) IN
        /\ Accepted(NoFacts(config), explicit)
        /\ Merged(NoFacts(config), explicit) = Merged(config, request)

\* The manual validation script, whose targets, capabilities, features and options
\* are written apart from the provider's, asks for what it was told to on every
\* host it declares, and is never refused for a request of its own making.
ScriptAsksAsTold == arguments # None => AskedAsTold(arguments, request)
=============================================================================
