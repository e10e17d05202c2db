------------------------ MODULE PreflightRulesProofs ------------------------
(***************************************************************************)
(* Every property of PreflightRules, for any number of edits of a request  *)
(* and of the provider's configuration.  Each list of checks is first      *)
(* reduced to the conjunction of its conditions (SelectionPasses, ...,     *)
(* AcceptedPasses); the properties then follow from a request that is      *)
(* well-formed, which every edit preserves (RulesInv).                     *)
(***************************************************************************)
EXTENDS MCPreflightRules, FiniteSetTheorems, WellFoundedInduction, TLAPS

Less == {pair \in Nat \X Nat: pair[1] < pair[2]}

\* A nonempty set of numbers has a smallest one: the failing check that decides.
LEMMA Smallest ==
    ASSUME NEW T \in SUBSET Nat, T # {}
    PROVE  \E i \in T: \A j \in T: i <= j
<1>1. OpToRel(<, Nat) = Less
  BY DEF OpToRel, Less
<1>2. IsWellFoundedOn(Less, Nat)
  BY <1>1, NatLessThanWellFounded, Zenon
<1>3. PICK i \in T: \A j \in T: ~ (<<j, i>> \in Less)
  BY <1>2, WFMin, Zenon
<1>4. ASSUME NEW j \in T PROVE i <= j
  <2>1. i \in Nat /\ j \in Nat /\ ~ (<<j, i>> \in Less)
    BY <1>3
  <2> QED
    BY <2>1 DEF Less
<1> QED
  BY <1>4, Zenon

\* What FirstFailure is for: its answer is "ok" exactly when every check holds.
LEMMA Passes ==
    ASSUME NEW n \in Nat, NEW checks, DOMAIN checks = 1..n,
           \A i \in 1..n: checks[i][2] # "ok"
    PROVE  FirstFailure(checks) = "ok" <=> \A i \in 1..n: checks[i][1]
<1> DEFINE failing == {i \in DOMAIN checks: ~ checks[i][1]}
<1>1. CASE failing = {}
  <2>1. FirstFailure(checks) = "ok"
    BY <1>1 DEF FirstFailure
  <2>2. \A i \in 1..n: checks[i][1]
    BY <1>1
  <2> QED
    BY <2>1, <2>2
<1>2. CASE failing # {}
  <2>1. failing \in SUBSET Nat
    OBVIOUS
  <2>2. \E i \in failing: \A j \in failing: i <= j
    BY <1>2, <2>1, Smallest
  <2>3. PICK i \in failing: i = CHOOSE k \in failing: \A j \in failing: k <= j
    BY <2>2
  <2>4. FirstFailure(checks) = checks[i][2]
    BY <1>2, <2>3 DEF FirstFailure
  <2>5. i \in 1..n /\ ~ checks[i][1]
    OBVIOUS
  <2>6. FirstFailure(checks) # "ok"
    BY <2>4, <2>5
  <2> QED
    BY <2>5, <2>6, Zenon
<1> QED
  BY <1>1, <1>2

\* Then goes on when no check failed, and reports the failure otherwise.
LEMMA ThenPasses ==
    ASSUME NEW verdict, NEW next
    PROVE  Then(verdict, next) = "ok" <=> verdict = "ok" /\ next = "ok"
BY DEF Then

-----------------------------------------------------------------------------
\* A selection that no option repairs: provider, capability, target, artifact kind.
LEMMA SelectionPasses ==
    ASSUME NEW r
    PROVE  SelectionChecks(r) = "ok" <=>
              /\ r.provider = "rextio-device-cuda"
              /\ r.capability \in DOMAIN CapabilityTargets
              /\ r.target = CapabilityTargets[r.capability]
              /\ IsFramework(r) => r.kind = "extension"
<1> DEFINE s == << <<r.provider = "rextio-device-cuda", "PROVIDER_ID_MISMATCH">>,
                   <<r.capability \in DOMAIN CapabilityTargets, "CAPABILITY_UNKNOWN">> >>
           t == << <<r.target = CapabilityTargets[r.capability], "TARGET_MISMATCH">>,
                   <<IsFramework(r) => r.kind = "extension", "ARTIFACT_KIND_UNSUPPORTED">> >>
<1>1. SelectionChecks(r) = Then(FirstFailure(s), FirstFailure(t))
  BY DEF SelectionChecks
<1>2. /\ DOMAIN s = 1..2 /\ DOMAIN t = 1..2
      /\ \A i \in 1..2: s[i][2] # "ok" /\ t[i][2] # "ok"
  OBVIOUS
<1>3. /\ s[1][1] <=> r.provider = "rextio-device-cuda"
      /\ s[2][1] <=> r.capability \in DOMAIN CapabilityTargets
  OBVIOUS
<1>4. /\ t[1][1] <=> r.target = CapabilityTargets[r.capability]
      /\ t[2][1] <=> (IsFramework(r) => r.kind = "extension")
  BY DEF IsFramework
<1>5. 2 \in Nat
  OBVIOUS
<1> HIDE DEF s, t
<1>6. /\ FirstFailure(s) = "ok" <=> \A i \in 1..2: s[i][1]
      /\ FirstFailure(t) = "ok" <=> \A i \in 1..2: t[i][1]
  BY <1>2, <1>5, Passes, Zenon
<1>7. /\ FirstFailure(s) = "ok" <=> s[1][1] /\ s[2][1]
      /\ FirstFailure(t) = "ok" <=> t[1][1] /\ t[2][1]
  BY <1>6
<1> QED
  BY <1>1, <1>3, <1>4, <1>7, ThenPasses, Zenon

\* No option is malformed or unknown, and a framework lane has no toolkit root.
LEMMA OptionsPass ==
    ASSUME NEW c, NEW r
    PROVE  OptionChecks(c, r) = "ok" <=>
              /\ "invalid" \notin DOMAIN r.options
              /\ DOMAIN r.options \subseteq AllowedKeys(r)
              /\ IsFramework(r) => c.root = None
<1> DEFINE s == <<
        <<"invalid" \notin DOMAIN r.options, "PROVIDER_OPTIONS_INVALID">>,
        <<DOMAIN r.options \subseteq AllowedKeys(r), "PROVIDER_OPTION_UNKNOWN">>,
        <<IsFramework(r) => c.root = None, "TOOLKIT_ROOT_UNSUPPORTED">> >>
<1>1. OptionChecks(c, r) = FirstFailure(s)
  BY DEF OptionChecks
<1>2. DOMAIN s = 1..3 /\ \A i \in 1..3: s[i][2] # "ok"
  OBVIOUS
<1>3. /\ s[1][1] <=> "invalid" \notin DOMAIN r.options
      /\ s[2][1] <=> DOMAIN r.options \subseteq AllowedKeys(r)
      /\ s[3][1] <=> (IsFramework(r) => c.root = None)
  BY DEF IsFramework
<1>4. 3 \in Nat
  OBVIOUS
<1> HIDE DEF s
<1>5. FirstFailure(s) = "ok" <=> \A i \in 1..3: s[i][1]
  BY <1>2, <1>4, Passes, Zenon
<1>6. FirstFailure(s) = "ok" <=> s[1][1] /\ s[2][1] /\ s[3][1]
  BY <1>5
<1> QED
  BY <1>1, <1>3, <1>6, Zenon

\* The lane's requirement is exact: the first CUDA device with the runtime,
\* features, layouts and memory spaces that manifest() declares.
LEMMA FrameworkIsExact ==
    ASSUME NEW r, FrameworkChecks(r) = "ok"
    PROVE  /\ Len(r.devices) = 1
           /\ FirstCudaDevice(r.devices[1])
           /\ r.devices[1].reuse
           /\ r.devices[1].runtime = Required[r.capability].runtime
           /\ r.devices[1].features = Required[r.capability].features
           /\ r.devices[1].layouts = Required[r.capability].layouts
           /\ r.devices[1].spaces = Required[r.capability].spaces
<1> DEFINE d == r.devices[1]
           lane == Required[r.capability]
           s == << <<r.capability = "tfe" => r.fallback = "cpython", "CPYTHON_REQUIRED">>,
                   <<Len(r.devices) = 1, "EXACTLY_ONE_CUDA_DEVICE_REQUIRED">> >>
           t == <<
            <<d.device.kind # "malformed", "CUDA_DEVICE_REQUIREMENT_INVALID">>,
            <<FirstCudaDevice(d), "CUDA_DEVICE_UNSUPPORTED">>,
            <<d.runtime = lane.runtime, "RUNTIME_REQUIRED">>,
            <<d.reuse, "RUNTIME_REUSE_REQUIRED">>,
            <<Len(d.architectures) <= 1, "AT_MOST_ONE_SM_ALLOWED">>,
            <<d.architectures = << >> \/ SmPattern(d.architectures[1]), "INVALID_SM">>,
            <<Exactly(d.features, lane.features), "FEATURES_INCOMPATIBLE">>,
            <<Exactly(d.layouts, lane.layouts), "LAYOUT_INCOMPATIBLE">>,
            <<Exactly(d.spaces, lane.spaces), "MEMORY_SPACE_INCOMPATIBLE">>,
            <<Pins[r.capability] \subseteq r.pins, "RUNTIME_PINS_REQUIRED">> >>
<1>1. FrameworkChecks(r) = Then(FirstFailure(s), FirstFailure(t))
  BY DEF FrameworkChecks
<1>2. DOMAIN s = 1..2 /\ \A i \in 1..2: s[i][2] # "ok"
  OBVIOUS
<1>3. DOMAIN t = 1..10 /\ \A i \in 1..10: t[i][2] # "ok"
  OBVIOUS
<1>4. /\ s[2][1] <=> Len(r.devices) = 1
      /\ t[2][1] <=> FirstCudaDevice(d)
      /\ t[3][1] <=> d.runtime = lane.runtime
      /\ t[4][1] <=> d.reuse
      /\ t[7][1] <=> d.features = lane.features
      /\ t[8][1] <=> d.layouts = lane.layouts
      /\ t[9][1] <=> d.spaces = lane.spaces
  BY DEF Exactly, FirstCudaDevice, IsCuda
<1>5. 2 \in Nat /\ 10 \in Nat
  OBVIOUS
<1> HIDE DEF s, t
<1>6. FirstFailure(s) = "ok" /\ FirstFailure(t) = "ok"
  BY <1>1, ThenPasses, Zenon
<1>7. (\A i \in 1..2: s[i][1]) /\ (\A i \in 1..10: t[i][1])
  BY <1>2, <1>3, <1>5, <1>6, Passes, Zenon
<1>8. s[2][1] /\ t[2][1] /\ t[3][1] /\ t[4][1] /\ t[7][1] /\ t[8][1] /\ t[9][1]
  BY <1>7
<1> QED
  BY <1>4, <1>8, Zenon

\* Two values for one fact agree, for every fact that the request's lane merges.
LEMMA MergePasses ==
    ASSUME NEW c, NEW r
    PROVE  MergeChecks(c, r) = "ok" <=>
              /\ Agree(Option(r, "probe"), Constructor(c, "probe"))
              /\ IsFramework(r) \/ Agree(Option(r, "root"), Constructor(c, "root"))
              /\ Agree(Option(r, "ordinal"), Constructor(c, "ordinal"))
              /\ Agree(Option(r, "sm"), Constructor(c, "sm"))
<1> DEFINE check(key) == <<Agree(Option(r, key), Constructor(c, key)), Conflict(key)>>
           s == << check("probe"), <<IsFramework(r) \/ check("root")[1], Conflict("root")>>,
                   check("ordinal"), check("sm") >>
<1>1. MergeChecks(c, r) = FirstFailure(s)
  BY DEF MergeChecks
<1>2. \A key \in {"probe", "root", "ordinal", "sm"}: Conflict(key) # "ok"
  BY DEF Conflict
<1>3. DOMAIN s = 1..4 /\ \A i \in 1..4: s[i][2] # "ok"
  BY <1>2
<1>4. /\ s[1][1] <=> Agree(Option(r, "probe"), Constructor(c, "probe"))
      /\ s[2][1] <=> IsFramework(r) \/ Agree(Option(r, "root"), Constructor(c, "root"))
      /\ s[3][1] <=> Agree(Option(r, "ordinal"), Constructor(c, "ordinal"))
      /\ s[4][1] <=> Agree(Option(r, "sm"), Constructor(c, "sm"))
  BY DEF Agree, IsFramework
<1>5. 4 \in Nat
  OBVIOUS
<1> HIDE DEF s
<1>6. FirstFailure(s) = "ok" <=> \A i \in 1..4: s[i][1]
  BY <1>3, <1>5, Passes, Zenon
<1>7. FirstFailure(s) = "ok" <=> s[1][1] /\ s[2][1] /\ s[3][1] /\ s[4][1]
  BY <1>6
<1> QED
  BY <1>1, <1>4, <1>7, Zenon

\* The merged values are in range and are what the requirement says.
LEMMA SelectedPasses ==
    ASSUME NEW c, NEW r
    PROVE  SelectedChecks(c, r) = "ok" <=>
              /\ Coalesce(c, r, "ordinal") # None
              /\ Coalesce(c, r, "ordinal") \in DOMAIN Digits
              /\ Digits[Coalesce(c, r, "ordinal")] <= 1023
              /\ Coalesce(c, r, "sm") # None
              /\ SmPattern(Coalesce(c, r, "sm"))
              /\ Coalesce(c, r, "sm") \in Architectures
              /\ Matches(c, r)
              /\ "runner" \in c.injected \/ Coalesce(c, r, "probe") # None
<1> DEFINE text == Coalesce(c, r, "ordinal")
           sm == Coalesce(c, r, "sm")
           s == << <<text # None, "DEVICE_ORDINAL_NOT_CONFIGURED">>,
                   <<text \in DOMAIN Digits, "DEVICE_ORDINAL_INVALID">> >>
           t == <<
            <<Digits[text] <= 1023, "DEVICE_ORDINAL_INVALID">>,
            <<sm # None, "SM_NOT_CONFIGURED">>,
            <<SmPattern(sm), "INVALID_SM">>,
            <<sm \in Architectures, "CUDA_ARCHITECTURE_UNSUPPORTED">>,
            <<Matches(c, r), "DEVICE_REQUIREMENT_MISMATCH">>,
            <<"runner" \in c.injected \/ Coalesce(c, r, "probe") # None, "PROBE_NOT_CONFIGURED">> >>
<1>1. SelectedChecks(c, r) = Then(FirstFailure(s), FirstFailure(t))
  BY DEF SelectedChecks
<1>2. DOMAIN s = 1..2 /\ \A i \in 1..2: s[i][2] # "ok"
  OBVIOUS
<1>3. DOMAIN t = 1..6 /\ \A i \in 1..6: t[i][2] # "ok"
  OBVIOUS
<1>4. (s[1][1] <=> text # None) /\ (s[2][1] <=> text \in DOMAIN Digits)
  OBVIOUS
<1>5. /\ t[1][1] <=> Digits[text] <= 1023
      /\ t[2][1] <=> sm # None
      /\ t[3][1] <=> SmPattern(sm)
      /\ t[4][1] <=> sm \in Architectures
      /\ t[5][1] <=> Matches(c, r)
      /\ t[6][1] <=> ("runner" \in c.injected \/ Coalesce(c, r, "probe") # None)
  BY DEF Matches, SmPattern
<1>6. 2 \in Nat /\ 6 \in Nat
  OBVIOUS
<1> HIDE DEF s, t
<1>7. /\ FirstFailure(s) = "ok" <=> \A i \in 1..2: s[i][1]
      /\ FirstFailure(t) = "ok" <=> \A i \in 1..6: t[i][1]
  BY <1>2, <1>3, <1>6, Passes, Zenon
<1>8. FirstFailure(s) = "ok" <=> s[1][1] /\ s[2][1]
  BY <1>7
<1>9. FirstFailure(t) = "ok" <=> /\ t[1][1] /\ t[2][1] /\ t[3][1]
                                 /\ t[4][1] /\ t[5][1] /\ t[6][1]
  BY <1>7
<1> QED
  BY <1>1, <1>4, <1>5, <1>8, <1>9, ThenPasses, Zenon

\* A request is accepted when each group of checks passes.
LEMMA AcceptedPasses ==
    ASSUME NEW c, NEW r
    PROVE  Accepted(c, r) <=>
              /\ SelectionChecks(r) = "ok" /\ OptionChecks(c, r) = "ok"
              /\ RequirementChecks(r) = "ok" /\ MergeChecks(c, r) = "ok"
              /\ SelectedChecks(c, r) = "ok"
<1> DEFINE last == Then(MergeChecks(c, r), SelectedChecks(c, r))
           third == Then(RequirementChecks(r), last)
           second == Then(OptionChecks(c, r), third)
<1>1. Verdict(c, r) = Then(SelectionChecks(r), second)
  BY DEF Verdict
<1>2. Accepted(c, r) <=> Verdict(c, r) = "ok"
  BY DEF Accepted
<1> HIDE DEF second
<1>3. Accepted(c, r) <=> SelectionChecks(r) = "ok" /\ second = "ok"
  BY <1>1, <1>2, ThenPasses
<1> USE DEF second
<1> HIDE DEF third
<1>4. second = "ok" <=> OptionChecks(c, r) = "ok" /\ third = "ok"
  BY ThenPasses
<1> USE DEF third
<1> HIDE DEF last
<1>5. third = "ok" <=> RequirementChecks(r) = "ok" /\ last = "ok"
  BY ThenPasses
<1>6. last = "ok" <=> MergeChecks(c, r) = "ok" /\ SelectedChecks(c, r) = "ok"
  BY ThenPasses DEF last
<1> HIDE DEF second, third
<1> QED
  BY <1>3, <1>4, <1>5, <1>6, Zenon

\* The requirement of a framework lane passes the lane's own checks.
LEMMA RequirementPasses ==
    ASSUME NEW r, RequirementChecks(r) = "ok", IsFramework(r)
    PROVE  FrameworkChecks(r) = "ok"
BY ThenPasses DEF RequirementChecks

-----------------------------------------------------------------------------
\* A well-formed request: its fields, whose devices are requirements as the core
\* builds them, and options that have values.
Fields == {"provider", "capability", "target", "kind", "fallback", "devices", "pins", "options"}
SmNames == Architectures \union {"sm_10", "sm_999", "bad"}
Requirements ==
    [device: Devices, runtime: {None, "cuda", "cuda-driver", "libtorch", "tensorflow-tfe"},
     features: SUBSET {"driver-api", "eager", "inference", "no-grad"},
     layouts: SUBSET {"dense", "strided"}, spaces: SUBSET {"device", "host"},
     architectures: Seq(SmNames), reuse: BOOLEAN]
RequestInv ==
    /\ DOMAIN request = Fields
    /\ request.kind \in {"executable", "extension", "crate"}
    /\ request.devices \in Seq(Requirements)
    /\ \A key \in DOMAIN request.options: request.options[key] # None
ConfigInv ==
    /\ DOMAIN config = DOMAIN ConfigValues
    /\ \A key \in DOMAIN ConfigValues: config[key] \in ConfigValues[key]
    /\ ValidConfig(config)
ScriptInv ==
    arguments # None =>
        /\ arguments \in Arguments /\ ~ Refused(arguments)
        /\ request = ScriptRequest(arguments)
RulesInv == RequestInv /\ ConfigInv /\ ScriptInv

\* An ordinal that is in range has a text, and int() reads it back.
LEMMA OrdinalTexts ==
    ASSUME NEW n \in {0, 1}
    PROVE  TextOf(n) \in DOMAIN Digits /\ Digits[TextOf(n)] = n
<1>1. \E t \in DOMAIN Digits: Digits[t] = n /\ t # "zeroPadded"
  <2>1. /\ "zero" \in DOMAIN Digits /\ Digits["zero"] = 0
        /\ "one" \in DOMAIN Digits /\ Digits["one"] = 1
    BY DEF Digits
  <2> QED
    BY <2>1
<1> QED
  BY <1>1 DEF TextOf

\* The devices of well-formed requests, before any edit.
LEMMA GoodDevices ==
    /\ RawDevice \in Requirements
    /\ \A lane \in Frameworks: FrameworkDevice(lane) \in Requirements
<1>1. Device("gpu", "cuda", 0) \in Devices
  BY DEF Devices
<1>2. RawDevice \in Requirements
  <2>1. <<"sm_80">> \in Seq(SmNames)
    BY DEF SmNames, Architectures
  <2> QED
    BY <1>1, <2>1 DEF RawDevice, Requirements
<1>3. ASSUME NEW lane \in Frameworks PROVE FrameworkDevice(lane) \in Requirements
  <2>1. << >> \in Seq(SmNames)
    OBVIOUS
  <2>2. /\ Required[lane].runtime \in {"libtorch", "tensorflow-tfe"}
        /\ Required[lane].features \in SUBSET {"driver-api", "eager", "inference", "no-grad"}
        /\ Required[lane].layouts \in SUBSET {"dense", "strided"}
        /\ Required[lane].spaces \in SUBSET {"device", "host"}
    BY <1>3 DEF Frameworks, Required
  <2> QED
    BY <1>1, <2>1, <2>2 DEF FrameworkDevice, Requirements
<1> QED
  BY <1>2, <1>3

\* One field of one device changes, and the device stays a requirement.
LEMMA EditDeviceKeepsType ==
    ASSUME RequestInv, EditDevice
    PROVE  RequestInv'
<1>1. PICK i \in DOMAIN request.devices:
          \E d \in Requirements:
              request' = [request EXCEPT !.devices = [request.devices EXCEPT ![i] = d]]
  <2>1. PICK i \in DOMAIN request.devices:
            \/ \E d \in Devices: request' = [request EXCEPT !.devices[i].device = d]
            \/ \E n \in {None, "cuda", "libtorch", "tensorflow-tfe"}:
                  request' = [request EXCEPT !.devices[i].runtime = n]
            \/ \E fs \in {{}, {"inference", "no-grad"}, {"eager", "inference", "no-grad"}}:
                  request' = [request EXCEPT !.devices[i].features = fs]
            \/ \E ls \in {{}, {"strided"}, {"dense", "strided"}}:
                  request' = [request EXCEPT !.devices[i].layouts = ls]
            \/ \E ss \in {{}, {"device", "host"}}: request' = [request EXCEPT !.devices[i].spaces = ss]
            \/ \E sms \in {<< >>, <<"sm_90">>, <<"sm_999">>, <<"bad">>, <<"sm_80", "sm_90">>}:
                  request' = [request EXCEPT !.devices[i].architectures = sms]
            \/ request' = [request EXCEPT !.devices[i].reuse = ~ @]
    BY DEF EditDevice
  <2> DEFINE old == request.devices[i]
             Becomes(d) == request' = [request EXCEPT !.devices = [request.devices EXCEPT ![i] = d]]
  <2>2. old \in Requirements
    BY DEF RequestInv
  <2>3. CASE \E d \in Devices: request' = [request EXCEPT !.devices[i].device = d]
    <3>1. PICK d \in Devices: Becomes([old EXCEPT !.device = d])
      BY <2>3
    <3>2. [old EXCEPT !.device = d] \in Requirements
      BY <2>2 DEF Requirements
    <3> QED
      BY <3>1, <3>2
  <2>4. CASE \E n \in {None, "cuda", "libtorch", "tensorflow-tfe"}:
                  request' = [request EXCEPT !.devices[i].runtime = n]
    <3>1. PICK n \in {None, "cuda", "libtorch", "tensorflow-tfe"}: Becomes([old EXCEPT !.runtime = n])
      BY <2>4
    <3>2. [old EXCEPT !.runtime = n] \in Requirements
      BY <2>2 DEF Requirements
    <3> QED
      BY <3>1, <3>2
  <2>5. CASE \E fs \in {{}, {"inference", "no-grad"}, {"eager", "inference", "no-grad"}}:
                  request' = [request EXCEPT !.devices[i].features = fs]
    <3>1. PICK fs \in SUBSET {"driver-api", "eager", "inference", "no-grad"}:
              Becomes([old EXCEPT !.features = fs])
      BY <2>5
    <3>2. [old EXCEPT !.features = fs] \in Requirements
      BY <2>2 DEF Requirements
    <3> QED
      BY <3>1, <3>2
  <2>6. CASE \E ls \in {{}, {"strided"}, {"dense", "strided"}}:
                  request' = [request EXCEPT !.devices[i].layouts = ls]
    <3>1. PICK ls \in SUBSET {"dense", "strided"}: Becomes([old EXCEPT !.layouts = ls])
      BY <2>6
    <3>2. [old EXCEPT !.layouts = ls] \in Requirements
      BY <2>2 DEF Requirements
    <3> QED
      BY <3>1, <3>2
  <2>7. CASE \E ss \in {{}, {"device", "host"}}: request' = [request EXCEPT !.devices[i].spaces = ss]
    <3>1. PICK ss \in SUBSET {"device", "host"}: Becomes([old EXCEPT !.spaces = ss])
      BY <2>7
    <3>2. [old EXCEPT !.spaces = ss] \in Requirements
      BY <2>2 DEF Requirements
    <3> QED
      BY <3>1, <3>2
  <2>8. CASE \E sms \in {<< >>, <<"sm_90">>, <<"sm_999">>, <<"bad">>, <<"sm_80", "sm_90">>}:
                  request' = [request EXCEPT !.devices[i].architectures = sms]
    <3>1. PICK sms \in {<< >>, <<"sm_90">>, <<"sm_999">>, <<"bad">>, <<"sm_80", "sm_90">>}:
              Becomes([old EXCEPT !.architectures = sms])
      BY <2>8
    <3>2. sms \in Seq(SmNames)
      <4>1. {"sm_80", "sm_90", "sm_999", "bad"} \subseteq SmNames
        BY DEF SmNames, Architectures
      <4>2. << >> \in Seq(SmNames) /\ \A sm \in SmNames: <<sm>> \in Seq(SmNames)
        OBVIOUS
      <4>3. \A sm, other \in SmNames: <<sm, other>> \in Seq(SmNames)
        OBVIOUS
      <4> QED
        BY <4>1, <4>2, <4>3
    <3>3. [old EXCEPT !.architectures = sms] \in Requirements
      BY <2>2, <3>2 DEF Requirements
    <3> QED
      BY <3>1, <3>3
  <2>9. CASE request' = [request EXCEPT !.devices[i].reuse = ~ @]
    <3>1. Becomes([old EXCEPT !.reuse = ~ old.reuse])
      BY <2>9
    <3>2. [old EXCEPT !.reuse = ~ old.reuse] \in Requirements
      BY <2>2 DEF Requirements
    <3> QED
      BY <3>1, <3>2
  <2> QED
    BY <2>1, <2>3, <2>4, <2>5, <2>6, <2>7, <2>8, <2>9
<1>2. PICK d \in Requirements:
          request' = [request EXCEPT !.devices = [request.devices EXCEPT ![i] = d]]
  BY <1>1
<1>3. [request.devices EXCEPT ![i] = d] \in Seq(Requirements)
  BY DEF RequestInv
<1> QED
  BY <1>2, <1>3 DEF RequestInv, Fields

\* The good requests and those of the script are well-formed.
LEMMA Initially == Init => RulesInv
<1>1. SUFFICES ASSUME Init PROVE RulesInv
  OBVIOUS
<1>2. ConfigInv
  BY <1>1 DEF Init, Unconfigured, ConfigInv, ConfigValues, ValidConfig
<1>3. ScriptInv
  BY <1>1 DEF Init, ScriptInv
<1>4. CASE request \in {Good(capability) : capability \in DOMAIN CapabilityTargets}
  <2>1. PICK capability \in DOMAIN CapabilityTargets: request = Good(capability)
    BY <1>4
  <2>2. DOMAIN request = Fields /\ request.kind \in {"executable", "extension", "crate"}
    BY <2>1 DEF Good, Fields
  <2>3. request.devices \in Seq(Requirements)
    <3>1. request.devices =
            << IF capability \in Frameworks THEN FrameworkDevice(capability) ELSE RawDevice >>
      BY <2>1 DEF Good
    <3>2. \A d \in Requirements: <<d>> \in Seq(Requirements)
      OBVIOUS
    <3> QED
      BY <3>1, <3>2, GoodDevices
  <2>4. \A key \in DOMAIN request.options: request.options[key] # None
    <3>1. request.options = [probe |-> "probe1", ordinal |-> "zero", sm |-> "sm_80"]
      BY <2>1 DEF Good
    <3>2. None \notin {"probe1", "zero", "sm_80"}
      BY NoneAssumption DEF Values, Digits
    <3> QED
      BY <3>1, <3>2
  <2> QED
    BY <1>2, <1>3, <2>2, <2>3, <2>4 DEF RulesInv, RequestInv
<1>5. CASE arguments \in {a \in Arguments : ~ Refused(a)} /\ request = ScriptRequest(arguments)
  <2>1. arguments \in Arguments /\ ~ Refused(arguments)
    BY <1>5
  <2>2. DOMAIN request = Fields /\ request.kind \in {"executable", "extension", "crate"}
    BY <1>5 DEF ScriptRequest, Fields
  <2>3. request.devices \in Seq(Requirements)
    <3>1. request.devices = <<ScriptDevice(arguments)>>
      BY <1>5 DEF ScriptRequest
    <3>2. <<arguments.sm>> \in Seq(SmNames)
      <4>1. arguments.sm \in SmNames
        BY <2>1 DEF Arguments, SmNames
      <4> QED
        BY <4>1
    <3>3. arguments.ordinal \in {0, 1}
      BY <2>1 DEF Arguments, Refused
    <3>4. [kind |-> "gpu", backend |-> "cuda", index |-> arguments.ordinal] \in Devices
      BY <3>3 DEF Devices, Device
    <3>5. ScriptDevice(arguments) \in Requirements
      BY <3>2, <3>4 DEF ScriptDevice, Requirements
    <3> QED
      BY <3>1, <3>5
  <2>4. \A key \in DOMAIN request.options: request.options[key] # None
    <3>1. request.options = ScriptOptions(arguments)
      BY <1>5 DEF ScriptRequest
    <3>2. None \notin {arguments.probe, arguments.sm}
      BY <2>1, NoneAssumption
    <3>3. TextOf(arguments.ordinal) # None
      <4>1. arguments.ordinal \in {0, 1}
        BY <2>1 DEF Arguments, Refused
      <4>2. TextOf(arguments.ordinal) \in DOMAIN Digits
        BY <4>1, OrdinalTexts
      <4> QED
        BY <4>2, NoneAssumption DEF Values
    <3> QED
      BY <3>1, <3>2, <3>3 DEF ScriptOptions
  <2> QED
    BY <1>2, <1>3, <2>2, <2>3, <2>4 DEF RulesInv, RequestInv
<1> QED
  BY <1>1, <1>4, <1>5 DEF Init

\* So do the other edits of a request.
LEMMA OtherEditsKeepType ==
    ASSUME RequestInv
    PROVE  /\ EditSelection => RequestInv'
           /\ EditDevices => RequestInv'
           /\ EditOptions => RequestInv'
<1>1. ASSUME EditSelection PROVE RequestInv'
  <2>1. /\ DOMAIN request' = Fields
        /\ request'.devices = request.devices /\ request'.options = request.options
    BY <1>1 DEF EditSelection, RequestInv, Fields
  <2>2. request'.kind \in {"executable", "extension", "crate"}
    BY <1>1 DEF EditSelection, RequestInv, Fields
  <2> QED
    BY <2>1, <2>2 DEF RequestInv
<1>2. ASSUME EditDevices PROVE RequestInv'
  <2>1. PICK ds: request' = [request EXCEPT !.devices = ds] /\ ds \in Seq(Requirements)
    <3>1. CASE request' = [request EXCEPT !.devices = << >>]
      <4>1. << >> \in Seq(Requirements)
        OBVIOUS
      <4> QED
        BY <3>1, <4>1
    <3>2. CASE \E d \in Devices:
                  request' = [request EXCEPT !.devices = <<[RawDevice EXCEPT !.device = d]>> \o @]
      <4>1. PICK d \in Devices: request' =
                [request EXCEPT !.devices = <<[RawDevice EXCEPT !.device = d]>> \o request.devices]
        BY <3>2
      <4>2. [RawDevice EXCEPT !.device = d] \in Requirements
        BY GoodDevices DEF Requirements
      <4>3. <<[RawDevice EXCEPT !.device = d]>> \o request.devices \in Seq(Requirements)
        BY <4>2 DEF RequestInv
      <4> QED
        BY <4>1, <4>3
    <3> QED
      BY <1>2, <3>1, <3>2 DEF EditDevices
  <2> QED
    BY <2>1 DEF RequestInv, Fields
<1>3. ASSUME EditOptions PROVE RequestInv'
  <2>1. PICK options: /\ request' = [request EXCEPT !.options = options]
                      /\ \A key \in DOMAIN options: options[key] # None
    <3>1. CASE \E k \in DOMAIN request.options:
                  request' = [request EXCEPT !.options = [j \in DOMAIN @ \ {k} |-> @[j]]]
      <4>1. PICK k \in DOMAIN request.options:
                request' = [request EXCEPT !.options =
                               [j \in DOMAIN request.options \ {k} |-> request.options[j]]]
        BY <3>1
      <4> DEFINE options == [j \in DOMAIN request.options \ {k} |-> request.options[j]]
      <4>2. \A key \in DOMAIN options: options[key] # None
        BY DEF RequestInv
      <4>3. request' = [request EXCEPT !.options = options]
        BY <4>1
      <4> HIDE DEF options
      <4> QED
        BY <4>2, <4>3
    <3>2. CASE \E k \in DOMAIN Values: \E v \in Values[k]:
                  request' = [request EXCEPT !.options =
                                 [j \in DOMAIN @ \union {k} |-> IF j = k THEN v ELSE @[j]]]
      <4>1. PICK k \in DOMAIN Values: \E v \in Values[k]:
                request' = [request EXCEPT !.options =
                               [j \in DOMAIN request.options \union {k} |->
                                   IF j = k THEN v ELSE request.options[j]]]
        BY <3>2
      <4>2. PICK v \in Values[k]:
                request' = [request EXCEPT !.options =
                               [j \in DOMAIN request.options \union {k} |->
                                   IF j = k THEN v ELSE request.options[j]]]
        BY <4>1
      <4>3. v # None
        BY NoneAssumption
      <4> DEFINE options == [j \in DOMAIN request.options \union {k} |->
                                IF j = k THEN v ELSE request.options[j]]
      <4>4. \A key \in DOMAIN options: options[key] # None
        BY <4>3 DEF RequestInv
      <4>5. request' = [request EXCEPT !.options = options]
        BY <4>2
      <4> HIDE DEF options
      <4> QED
        BY <4>4, <4>5
    <3> QED
      BY <1>3, <3>1, <3>2 DEF EditOptions
  <2> QED
    BY <2>1 DEF RequestInv, Fields
<1> QED
  BY <1>1, <1>2, <1>3

\* Every edit keeps RulesInv.
LEMMA NextStep == RulesInv /\ [Next]_mcVars => RulesInv'
<1>1. SUFFICES ASSUME RulesInv, [Next]_mcVars PROVE RulesInv'
  OBVIOUS
<1> USE DEF RulesInv
<1>2. CASE EditSelection \/ EditDevice \/ EditDevices \/ EditOptions
  <2>1. RequestInv'
    BY <1>1, <1>2, EditDeviceKeepsType, OtherEditsKeepType
  <2>2. config' = config /\ arguments = None /\ arguments' = arguments
    BY <1>2 DEF EditSelection, EditDevice, EditDevices, EditOptions, Edit
  <2>3. ConfigInv'
    BY <1>1, <2>2 DEF ConfigInv
  <2> QED
    BY <2>1, <2>2, <2>3 DEF ScriptInv
<1>3. CASE EditConfig
  <2>1. request' = request /\ arguments = None /\ arguments' = arguments
    BY <1>3 DEF EditConfig, Edit
  <2>2. PICK k \in DOMAIN config: \E v \in ConfigValues[k]: config' = [config EXCEPT ![k] = v]
    BY <1>3 DEF EditConfig
  <2>3. ValidConfig(config')
    BY <1>3 DEF EditConfig
  <2>4. ConfigInv'
    BY <1>1, <2>2, <2>3 DEF ConfigInv
  <2> QED
    BY <1>1, <2>1, <2>4 DEF RequestInv, ScriptInv
<1>4. CASE UNCHANGED mcVars
  BY <1>1, <1>4 DEF mcVars, RequestInv, ConfigInv, ScriptInv
<1> QED
  BY <1>1, <1>2, <1>3, <1>4 DEF Next, Done

\* Requests and configurations are well-formed after any number of edits.
LEMMA Invariance == Spec => []RulesInv
BY Initially, NextStep, PTL DEF Spec

-----------------------------------------------------------------------------
\* The checks of a list of one.
LEMMA OneCheck ==
    ASSUME NEW holds, NEW reason, holds \in BOOLEAN
    PROVE  FirstFailure(<< <<holds, reason>> >>) = IF holds THEN "ok" ELSE reason
<1> DEFINE s == << <<holds, reason>> >>
           failing == {i \in DOMAIN s: ~ s[i][1]}
<1>1. DOMAIN s = {1} /\ (s[1][1] <=> holds) /\ s[1][2] = reason
  OBVIOUS
<1>2. CASE holds
  <2>1. failing = {}
    BY <1>1, <1>2
  <2> QED
    BY <1>2, <2>1 DEF FirstFailure
<1>3. CASE ~ holds
  <2>1. failing = {1}
    BY <1>1, <1>3
  <2>2. (CHOOSE i \in failing: \A j \in failing: i <= j) = 1
    BY <2>1
  <2>3. FirstFailure(s) = s[1][2]
    BY <2>1, <2>2 DEF FirstFailure
  <2> QED
    BY <1>1, <1>3, <2>3
<1> QED
  BY <1>2, <1>3

\* The raw lane picks a requirement for a CUDA device.
LEMMA RawIsCuda ==
    ASSUME NEW r, RawChecks(r) = "ok", ~ IsFramework(r)
    PROVE  Requirement(r).device.backend = "cuda"
<1> DEFINE q == r.devices[CHOOSE i \in CudaDevices(r): TRUE]
           t == <<
            <<~ q.reuse, "FRAMEWORK_RUNTIME_REUSE_UNSUPPORTED">>,
            <<q.runtime \in {None, "cuda", "cuda-driver"}, "CUDA_RUNTIME_INCOMPATIBLE">>,
            <<q.features \subseteq {"driver-api"}, "CUDA_FEATURE_UNSUPPORTED">>,
            <<q.spaces \subseteq {"device"}, "CUDA_MEMORY_SPACE_UNSUPPORTED">>,
            <<q.layouts = {}, "CUDA_LAYOUT_UNSUPPORTED">> >>
           single == Cardinality(CudaDevices(r)) = 1
           one == << <<single, "EXACTLY_ONE_CUDA_DEVICE_REQUIRED">> >>
<1>1. RawChecks(r) = Then(RawArchitectureChecks(r), Then(FirstFailure(one), FirstFailure(t)))
  BY Zenon DEF RawChecks, Requirement
<1> HIDE DEF t
<1>2. FirstFailure(one) = "ok"
  <2> HIDE DEF one
  <2> DEFINE rest == Then(FirstFailure(one), FirstFailure(t))
  <2>1. rest = "ok"
    <3> HIDE DEF rest
    <3> QED
      BY <1>1, ThenPasses DEF rest
  <2> QED
    BY <2>1, ThenPasses
<1>3. single
  <2>1. single \in BOOLEAN
    OBVIOUS
  <2> HIDE DEF single
  <2> QED
    BY <1>2, <2>1, OneCheck
<1>4. CudaDevices(r) # {}
  BY <1>3, FS_EmptySet
<1>5. Requirement(r) = r.devices[CHOOSE i \in CudaDevices(r): TRUE]
  BY DEF Requirement
<1> QED
  BY <1>4, <1>5 DEF CudaDevices, IsCuda

\* AcceptedIsDeclared, for any number of edits: whatever request a core makes and
\* however the provider was constructed, what goes on to the probe is for an
\* accelerator and an architecture that manifest() declares and, on a framework
\* lane, for its target, its artifact kind and exactly its device.
THEOREM OnlyDeclared == Spec => []AcceptedIsDeclared
<1>1. RulesInv => AcceptedIsDeclared
  <2>1. SUFFICES ASSUME RulesInv, Accepted(config, request) PROVE Declared(config, request)
    BY DEF AcceptedIsDeclared
  <2>2. /\ SelectionChecks(request) = "ok" /\ RequirementChecks(request) = "ok"
        /\ SelectedChecks(config, request) = "ok"
    BY <2>1, AcceptedPasses
  <2>3. /\ request.target = CapabilityTargets[request.capability]
        /\ IsFramework(request) => request.kind = "extension"
    BY <2>2, SelectionPasses
  <2>4. Merged(config, request).sm \in Architectures
    <3>1. Coalesce(config, request, "sm") \in Architectures
      BY <2>2, SelectedPasses
    <3> QED
      BY <3>1 DEF Merged
  <2>5. CASE IsFramework(request)
    <3> DEFINE cap == FrameworkCapability(request.capability)
    <3>1. FrameworkChecks(request) = "ok"
      BY <2>2, <2>5, RequirementPasses
    <3>2. /\ Len(request.devices) = 1 /\ request.devices[1] \in Requirements
      BY <2>1, <3>1, FrameworkIsExact DEF RulesInv, RequestInv
    <3>3. request.target \in cap.targets /\ request.kind \in cap.kinds
      BY <2>3, <2>5 DEF IsFramework, Frameworks, CapabilityTargets, FrameworkCapability
    <3>4. Merged(config, request).sm \in cap.architectures
      BY <2>4 DEF FrameworkCapability
    <3>5. request.devices[1].device = [kind |-> "gpu", backend |-> "cuda", index |-> 0]
      <4>1. request.devices[1].device \in Devices
        BY <3>2 DEF Requirements
      <4>2. FirstCudaDevice(request.devices[1])
        BY <3>1, FrameworkIsExact
      <4> QED
        BY <4>1, <4>2 DEF Devices, Device, FirstCudaDevice, IsCuda
    <3>6. request.devices[1].reuse = TRUE
      <4>1. request.devices[1].reuse \in BOOLEAN
        BY <3>2, Zenon DEF Requirements
      <4> QED
        BY <3>1, <4>1, FrameworkIsExact, Zenon
    <3>7. \A field \in DOMAIN cap.device: request.devices[1][field] = cap.device[field]
      <4>1. cap.device = DeclaredDevice(request.capability)
        BY DEF FrameworkCapability
      <4>2. DOMAIN DeclaredDevice(request.capability) =
               {"device", "runtime", "features", "layouts", "spaces", "reuse"}
        BY DEF DeclaredDevice
      <4>3. /\ request.devices[1].runtime = Required[request.capability].runtime
            /\ request.devices[1].features = Required[request.capability].features
            /\ request.devices[1].layouts = Required[request.capability].layouts
            /\ request.devices[1].spaces = Required[request.capability].spaces
        BY <3>1, FrameworkIsExact
      <4> DEFINE declared == DeclaredDevice(request.capability)
      <4>4. /\ declared.device = [kind |-> "gpu", backend |-> "cuda", index |-> 0]
            /\ declared.runtime = Required[request.capability].runtime
            /\ declared.features = Required[request.capability].features
            /\ declared.layouts = Required[request.capability].layouts
            /\ declared.spaces = Required[request.capability].spaces
            /\ declared.reuse = TRUE
        BY DEF DeclaredDevice
      <4> HIDE DEF declared
      <4>5. \A field \in {"device", "runtime", "features", "layouts", "spaces", "reuse"}:
               request.devices[1][field] = declared[field]
        BY <3>5, <3>6, <4>3, <4>4
      <4> QED
        BY <4>1, <4>2, <4>5 DEF declared
    <3> QED
      BY <2>5, <3>2, <3>3, <3>4, <3>7 DEF Declared
  <2>6. CASE ~ IsFramework(request)
    <3>1. RawChecks(request) = "ok"
      BY <2>2, <2>6, ThenPasses DEF RequirementChecks
    <3>2. Requirement(request).device.backend = "cuda"
      BY <2>6, <3>1, RawIsCuda
    <3> QED
      BY <2>3, <2>4, <2>6, <3>2 DEF Declared, RawCapability
  <2> QED
    BY <2>5, <2>6
<1> QED
  BY <1>1, Invariance, PTL

\* FactsAgree, for any number of edits: no source of a fact overrides another.
THEOREM NoOverride == Spec => []FactsAgree
<1>1. RulesInv => FactsAgree
  <2>1. SUFFICES ASSUME RulesInv, Accepted(config, request)
                 PROVE  NothingOverridden(config, request)
    BY DEF FactsAgree
  <2> DEFINE m == Merged(config, request)
             text == Coalesce(config, request, "ordinal")
             sm == Coalesce(config, request, "sm")
  <2>2. /\ OptionChecks(config, request) = "ok" /\ MergeChecks(config, request) = "ok"
        /\ SelectedChecks(config, request) = "ok"
    BY <2>1, AcceptedPasses
  <2>3. m.ordinal = Digits[text] /\ m.sm = sm
    BY DEF Merged
  <2>4. /\ Digits[text] = Requirement(request).device.index
        /\ RequiredSm(request) \in {None, sm}
    <3>1. Matches(config, request)
      BY <2>2, SelectedPasses
    <3> QED
      BY <3>1 DEF Matches
  <2>5. m.ordinal = Requirement(request).device.index
    BY <2>3, <2>4
  <2>6. \A key \in DOMAIN request.options:
            Option(request, key) = request.options[key] /\ Option(request, key) # None
    BY <2>1 DEF RulesInv, RequestInv, Option
  <2>7. "ordinal" \in DOMAIN request.options => Digits[request.options.ordinal] = m.ordinal
    BY <2>3, <2>6 DEF Coalesce
  <2>8. config.ordinal # None => config.ordinal = m.ordinal
    <3>1. SUFFICES ASSUME config.ordinal # None PROVE config.ordinal = Digits[text]
      BY <2>3
    <3>2. config.ordinal \in {0, 1}
      BY <2>1, <3>1 DEF RulesInv, ConfigInv, ConfigValues, ValidConfig
    <3>3. /\ TextOf(config.ordinal) \in DOMAIN Digits
          /\ Digits[TextOf(config.ordinal)] = config.ordinal
      BY <3>2, OrdinalTexts
    <3>4. TextOf(config.ordinal) # None
      BY <3>3, NoneAssumption DEF Values
    <3>5. Constructor(config, "ordinal") = TextOf(config.ordinal)
      BY <3>1 DEF Constructor
    <3>6. Agree(Option(request, "ordinal"), Constructor(config, "ordinal"))
      BY <2>2, MergePasses
    <3>7. text = TextOf(config.ordinal)
      BY <3>4, <3>5, <3>6 DEF Agree, Coalesce
    <3> QED
      BY <3>3, <3>7
  <2>9. {RequiredSm(request), Option(request, "sm"), config.sm} \subseteq {None, m.sm}
    <3>1. Agree(Option(request, "sm"), Constructor(config, "sm"))
      BY <2>2, MergePasses
    <3>2. Constructor(config, "sm") = config.sm
      BY DEF Constructor
    <3>3. Option(request, "sm") \in {None, sm} /\ config.sm \in {None, sm}
      BY <3>1, <3>2 DEF Agree, Coalesce
    <3> QED
      BY <2>3, <2>4, <3>3
  <2>10. ASSUME NEW key \in {"probe", "root"},
                Option(request, key) # None, config[key] # None
         PROVE  Option(request, key) = config[key]
    <3>1. Constructor(config, key) = config[key]
      BY DEF Constructor
    <3>2. CASE key = "root" /\ IsFramework(request)
      BY <2>2, <2>10, <3>2, OptionsPass
    <3>3. CASE key = "probe" \/ ~ IsFramework(request)
      <4>1. Agree(Option(request, key), Constructor(config, key))
        BY <2>2, <3>3, MergePasses
      <4> QED
        BY <2>10, <3>1, <4>1 DEF Agree
    <3> QED
      BY <3>2, <3>3
  <2> QED
    BY <2>5, <2>7, <2>8, <2>9, <2>10 DEF NothingOverridden
<1> QED
  BY <1>1, Invariance, PTL

\* The requirement of a request does not depend on its options.
LEMMA OptionsApart ==
    ASSUME NEW r, NEW e, e.capability = r.capability, e.fallback = r.fallback,
           e.devices = r.devices, e.pins = r.pins
    PROVE  /\ RequirementChecks(e) = RequirementChecks(r)
           /\ Requirement(e) = Requirement(r) /\ RequiredSm(e) = RequiredSm(r)
<1>1. CudaDevices(e) = CudaDevices(r)
  BY DEF CudaDevices
<1>2. IsFramework(e) <=> IsFramework(r)
  BY DEF IsFramework
<1>3. Requirement(e) = Requirement(r)
  BY <1>1, <1>2 DEF Requirement
<1>4. RequiredSm(e) = RequiredSm(r)
  BY <1>3 DEF RequiredSm
<1>5. RawArchitectureChecks(e) = RawArchitectureChecks(r)
  BY <1>1, Zenon DEF RawArchitectureChecks
<1>6. RawChecks(e) = RawChecks(r)
  BY <1>1, <1>3, <1>5, Zenon DEF RawChecks
<1>7. FrameworkChecks(e) = FrameworkChecks(r)
  BY SMT DEF FrameworkChecks
<1>8. RequirementChecks(e) = RequirementChecks(r)
  BY <1>2, <1>4, <1>6, <1>7, Zenon DEF RequirementChecks
<1> QED
  BY <1>3, <1>4, <1>8

\* OptionsSuffice, for any number of edits: every request that is accepted with the
\* help of the constructor's values has an equal that carries all of them itself.
THEOREM OptionsAreEnough == Spec => []OptionsSuffice
<1>1. RulesInv => OptionsSuffice
  <2> DEFINE c == config
             r == request
             Keys == {"probe", "root", "ordinal", "sm"}
             e == Explicit(c, r)
             n == NoFacts(c)
  <2>1. SUFFICES ASSUME RulesInv, Accepted(c, r)
                 PROVE  Accepted(n, e) /\ Merged(n, e) = Merged(c, r)
    BY DEF OptionsSuffice
  <2>2. /\ SelectionChecks(r) = "ok" /\ OptionChecks(c, r) = "ok"
        /\ RequirementChecks(r) = "ok" /\ SelectedChecks(c, r) = "ok"
    BY <2>1, AcceptedPasses
  <2>3. /\ e.provider = r.provider /\ e.capability = r.capability /\ e.target = r.target
        /\ e.kind = r.kind /\ e.fallback = r.fallback /\ e.devices = r.devices /\ e.pins = r.pins
    BY <2>1 DEF Explicit, RulesInv, RequestInv, Fields
  <2>4. /\ DOMAIN e.options = {k \in Keys: Coalesce(c, r, k) # None}
        /\ \A k \in DOMAIN e.options: e.options[k] = Coalesce(c, r, k)
    BY <2>1 DEF Explicit, RulesInv, RequestInv, Fields
  <2>5. /\ \A k \in Keys: n[k] = None
        /\ n.injected = c.injected
    BY <2>1 DEF NoFacts, RulesInv, ConfigInv, ConfigValues
  <2>6. \A k \in Keys: Option(e, k) = Coalesce(c, r, k)
    BY <2>4 DEF Option
  <2>7. \A k \in Keys: Constructor(n, k) = None
    BY <2>5 DEF Constructor
  <2>8. \A k \in Keys: Coalesce(n, e, k) = Coalesce(c, r, k)
    BY <2>6, <2>7 DEF Coalesce
  <2> HIDE DEF c, r, e, n
  <2>9. SelectionChecks(e) = "ok"
    BY <2>2, <2>3, SelectionPasses DEF IsFramework
  <2>10. OptionChecks(n, e) = "ok"
    <3>1. /\ DOMAIN r.options \subseteq AllowedKeys(r)
          /\ IsFramework(r) => c.root = None
      BY <2>2, OptionsPass
    <3>2. IsFramework(r) => Coalesce(c, r, "root") = None
      BY <3>1 DEF AllowedKeys, Coalesce, Option, Constructor
    <3>3. IsFramework(e) <=> IsFramework(r)
      BY <2>3 DEF IsFramework
    <3>4. DOMAIN e.options \subseteq AllowedKeys(e)
      BY <2>4, <3>2, <3>3 DEF AllowedKeys
    <3>5. "invalid" \notin DOMAIN e.options
      BY <2>4
    <3> QED
      BY <2>5, <3>4, <3>5, OptionsPass
  <2>11. /\ RequirementChecks(e) = "ok"
         /\ Requirement(e) = Requirement(r) /\ RequiredSm(e) = RequiredSm(r)
    BY <2>2, <2>3, OptionsApart
  <2>12. MergeChecks(n, e) = "ok"
    BY <2>7, MergePasses DEF Agree
  <2>13. SelectedChecks(n, e) = "ok"
    <3>1. Matches(n, e) <=> Matches(c, r)
      BY <2>8, <2>11 DEF Matches
    <3> QED
      BY <2>2, <2>5, <2>8, <3>1, SelectedPasses
  <2>14. Accepted(n, e)
    BY <2>9, <2>10, <2>11, <2>12, <2>13, AcceptedPasses
  <2>15. Merged(n, e) = Merged(c, r)
    BY <2>3, <2>5, <2>8, Zenon DEF Merged, IsFramework
  <2> QED
    BY <2>14, <2>15
<1> QED
  BY <1>1, Invariance, PTL

-----------------------------------------------------------------------------
\* A raw request for one device, with all that the raw lane offers, passes the lane's checks.
LEMMA RawPasses ==
    ASSUME NEW r, ~ IsFramework(r), NEW d, r.devices = <<d>>, IsCuda(d), d.reuse = FALSE,
           d.runtime = "cuda-driver", d.features = {"driver-api"}, d.spaces = {"device"},
           d.layouts = {}, NEW sm, d.architectures = <<sm>>, SmPattern(sm)
    PROVE  RawChecks(r) = "ok" /\ CudaDevices(r) = {1}
<1>1. DOMAIN r.devices = {1} /\ r.devices[1] = d
  OBVIOUS
<1>2. CudaDevices(r) = {1}
  BY <1>1 DEF CudaDevices
<1>3. OneSm(d) /\ d.architectures[1] = sm
  BY DEF OneSm
<1>4. RawArchitectureChecks(r) = "ok"
  <2> DEFINE bad == {i \in CudaDevices(r):
                        ~ (OneSm(r.devices[i]) /\ SmPattern(r.devices[i].architectures[1]))}
  <2>1. bad = {}
    BY <1>1, <1>2, <1>3, Zenon
  <2> QED
    BY <2>1 DEF RawArchitectureChecks
<1>5. Cardinality(CudaDevices(r)) = 1
  BY <1>2, FS_Singleton
<1> DEFINE q == r.devices[CHOOSE i \in CudaDevices(r): TRUE]
           t == <<
            <<~ q.reuse, "FRAMEWORK_RUNTIME_REUSE_UNSUPPORTED">>,
            <<q.runtime \in {None, "cuda", "cuda-driver"}, "CUDA_RUNTIME_INCOMPATIBLE">>,
            <<q.features \subseteq {"driver-api"}, "CUDA_FEATURE_UNSUPPORTED">>,
            <<q.spaces \subseteq {"device"}, "CUDA_MEMORY_SPACE_UNSUPPORTED">>,
            <<q.layouts = {}, "CUDA_LAYOUT_UNSUPPORTED">> >>
           number == Cardinality(CudaDevices(r))
           one == << <<number = 1, "EXACTLY_ONE_CUDA_DEVICE_REQUIRED">> >>
<1>6. q = d
  BY <1>1, <1>2
<1>7. FirstFailure(one) = "ok"
  <2>1. number = 1
    BY <1>5
  <2> HIDE DEF number
  <2>2. DOMAIN one = {1}
    OBVIOUS
  <2>3. one[1] = <<number = 1, "EXACTLY_ONE_CUDA_DEVICE_REQUIRED">>
    OBVIOUS
  <2>4. one[1][1]
    BY <2>1, <2>3
  <2> HIDE DEF one
  <2>5. {i \in DOMAIN one: ~ one[i][1]} = {}
    BY <2>2, <2>4
  <2> QED
    BY <2>5 DEF FirstFailure
<1>8. FirstFailure(t) = "ok"
  <2>1. DOMAIN t = 1..5
    OBVIOUS
  <2>2. t[1][1] /\ t[2][1] /\ t[3][1] /\ t[4][1] /\ t[5][1]
    BY <1>6
  <2> HIDE DEF t
  <2>3. {i \in DOMAIN t: ~ t[i][1]} = {}
    BY <2>1, <2>2
  <2> QED
    BY <2>3 DEF FirstFailure
<1>9. RawChecks(r) = Then(RawArchitectureChecks(r), Then(FirstFailure(one), FirstFailure(t)))
  BY Zenon DEF RawChecks, Requirement
<1> QED
  BY <1>2, <1>4, <1>7, <1>8, <1>9 DEF Then

\* The script's hosts have raw capabilities, with the targets the provider pairs with them.
LEMMA ScriptHosts ==
    ASSUME NEW a \in Arguments, ~ Refused(a)
    PROVE  /\ HostTargets[a.host].capability \in {"linux_x86_64", "linux_aarch64", "windows_x86_64"}
           /\ HostTargets[a.host].target = CapabilityTargets[HostTargets[a.host].capability]
<1>1. DOMAIN HostTargets = {"linux-x86_64", "linux-amd64", "linux-aarch64",
                            "windows-amd64", "windows-x86_64"}
  BY DEF HostTargets
<1>2. a.host \in DOMAIN HostTargets
  BY DEF Refused
<1>3. CASE a.host \in {"linux-x86_64", "linux-amd64"}
  <2>1. HostTargets[a.host] = X86Linux
    BY <1>3 DEF HostTargets
  <2> QED
    BY <2>1 DEF X86Linux, CapabilityTargets
<1>4. CASE a.host = "linux-aarch64"
  <2>1. HostTargets[a.host] = AArch64Linux
    BY <1>4 DEF HostTargets
  <2> QED
    BY <2>1 DEF AArch64Linux, CapabilityTargets
<1>5. CASE a.host \in {"windows-amd64", "windows-x86_64"}
  <2>1. HostTargets[a.host] = Windows
    BY <1>5 DEF HostTargets
  <2> QED
    BY <2>1 DEF Windows, CapabilityTargets
<1> QED
  BY <1>1, <1>2, <1>3, <1>4, <1>5

\* ScriptAsksAsTold, for any number of edits of other requests: the script's request
\* passes every check of the provider but the one for known architectures.
THEOREM ScriptIsUnderstood == Spec => []ScriptAsksAsTold
<1>1. RulesInv => ScriptAsksAsTold
  <2> DEFINE a == arguments
             r == request
             U == Unconfigured
             Keys == {"probe", "root", "ordinal", "sm"}
             known == a.sm \in Architectures
  <2>1. SUFFICES ASSUME RulesInv, arguments # None PROVE AskedAsTold(a, r)
    BY DEF ScriptAsksAsTold
  <2>2. a \in Arguments /\ ~ Refused(a) /\ r = ScriptRequest(a)
    BY <2>1 DEF RulesInv, ScriptInv
  <2>3. /\ r.provider = "rextio-device-cuda"
        /\ r.capability = HostTargets[a.host].capability
        /\ r.target = HostTargets[a.host].target
        /\ r.kind = "crate"
        /\ r.devices = <<ScriptDevice(a)>>
        /\ r.options = ScriptOptions(a)
    BY <2>2 DEF ScriptRequest
  <2>4. /\ ~ IsFramework(r)
        /\ r.capability \in {"linux_x86_64", "linux_aarch64", "windows_x86_64"}
        /\ r.target = CapabilityTargets[r.capability]
    BY <2>2, <2>3, ScriptHosts DEF IsFramework, Frameworks
  <2>5. a.ordinal \in {0, 1} /\ SmPattern(a.sm)
    BY <2>2 DEF Arguments, Refused
  <2>6. /\ TextOf(a.ordinal) \in DOMAIN Digits /\ Digits[TextOf(a.ordinal)] = a.ordinal
        /\ None \notin {TextOf(a.ordinal), a.probe, a.sm}
    BY <2>2, <2>5, OrdinalTexts, NoneAssumption DEF Values
  <2>7. \A k \in Keys: Constructor(U, k) = None /\ U.injected = {}
    BY DEF Unconfigured, Constructor
  <2>8. /\ Option(r, "probe") = a.probe /\ Option(r, "sm") = a.sm
        /\ Option(r, "ordinal") = TextOf(a.ordinal) /\ Option(r, "root") = a.root
    BY <2>3 DEF Option, ScriptOptions
  <2>9. /\ Coalesce(U, r, "probe") = a.probe /\ Coalesce(U, r, "sm") = a.sm
        /\ Coalesce(U, r, "ordinal") = TextOf(a.ordinal) /\ Coalesce(U, r, "root") = a.root
    BY <2>6, <2>7, <2>8 DEF Coalesce
  <2> DEFINE d == ScriptDevice(a)
  <2>10. /\ IsCuda(d) /\ d.reuse = FALSE /\ d.runtime = "cuda-driver"
         /\ d.features = {"driver-api"} /\ d.spaces = {"device"} /\ d.layouts = {}
         /\ d.architectures = <<a.sm>> /\ d.device.index = a.ordinal
    BY DEF ScriptDevice, IsCuda
  <2> HIDE DEF a, r, U, d
  <2>11. SelectionChecks(r) = "ok"
    BY <2>3, <2>4, SelectionPasses DEF CapabilityTargets
  <2>12. OptionChecks(U, r) = "ok"
    BY <2>3, <2>4, OptionsPass DEF ScriptOptions, AllowedKeys
  <2>13. RawChecks(r) = "ok" /\ CudaDevices(r) = {1}
    <3>1. r.devices = <<d>>
      BY <2>3 DEF d
    <3> QED
      BY <2>4, <2>5, <2>10, <3>1, RawPasses
  <2>14. /\ Requirement(r).device.index = a.ordinal
         /\ RequiredSm(r) = a.sm
    <3>1. Requirement(r) = d
      BY <2>3, <2>4, <2>13 DEF Requirement, d
    <3> QED
      BY <2>10, <3>1 DEF RequiredSm
  <2>15. RequirementChecks(r) = IF known THEN "ok" ELSE "CUDA_ARCHITECTURE_UNSUPPORTED"
    <3> DEFINE supported == RequiredSm(r) \in Architectures \union {None}
    <3>1. supported <=> known
      BY <2>6, <2>14
    <3>2. RequirementChecks(r) = FirstFailure(<< <<supported, "CUDA_ARCHITECTURE_UNSUPPORTED">> >>)
      BY <2>4, <2>13 DEF RequirementChecks, Then
    <3>3. supported \in BOOLEAN
      OBVIOUS
    <3> HIDE DEF supported
    <3> QED
      BY <3>1, <3>2, <3>3, OneCheck
  <2>16. MergeChecks(U, r) = "ok"
    BY <2>7, MergePasses DEF Agree
  <2>17. ASSUME known PROVE SelectedChecks(U, r) = "ok"
    <3>1. Matches(U, r)
      BY <2>6, <2>9, <2>14 DEF Matches
    <3>2. a.ordinal <= 1023
      BY <2>5
    <3> QED
      BY <2>5, <2>6, <2>9, <2>17, <3>1, <3>2, SelectedPasses
  <2>18. Verdict(U, r) = IF known THEN "ok" ELSE "CUDA_ARCHITECTURE_UNSUPPORTED"
    BY <2>11, <2>12, <2>15, <2>16, <2>17 DEF Verdict, Then
  <2>19. Merged(U, r) = [sm |-> a.sm, ordinal |-> a.ordinal, inspects |-> a.root # None]
    BY <2>4, <2>6, <2>7, <2>9 DEF Merged
  <2>20. ASSUME known PROVE Declared(U, r)
    <3>1. Requirement(r).device.backend = "cuda"
      BY <2>4, <2>13, RawIsCuda
    <3> QED
      BY <2>4, <2>19, <2>20, <3>1 DEF Declared, RawCapability
  <2>21. Accepted(U, r) => known
    BY <2>18 DEF Accepted
  <2> QED
    BY <2>18, <2>19, <2>20, <2>21 DEF AskedAsTold, U
<1> QED
  BY <1>1, Invariance, PTL
=============================================================================
