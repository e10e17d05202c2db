---------------------------- MODULE CudaProvider ----------------------------
(***************************************************************************)
(* CudaDeviceProvider (src/rextio_device_cuda/provider.py): one provider   *)
(* object called by several threads.  A preflight registers an attempt     *)
(* under the lock, checks the request, runs the probe, inspects the        *)
(* toolkit, and under the lock again makes its fingerprint ready, unless a *)
(* newer attempt has begun.  build_contribution reads the ready set.       *)
(* The lock is held for straight-line code only, so a locked block is one  *)
(* action; everything between two locked blocks interleaves.               *)
(***************************************************************************)
EXTENDS Naturals, Sequences

CONSTANTS
    Threads,        \* callers of the provider
    Requests,       \* records [artifact, selection, options]
    WellFormed,     \* the requests that pass the checks before the probe
    Hosts,          \* host snapshots [status, driver, devices, toolkit]
    MinDriver,      \* config.minimum_driver_version
    MinToolkit,     \* config.minimum_toolkit_version, a pair
    MaxGen,         \* bound: preflights begun per fingerprint
    NoRequest,      \* stands for the request of a thread outside a call
    NoToolkit       \* stands for a toolkit root without a usable toolkit

\* The device and toolkit facts of a request, after the constructor's values
\* are merged with the request's options.
Options == [ordinal: Nat, sm: STRING, inspects: BOOLEAN]

ASSUME RequestsAssumption ==
    /\ \A r \in Requests: /\ r = [artifact |-> r.artifact,
                                  selection |-> r.selection,
                                  options |-> r.options]
                          /\ r.options \in Options
    /\ WellFormed \subseteq Requests
    /\ NoRequest \notin Requests

\* Toolkit versions are two numbers of at most two digits (_VERSION_PATTERN).
Version == (0..99) \X (0..99)

\* driver is 0 where the report has no driver version.
ASSUME HostsAssumption ==
    \A h \in Hosts:
        h \in [status: {"probe-complete", "unavailable"}, driver: Nat,
               devices: Seq(STRING), toolkit: Version \union {NoToolkit}]

\* Python's < on pairs.
Earlier(a, b) == a[1] < b[1] \/ (a[1] = b[1] /\ a[2] < b[2])

\* The floors that the manifest declares, and the floors a configuration may set:
\* it may raise the declared ones, never lower them.
DriverFloor == 12000
ToolkitFloor == <<12, 0>>

ValidFloors(driverFloor, toolkitFloor) ==
    /\ driverFloor \in DriverFloor..99999
    /\ toolkitFloor \in Version
    /\ ~ Earlier(toolkitFloor, ToolkitFloor)

ASSUME FloorsAssumption == ValidFloors(MinDriver, MinToolkit)

ASSUME MaxGenAssumption == MaxGen \in Nat \ {0}

-----------------------------------------------------------------------------
\* Seeded defect: requests of one capability share a fingerprint.
FingerprintBySelection(r) == <<r.selection>>

\* _request_fingerprint: the canonical JSON of every field of the request.
Fingerprint(r) == <<r.artifact, r.selection, r.options>>

Fingerprints == {Fingerprint(r) : r \in Requests}

\* _driver_version_tuple: 12040 is CUDA 12.4.
DriverVersionTuple(v) == <<v \div 1000, (v % 1000) \div 10>>

\* The checks on the probe's report.
ProbeAccepts(r, h) ==
    /\ h.status = "probe-complete"
    /\ h.driver >= MinDriver
    /\ r.options.ordinal < Len(h.devices)
    /\ h.devices[r.options.ordinal + 1] = r.options.sm

\* The checks on the toolkit, against the driver version the probe reported.
ToolkitAccepts(version, toolkit) ==
    /\ toolkit # NoToolkit
    /\ ~ Earlier(toolkit, MinToolkit)
    /\ ~ Earlier(DriverVersionTuple(version), toolkit)

-----------------------------------------------------------------------------
VARIABLES
    generations,  \* _request_generations: fingerprint -> attempts begun
    ready,        \* _ready_requests: the fingerprints that hold authority
    pc,           \* thread -> where its call stands, "idle" outside a call
    req,          \* thread -> the request of its call
    gen,          \* thread -> request_generation of its preflight
    driver,       \* thread -> report.driver_version of its preflight
    host,         \* environment: what a probe or an inspection would find now
    passed,       \* history: attempts <<fingerprint, generation>> that passed
    seen          \* history: fingerprint -> hosts since its newest attempt began

locals == <<pc, req, gen, driver>>
vars == <<generations, ready, pc, req, gen, driver, host, passed, seen>>

Init ==
    /\ generations = [f \in Fingerprints |-> 0]
    /\ ready = {}
    /\ pc = [t \in Threads |-> "idle"]
    /\ req = [t \in Threads |-> NoRequest]
    /\ gen = [t \in Threads |-> 0]
    /\ driver = [t \in Threads |-> 0]
    /\ host \in Hosts
    /\ passed = {}
    /\ seen = [f \in Fingerprints |-> {}]

\* The call of t ends: a result is returned or an exception leaves it.
Return(t) ==
    /\ pc' = [pc EXCEPT ![t] = "idle"]
    /\ req' = [req EXCEPT ![t] = NoRequest]
    /\ gen' = [gen EXCEPT ![t] = 0]
    /\ driver' = [driver EXCEPT ![t] = 0]

\* Seeded defects: authority not taken away; attempts counted only while there
\* is authority to take away.
InvalidateLater(f) ==
    /\ generations' = [generations EXCEPT ![f] = @ + 1]
    /\ UNCHANGED ready
InvalidateWhenReady(f) ==
    /\ generations' = [generations EXCEPT ![f] = IF f \in ready \/ @ = 0 THEN @ + 1 ELSE @]
    /\ ready' = ready \ {f}

\* First locked block of preflight: a new generation, authority taken away.
Invalidate(f) ==
    /\ generations' = [generations EXCEPT ![f] = @ + 1]
    /\ ready' = ready \ {f}

\* The attempt number the locked block hands out; seeded defect: the number
\* before the increment.
AttemptBefore(f) == generations[f]
Attempt(f) == generations[f] + 1

PreflightBegin(t, r) ==
    LET f == Fingerprint(r) IN
    /\ pc[t] = "idle"
    /\ generations[f] < MaxGen
    /\ Invalidate(f)
    /\ pc' = [pc EXCEPT ![t] = "check"]
    /\ req' = [req EXCEPT ![t] = r]
    /\ gen' = [gen EXCEPT ![t] = Attempt(f)]
    /\ seen' = [seen EXCEPT ![f] = {host}]
    /\ UNCHANGED <<driver, host, passed>>

\* The checks before the probe reject the request.
StaticReject(t) ==
    /\ pc[t] = "check"
    /\ req[t] \notin WellFormed
    /\ Return(t)
    /\ UNCHANGED <<generations, ready, host, passed, seen>>

\* The probe runs and its report is accepted.
Probe(t) ==
    /\ pc[t] = "check"
    /\ req[t] \in WellFormed
    /\ ProbeAccepts(req[t], host)
    /\ pc' = [pc EXCEPT ![t] = "inspect"]
    /\ driver' = [driver EXCEPT ![t] = host.driver]
    /\ UNCHANGED <<generations, ready, req, gen, host, passed, seen>>

\* Every check succeeded: nothing but the second locked block is left.
AllChecksPassed(t) ==
    /\ pc' = [pc EXCEPT ![t] = "commit"]
    /\ passed' = passed \union {<<Fingerprint(req[t]), gen[t]>>}
    /\ UNCHANGED <<generations, ready, req, gen, driver, host, seen>>

\* Framework lanes, and raw lanes without a toolkit root, skip the inspector.
SkipToolkit(t) ==
    /\ pc[t] = "inspect"
    /\ ~ req[t].options.inspects
    /\ AllChecksPassed(t)

\* The toolkit is inspected, later than the probe ran, and accepted.
Inspect(t) ==
    /\ pc[t] = "inspect"
    /\ req[t].options.inspects
    /\ ToolkitAccepts(driver[t], host.toolkit)
    /\ AllChecksPassed(t)

\* A check fails, or the runner or the inspector fails for a reason of its own
\* (a timeout, an I/O error, an exception that is no CudaProbeError).
Fail(t) ==
    /\ \/ pc[t] = "check" /\ req[t] \in WellFormed
       \/ pc[t] = "inspect" /\ req[t].options.inspects
    /\ Return(t)
    /\ UNCHANGED <<generations, ready, host, passed, seen>>

\* Seeded defects: no comparison; a comparison that can only fail; a call that
\* waits for ever when a newer attempt has begun.
CommitAlways(t) ==
    /\ pc[t] = "commit"
    /\ ready' = ready \union {Fingerprint(req[t])}
    /\ Return(t)
    /\ UNCHANGED <<generations, host, passed, seen>>
CommitWhenOlder(t) ==
    /\ pc[t] = "commit"
    /\ ready' = IF generations[Fingerprint(req[t])] < gen[t]
                THEN ready \union {Fingerprint(req[t])} ELSE ready
    /\ Return(t)
    /\ UNCHANGED <<generations, host, passed, seen>>
CommitOnlyNewest(t) ==
    /\ pc[t] = "commit"
    /\ generations[Fingerprint(req[t])] = gen[t]
    /\ ready' = ready \union {Fingerprint(req[t])}
    /\ Return(t)
    /\ UNCHANGED <<generations, host, passed, seen>>

\* Second locked block of preflight, then the READY result: whether or not the
\* fingerprint became ready, the caller is told READY.
Commit(t) ==
    /\ pc[t] = "commit"
    /\ ready' = IF generations[Fingerprint(req[t])] = gen[t]
                THEN ready \union {Fingerprint(req[t])} ELSE ready
    /\ Return(t)
    /\ UNCHANGED <<generations, host, passed, seen>>

\* build_contribution's locked read; seeded defect: any earlier preflight will do.
AnyPreflight(r) == generations[Fingerprint(r)] > 0
IsReady(r) == Fingerprint(r) \in ready

\* build_contribution finds its request ready.  When it does not, it raises
\* RuntimeError and changes nothing.  gen is history here: the code keeps none.
BuildCheck(t, r) ==
    /\ pc[t] = "idle"
    /\ IsReady(r)
    /\ pc' = [pc EXCEPT ![t] = "contribute"]
    /\ req' = [req EXCEPT ![t] = r]
    /\ gen' = [gen EXCEPT ![t] = generations[Fingerprint(r)]]
    /\ UNCHANGED <<generations, ready, driver, host, passed, seen>>

\* build_contribution returns after the lock was released.
BuildReturn(t) ==
    /\ pc[t] = "contribute"
    /\ Return(t)
    /\ UNCHANGED <<generations, ready, host, passed, seen>>

\* A driver or toolkit is installed or removed, a device comes or goes.
HostChange ==
    \E h \in Hosts \ {host}:
        /\ host' = h
        /\ seen' = [f \in Fingerprints |->
                       IF generations[f] = 0 THEN seen[f] ELSE seen[f] \union {h}]
        /\ UNCHANGED <<generations, ready, locals, passed>>

Step(t) ==
    \/ StaticReject(t)
    \/ Probe(t)
    \/ SkipToolkit(t)
    \/ Inspect(t)
    \/ Fail(t)
    \/ Commit(t)
    \/ BuildReturn(t)

Next ==
    \/ \E t \in Threads, r \in Requests: PreflightBegin(t, r) \/ BuildCheck(t, r)
    \/ \E t \in Threads: Step(t)
    \/ HostChange

Spec == Init /\ [][Next]_vars

\* A thread inside a call goes on: the locked blocks never wait for anything,
\* run() is bounded (module ProbeRunner) and the inspector only reads files.
FairSpec == Spec /\ \A t \in Threads: WF_vars(Step(t))

-----------------------------------------------------------------------------
\* The variables hold values of their types: generations only count attempts
\* that were begun, and the locals of a call are set while it runs.
TypeOK ==
    /\ generations \in [Fingerprints -> 0..MaxGen]
    /\ ready \subseteq Fingerprints
    /\ pc \in [Threads -> {"idle", "check", "inspect", "commit", "contribute"}]
    /\ req \in [Threads -> Requests \union {NoRequest}]
    /\ \A t \in Threads: pc[t] # "idle" => req[t] \in Requests
    /\ gen \in [Threads -> 0..MaxGen]
    /\ driver \in [Threads -> Nat]
    /\ host \in Hosts
    /\ passed \subseteq Fingerprints \X (1..MaxGen)
    /\ seen \in [Fingerprints -> SUBSET Hosts]

InPreflight(t) == pc[t] \in {"check", "inspect", "commit"}

\* A ready fingerprint owes it to its newest attempt: a preflight that was
\* overtaken by a newer one, whatever became of that one, grants nothing.
\* (preflight: the generation comparison in the second locked block.)
AuthorityIsNewest == \A f \in ready: <<f, generations[f]>> \in passed

\* Two preflights of one fingerprint never carry the same attempt number, so
\* that the comparison in the second locked block tells them apart.
AttemptsAreDistinct ==
    \A s, t \in Threads:
        /\ InPreflight(s) /\ InPreflight(t) /\ s # t
        /\ Fingerprint(req[s]) = Fingerprint(req[t])
        => gen[s] # gen[t]

\* What the README promises a ready request was checked against, in the plain
\* numbers of CUDA's version encoding: the configured floors, and the declared
\* ones whatever the configuration says.
AtLeast(v, floor) == v[1] > floor[1] \/ (v[1] = floor[1] /\ v[2] >= floor[2])
Fits(r, h) ==
    /\ h.status = "probe-complete"
    /\ h.driver >= MinDriver /\ h.driver >= DriverFloor
    /\ r.options.ordinal < Len(h.devices)
    /\ h.devices[r.options.ordinal + 1] = r.options.sm
FitsToolkit(h, toolkit) ==
    /\ toolkit # NoToolkit
    /\ AtLeast(toolkit, MinToolkit) /\ AtLeast(toolkit, ToolkitFloor)
    /\ h.driver - (h.driver % 10) >= 1000 * toolkit[1] + 10 * toolkit[2]

\* While a request is ready, its driver and device facts held at some moment
\* since its newest preflight began, and so did the toolkit facts, against that
\* driver, down to the configured floors and those the manifest declares; the
\* two moments may differ.  A verdict from before a newer preflight never
\* survives it, and one request's verdict never serves another request.
ReadyWasObservable ==
    \A r \in Requests: Fingerprint(r) \in ready =>
        \E h \in seen[Fingerprint(r)]:
            /\ Fits(r, h)
            /\ r.options.inspects =>
                  \E k \in seen[Fingerprint(r)]: FitsToolkit(h, k.toolkit)

\* A contribution under way was authorised by an attempt that passed, and that
\* authority ends only when a newer attempt begins.
ContributionBacked ==
    \A t \in Threads: pc[t] = "contribute" =>
        /\ <<Fingerprint(req[t]), gen[t]>> \in passed
        /\ generations[Fingerprint(req[t])] = gen[t] => Fingerprint(req[t]) \in ready

\* Every call returns to its caller, however the other threads and the host
\* behave.
CallsReturn == \A t \in Threads: pc[t] # "idle" ~> pc[t] = "idle"

\* An attempt that passed becomes ready, unless a newer attempt begins first.
SuccessIsGranted ==
    \A f \in Fingerprints, g \in 1..MaxGen:
        <<f, g>> \in passed ~> (f \in ready \/ generations[f] > g)

\* The provider implements the abstract authority: holder is the newest attempt
\* of a ready fingerprint.
Holder == [f \in Fingerprints |-> IF f \in ready THEN generations[f] ELSE 0]

Authority == INSTANCE ReadyAuthority WITH newest <- generations, holder <- Holder

ImplementsAuthority == Authority!ASpec
=============================================================================
