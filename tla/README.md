# Verification of rextio-device-cuda

TLA+ modules that model the CUDA device provider of Rextio, TLC configurations that check
them on small instances, and TLAPS proofs of what matters most for every instance.
Paths below are relative to the repository; `provider.py`, `probe.py` and `config.py` are in
`src/rextio_device_cuda/`, `lib.rs` is `src/rextio_device_cuda/rust/rextio-cuda-runtime/src/lib.rs`.

## 1. The system

A Python package answers two questions for the Rextio core: *can this host build and run this
artifact on an NVIDIA device* (`preflight`), and *what goes into the build*
(`build_contribution`, granted only after a successful preflight of the identical request).
The facts come from a native probe run as a subprocess and from a toolkit directory. The build
then contains a small Rust crate, the raw CUDA runtime, whose RAII types own contexts, streams
and allocations. A smoke program exercises that crate on real hardware.

```
  Core ──preflight/build_contribution──▶ CudaDeviceProvider ──run()──▶ SubprocessProbeRunner
  (several threads)                       │ ready set, generations        │ Popen, reader thread
                                          │                               ▼
                                          └─inspect()─▶ ToolkitInspector  driver inventory probe
                                                        (files)           │ loads the driver
  smoke program ─▶ driver loader ─▶ CUDA driver ◀─────────────────────────┘
        └────────▶ raw CUDA runtime (generated into builds) ─▶ CUDA driver
```

### Inventory

**CudaDeviceProvider** (`provider.py`).
State: `_request_generations` (attempts begun per request fingerprint), `_ready_requests`, and a
lock. Operations: `preflight`, `build_contribution`, `manifest` (pure).
Hard: one provider object serves several threads; the lock is held at the beginning and at the
end of a preflight, not across the probe and the inspection; preflights of one request overlap
and finish in any order; the host changes between the probe, the inspection, the commit and the
use of the contribution.
Correct when: only the newest attempt of a request grants authority; a ready request passed all
its checks since that attempt began; one request's verdict never serves another; every call returns.

**CudaProviderConfig** (`config.py`). Immutable; its constructor refuses values out of range.
Correct when: a configuration may raise the version floors that the manifest declares, never lower them, and every
accepted value can be matched by a request.

**SubprocessProbeRunner** (`probe.py:413-582`). State, all local to one `run`: the process, the
reader thread, the output, two events, the deadline. Hard: the reader thread, the
probe, a descendant that inherits standard output, and the clock run concurrently with `run`;
killing, reaping and joining each may fail or take too long. Correct when: the parser is given the
complete output of a probe that exited with 0 in time, errors are justified, `run` always returns,
and it leaves neither a process nor an open pipe behind unless its bounded waits expired.

**Probe report schema and parser** (`probe.py:29-411`). Pure. Correct when the parser accepts what
the probe writes and nothing that the report's constructors would refuse. The probe lists up to 1024 devices; the
reader and the parser accept 65,536 bytes, and neither side knows the other's limit.

**FilesystemToolkitInspector** (`probe.py:592-678`). No state beyond one `inspect`: the version, then one
component after the other, each with candidate paths. Hard: each look at the file system is a call of its
own, and a package manager may be at work below the root; a candidate may be broken, lead out of the root or be
missing while the next one is good. Correct when each fact of a report was true during the inspection, each
failure had a reason, and nothing but a `CudaProbeError` leaves `inspect`.

**Raw CUDA runtime** (`lib.rs`). State: per context a shared `Cell` with the raw context, per
stream and allocation its raw value and a reference to its context; in the driver, the
current-context stack of the thread and what is alive. Operations: `create_context`,
`create_dedicated_stream`, `allocate`, `synchronize`, `close` of each type, `Drop` of each type.
Hard: each driver call may fail; values are closed or dropped in any order; the thread's
context stack is shared with the host program; the driver reuses handles. Correct when: nothing dead is
handed to the driver, everything is released once, and a call leaves the stack as it found it.

**CUDA driver loader** (`crates/rextio-cuda-driver-loader`). No state beyond one `load`: the candidate being tried,
whether any was found. Hard: the choice of the reason code when several candidates fail; a path that is looked
at, resolved, checked and opened by separate system calls while drivers are installed. Correct when no bad
candidate hides a good one, what is mapped was reviewed, and the reason is true.

**Driver inventory probe** (`crates/rextio-cuda-driver-probe`). State: the rows so far. One driver call after another, each
of which may fail; writes one report. Correct when a complete report is whole and every report can be parsed.

**Runtime smoke program** (`crates/rextio-cuda-runtime-smoke`). Composes the loader with the
runtime. Hard: every call may leave `run` early, and Rust drops what is left, latest declaration first; the driver image
must be unmapped last. Correct when "smoke-complete" means a clean run and nothing calls an unmapped image.

**Manual validation script** (`scripts/validate_preflight.py`). Arguments to one request, to a report. Its tables
repeat the provider's. Correct when it asks for what its arguments say, on every host it declares.

**CI helpers, packaging**: no state of the system; not modelled.

## 2. Modules

| module | models | role |
|---|---|---|
| `ReadyAuthority` | the promise of CHANGELOG.md about contribution authority | abstract specification |
| `CudaProvider` | `provider.py`: `preflight`, `build_contribution` | implements `ReadyAuthority` |
| `PreflightRules` | `provider.py`: the ordered checks before the probe, the capabilities of `manifest`; `config.py` | pure operators against a reference |
| `RawRuntime` | `lib.rs` on one thread, over a driver that may fail | component |
| `ManualValidation` | `scripts/validate_preflight.py`: from arguments to a request | composed with `PreflightRules`; its requests are those of `MCCudaProvider` |
| `SmokeRun` | the smoke program's `run` | composes the actions of `RawRuntime` |
| `ProbeRunner` | `SubprocessProbeRunner.run` and its processes | component |
| `ProbeReport` | `probe.py`: the parser's checks, and the constructors'; `provider.py`: what a report must say | sets of checks to compare |
| `ProbeInventory` | the driver inventory probe | composed with `ProbeReport` |
| `ToolkitInspector` | `FilesystemToolkitInspector` over files that change | component |
| `DriverLoader` | `DriverLibrary::load` over files that change | component |
| `MC...` | | small instances for TLC |
| `CudaProviderProofs`, `PreflightRulesProofs`, `ProbeRunnerProofs`, `ProbeProofs`, `ToolkitInspectorProofs`, `DriverLoaderProofs`, `RawRuntimeProofs`, `SmokeRunProofs` | | theorems checked by TLAPS |

An operator whose comment begins with "Seeded defect" models code that a plausible mistake would
have produced. Nothing uses it; it shows that the property next to it can fail.

### CudaProvider

| module | `provider.py` |
|---|---|
| `generations`, `ready` | `_request_generations`, `_ready_requests` |
| `PreflightBegin` | the fingerprint and the first locked block |
| `StaticReject` | the checks before the probe fail (`WellFormed`: what they accept) |
| `Probe`, `ProbeAccepts` | the runner's report and the checks on it |
| `Inspect`, `SkipToolkit`, `ToolkitAccepts` | the toolkit inspector, the two version comparisons |
| `Fail` | any check, and any error of the runner or the inspector |
| `Commit` | the second locked block, and the READY result |
| `BuildCheck`, `BuildReturn` | the locked read of `build_contribution`, and its return |
| `HostChange` | the environment: driver, devices and toolkit change at any time |

A locked block is one action: the lock covers straight-line code only. Everything else
interleaves. `passed` and `seen` are history variables, used by properties only; `gen` of a
contributing thread is history as well.

Data. A request is its artifact, its selection and its options; `Fingerprint` keeps all three, as
the canonical JSON of `request.to_dict()` does. `to_dict` belongs to the core, outside this
repository; that it holds every field of the request is an assumption. `driver` 0 stands for a report without a
driver version, and toolkit versions have at most two digits per part, as `_VERSION_PATTERN`
requires. `ordinal` and `sm` of a request are the merged values of constructor and options. `MinDriver` and `MinToolkit` are
the floors of the configuration; `FloorsAssumption` says that its constructor accepts them (`ValidFloors`), and
`ReadyWasObservable` asks for the floors of the manifest too, which therefore hold whatever a configuration says.

`MCCudaProvider` takes its requests from `ManualValidation` and its `WellFormed` from `PreflightRules`: `Seen` keeps of
a request what the fingerprint holds and what `Merged` says, and the requests that `Accepted` lets through are
well-formed. One of them, for an unsupported architecture, is not.

### PreflightRules

The checks between the two locked blocks and before the probe, in the order of the code:
`SelectionChecks` (those reported as incompatible), `OptionChecks`, `RequirementChecks` (raw or
framework lane), `MergeChecks` (constructor against request options), `SelectedChecks`. `Verdict` is the first
that fails. It is the detail behind `CudaProvider`'s constant `WellFormed`, and `Merged` is what a
request's `options` are there. `RawCapability` and `FrameworkCapability` are what `manifest()` declares, written apart from
the checks; `DeclaredDevice` is the one device of a framework lane, with its index, backend, runtime, features, layouts, memory
spaces and reuse. A raw capability declares no device, and its three artifact kinds are all that a request can have:
preflight does not check the kind on that lane, and `Declared` does not speak of it.
Texts are members of small sets that the checks tell apart (an ordinal written with a leading zero, an
SM name that only the pattern accepts, digits that only `str.isdigit` accepts). A pin stands for its
version and features. `normalize_device_id` belongs to the core; a device is what it returns.
`MCPreflightRules` starts from a good request of each capability and edits up to `MaxEdits` fields, or from the
request the validation script makes for one of its possible command lines (`ManualValidation`).

### RawRuntime

One action is one call of the public API or one drop, with every driver call it makes. The
replies of the driver are existentially quantified: push, the operation and pop may each fail, the
operation may succeed with a null result, and pop may return another context. `WithCurrent` is
`with_current`: what happens after the operation does not depend on what the operation returned.
The `Drop` that follows a `close` is part of the same action; dropping the last reference to a context
destroys it in that action (`LastReference`).

Assumed of the driver (external): a failed call changes nothing; `cuCtxDestroy` frees the
children of the context and pops it when it is current; a handle may be reused once it is dead.
The types are `!Send`, so one thread is all there is. Handles are drawn from
two small sets, which makes reuse happen. `misused` records the dead handles the driver was given.

### SmokeRun

The program's statements in order (`at`), each the corresponding action of `RawRuntime`, which goes on when the call
succeeded; a failure leads to `unwind`. `scope` holds the locals that have a value: `let` binds one when its call
succeeded, `close` of a stream or an allocation and `drop` move one away. Leaving the scope drops what is in it one local at a
time, `Youngest` first, which is Rust's rule applied to `DeclaredAt`, the lines of the `let` statements. No action asks whether the
image may be unmapped: `Mapped` is that the library is still in scope, and that it goes last is what `ImageOutlivesResources`
says. With the library declared last (`LibraryDeclaredLast`) it does not hold.

### ProbeRunner

`pc` follows the statements of `run` and `_terminate_and_join`, separately for each read of
something another process may change: deadline, overflow event, reader failure, `poll`, `join`,
`is_alive`. The reader has two states after its loop (`ending`, `done`) since a thread is alive
for a while after its last statement. `stdout.read(n)` of Python's buffered reader blocks until n bytes or the end of
the file, hence `Read`'s guard. A descendant may hold the pipe open; a killed child may take any time
to die; the kill itself may fail. A wait for the child may expire at any moment at which the child has not exited.

### ProbeReport and ProbeInventory

`Parses` translates `parse_probe_report` and `Constructs` the `__post_init__` checks of
`CudaDeviceRecord` and `CudaProbeReport`, which the code writes twice. An SM name is the sequence of its digits, so that the
concatenation of major and minor version keeps its ambiguity and its length. A device name is one of
the kinds the checks and `sanitize_name` tell apart. The length of a report's text is a parameter, `Bytes`, as is the
limit, `MaxReportBytes`: `Short` is the parser's first check, and the only one that depends on the text as a whole. `ProbeInventory` has one step for each driver call; `CallFails` is
the early return that follows every one of them. `build` is the target the probe is compiled for, which it writes into
its report and which the provider compares (`TargetFacts`, `Admits`). `Alter` changes one field of the written report: a
report of an injected runner or of another executable.

### ToolkitInspector

| module | `probe.py` |
|---|---|
| `ResolveRoot`, `CheckRoot` | `is_absolute`, `resolve(strict=True)`, `is_dir` |
| `StatVersion`, `ReadVersion` | `_read_version`: `stat`, then `read_text`, `json.loads` and the pattern |
| `ListCandidates` | the candidates of the target; on Windows, `glob` of the directory `bin` |
| `ResolveCandidate`, `CheckFile` | the inner loop: `resolve(strict=True)`, then `is_file` and `_inside_root` |
| `Report` | the constructor of `CudaToolkitReport` |
| `Change` | the environment: a file, a directory, `version.json` or the whole toolkit changes |

`todo` holds the components still to find, each with the candidates still to try. What a path leads to is one of
six entries, which the calls tell apart; links themselves do not change. The history `ever` keeps what
each part of the tree was since the call; the properties are about it, since no single moment is what a report describes.
`version.json` is read wherever a link may lead, since the code asks `_inside_root` of the candidates only: `document` is what is
read, and nothing claims that it lies below the root.

### DriverLoader

One action for each system call of the loop: `Look` (`symlink_metadata`), `Resolve` (`canonicalize`), `CheckFile` and
`CheckDirectories` (`acceptable`), `Open` (`dlopen`); `OpenSystem32` and `Unsupported` are the whole of `load` on the other
platforms. `Continue` is `continue` and the end of the loop. An image is gone, writable for its group or others, refused by `dlopen`,
or sound, and a directory above it may be exposed. `Change` installs, replaces or removes a driver, or changes
permissions. A path that is resolved is opened as resolved, even when the candidate leads elsewhere by then.

## 3. Runs

| run | instance | asks |
|---|---|---|
| `provider_overlap` | 3 threads, 1 request, 3 hosts, 3 attempts, FairSpec | which of several overlapping attempts grants authority; are attempt numbers distinct; is a contribution backed; refinement of `ReadyAuthority`; calls return; success is granted |
| `provider_devices` | 2 threads, 3 requests, 3 hosts at version boundaries, raised floors, 2 attempts | do the facts of a ready request hold somewhere since its attempt began; types |
| `preflight_rules` | a good request of each capability, up to 3 fields of it or of the configuration changed | is what is accepted what the manifest declares and every source of a fact names; is it accepted wherever its facts come from; does the script ask for what it is told |
| `runtime_ownership` | 2 contexts, 1 stream, 1 allocation, 2 handles of each kind, a host context | use after free, double free, leaks, stack discipline |
| `runtime_skipped_free` | 2 contexts, 1 allocation, no stream, stack of 2 | finding, see below |
| `probe_runner` | report limit 3, chunk 3, 6 bytes, FairSpec | verdicts and cleanup under every interleaving; `run` returns |
| `probe_inventory` | 5 build targets; up to 2 devices; values inside, at and outside each bound, reports within and beyond a limit of 1200 bytes; one field altered | does the parser read what the probe writes; does complete mean whole; are exactly the usable devices admitted |
| `probe_injection` | the same, limit of 65,536 bytes | finding, see below |
| `smoke_run` | 1 context, 1 stream, 1 allocation, stack of 6 | order of destruction; meaning of "smoke-complete" |
| `toolkit_inspector` | 4 targets; toolkits with every kind of candidate and of `version.json`; 1 change | was each fact of a report true during the inspection, and the reason of a failure; does it end |
| `toolkit_escapes` | the same | finding, see below |
| `driver_loader` | 3 platforms, 2 candidates, 2 images, 1 change | is a usable driver loaded; was the mapped image reviewed; is the reason true; does it end |

Bounds, and why they suffice.

* `MaxGen`: three attempts of one request let an attempt be overtaken twice and by an attempt that
  itself was overtaken; the comparison only asks whether the numbers are equal.
* Threads: a third thread builds while two preflights race.
* Hosts: at the declared floor; at the boundary of driver and toolkit; the driver one minor version
  behind its toolkit; unusable. They are what the comparisons tell apart. In `provider_devices` the floors are raised to 12030 and
  12.4: one host is at the driver's, one at the toolkit's, one below both.
* `MaxStack`: one host context, one context left by a failed pop, and the push of a call.
  In `SmokeRun` it is deep enough for every pop of the program to fail.
* `MaxEdits`: three edits let a fact be moved from the options to the constructor and then disagree with
  a requirement, and let three defects meet; each check relates at most two fields and the capability.
* Requests of the script (`provider_devices`): two devices, one of them without a toolkit, so that `SkipToolkit` happens.
* `MaxChanges` 1: each call looks at a path at most twice, so that one change shows every pair of answers for it; a second one
  concerns another path, whose checks are independent. `DriverLoader` is proved for any number.
* Two candidates and two images: one that fails before one that is good, in either order, and a candidate that is led
  from one image to another between two calls.
* 1200 bytes: a report of two devices is shorter or longer than that: two long names make it longer. The real limit needs some 650 devices.
* Two devices: a failure after the first row, a row at another position than its ordinal, a missing row.
* `MaxBytes` 3 and `Chunk` 3: the last read before the limit asks for fewer bytes than a chunk
  (4 - 3 = 1), and a report of 3 bytes, one of 4 and longer ones exist.

Deadlock is checked where every state has a successor by design (provider, runtime; `SmokeRun`
has an explicit `Returned`). `ProbeRunner` stops when `run` has returned and all its processes are
done: `CHECK_DEADLOCK FALSE`; that it does not stop earlier is `RunReturns`. So do `ToolkitInspector` and `DriverLoader` once the call has
returned: `InspectionEnds` and `LoadReturns`.

Fairness. Provider: a thread inside a call continues (`WF(Step(t))`): no locked block
waits, `run()` is bounded (`RunReturns`) and the inspector reads files. No fairness for new calls or for the host.
Probe runner: the calling thread and the clock proceed; nothing is assumed of the reader, the
probe or its descendants, which may block forever. Toolkit inspector and driver loader: a call of the file system
returns (`WF(Inspect)`, `WF(Load)`); the environment need not change anything.

`ProbeInventory` ends with a written report, altered or not: `CHECK_DEADLOCK FALSE` there too.
`ReportIsRead` and `AdmittedIffUsable` have a condition, `Fitting`, on the driver's own values: a driver version of four or five digits, a
minor compute capability of one digit, and no device name that starts with a drive. Outside of it the
probe does write reports that the parser refuses. The length is not among these conditions: both properties name it, as `Short`. The probe
bounds the number of devices by 1024, and a row has some 76 characters besides its name, so that from about 650 devices (fewer
when their names are long) a host's report exceeds 65,536 bytes and `run` refuses it. `AdmittedIffUsable` says that nothing else
makes a usable device be refused.

### Findings

`toolkit_escapes` shows that `inspect` may raise something else than `CudaProbeError`, against `probe.py:250`: a loop of links at
the root or at a candidate (`RuntimeError` of `resolve`, on the supported Python 3.11 and 3.12), or a `version.json` with an integer of
more than 4300 digits (`ValueError`) or thousands of brackets (`RecursionError`). `preflight` does not catch them either. The
authority was taken away before, so nothing is granted wrongly. The same exceptions of `json.loads` are possible in
`parse_probe_report`, and of `resolve` in `SubprocessProbeRunner.run`.

`probe_injection` shows a report that the constructors accept and the parser refuses (an SM name of
four digits), while `probe.py:131` says that injection is as strict as parsing.

`runtime_skipped_free` shows that an allocation can be given up without any call to
free it, while lib.rs says "freed exactly once" of it: `close` and `Drop` take the raw value before
`with_current`, and a failing `cuCtxPushCurrent` returns before the free. The value is gone, so nothing tries
again; the memory lives until the context is destroyed. The run has no streams; a stream's `destroy` has the same order of
statements. `ChildrenReleased` states what does hold.

## 4. Proofs

`CudaProviderProofs` (every number of threads, any requests and hosts, any `MaxGen`):

* `TypeCorrect`, `NewestAuthority` (`AuthorityIsNewest`), `DistinctAttempts`
  (`AttemptsAreDistinct`), `ReadyObserved` (`ReadyWasObservable`), `BackedContributions` (`ContributionBacked`), `Implementation` (`Spec => Authority!ASpec`).
* The argument: `AuthorityIsNewest` alone is not inductive, since a commit relies on
  the committing thread's attempt being in `passed`; and the attempt numbers in use never exceed
  `generations`. These facts are the strengthening. A new attempt is then larger than all others,
  and a commit with an equal number is the newest attempt's own.
* `ReadyObserved`: `ObservedInv` carries what a preflight has checked so far from the probe to the commit, but only for a
  preflight that no newer one has overtaken, because the newer one starts the record of hosts anew. `FingerprintInjective`
  makes a ready fingerprint speak of one request only; `FloorsHold` leads from the configured floors to the declared ones; `VersionArithmetic` relates the code's comparison of version
  pairs to CUDA's numbers.
* `BackedContributions`: also needs that a contribution's number is one its fingerprint has reached, so that the next attempt
  differs from it.
* Refinement: `PreflightBegin` maps to `Attempt`, a passing check to `Pass`, a granting commit to
  `Grant`, everything else stutters.

`RawRuntimeProofs` (any number of contexts, children and handles, any driver replies):

* `TypeCorrect`, `Ownership` (`Owned`), `NoDeadHandle` (`NeverMisused`), `ReleasedContexts` (`ContextsReleased`),
  `ReleasedChildren` (`ChildrenReleased`), `RestoredStack` (`StackRestored`, an action property).
* The first invariant is `TypeOK /\ Owned /\ NeverMisused`: `NeverMisused` needs that what a
  value holds is live, and `Owned` is preserved only because a context cannot be closed while it has
  children, and because no two values hold the same handle, so that freeing one never kills another.
* On top of it, `ReleaseInv` says that nothing leaks. `StackRestored` needs
  `StackInv`: as long as no pop has failed, the stack holds the host's contexts alone, so that `cuCtxDestroy` finds nothing of the
  runtime's to take from it.

`SmokeRunProofs` (any number of values and handles, any depth of the stack):

* `RunIsClient` (`SmokeSpec => Spec`): the program refines `RawRuntime`. All theorems above therefore hold of it.
* `ImageLast` (`ImageOutlivesResources`), `CleanReturn` (`CompleteMeansClean`). `ScopeInv`: the locals in scope are always those
  up to some declaration, so that dropping the youngest leaves such a set again, and the library goes from a scope that holds nothing
  else. `YoungestDropped` is that step, from `DeclaredAt`. `ValueInv`: a local that has a value is one object of the runtime, one that has none
  is none. Both are needed for `ImageLast`; `DropIsCall` and `ScopeInv` for `RunIsClient`.
* `OutcomeInv`: no call has failed on the straight way; `EmptyStack`: the stack is empty between calls
  as long as no pop failed. `CleanReturn` then follows from `ReleaseInv`: no value is left, so nothing is live.

`ProbeRunnerProofs` (any limit, any chunk, any behaviour of the probe, its descendant, the reader and the clock):

* `TypeCorrect`, `CompleteOutput` (`ParsedIsComplete`), `JustVerdict` (`VerdictJustified`), `ReaderKeepsPipe` (`NoCloseUnderReader`),
  `AllReleased` (`Released`).
* `ControlInv` relates the statement `run` is at to the process and the reader; `ReaderInv` is the core: a reader that left its loop
  without setting an event saw the end of the file, so nobody can write any more and all was read; `ResultInv` says what
  each result rests on from the moment it is chosen, through the whole clean-up; `CleanUpInv`, which waits have expired.

`ToolkitInspectorProofs` (any trees, any number of changes):

* `TypeCorrect`, `ReportedFacts` (`ReportWasThere`), `TrueReasons` (`FailureWasTrue`).
* As for the loader, both speak of the end. `KnownInv` is what the looks so far have established, in terms of the history. `TodoInv` covers the nested
  loops: each path of a need that is no longer among its component's candidates failed at some moment, and each
  need is either met or still to come.

`DriverLoaderProofs` (any number of candidates, images and changes):

* `TypeCorrect`, `FirstUsable` (`FirstUsableWins`), `MappedImage` (`MappedWasReviewed`), `TrueReason` (`ReasonWasTrue`).
* None of the three is inductive, since each speaks of the end of the loop. The invariant says what is known in its
  middle: `Tried`, that no candidate given up so far was usable all along; `Reviewed`, what the calls made
  for the current candidate have established; and `EverOK`, that the history contains the present. A candidate that is given up was
  not usable all along because each failing check contradicts `UsableNow`; a change of the files only adds to the history.

`ProbeProofs` (any number of devices, any driver values, any report, any length of a report's text and any limit):

* `ParserIsStricter` and `ParsedReportsConstruct` (`ParsedConstructs`): whatever parses, constructs. The two sets of checks are
  compared directly.
* `WholeReports` (`CompleteIsWhole`), `ReadableReports` (`ReportIsRead`), `UsableIsAdmitted` (`AdmittedIffUsable`). `InventoryInv` says that the rows so
  far are those of the first devices, each with a sanitized name, and that another device is asked for only while rows are missing; `ReportInv`, that a written report
  is one of two forms, complete or incomplete. `SmNameTells` says that names of a one-digit minor version tell the versions
  apart, without which a usable device could be confused with another (`sm_1210`).

`PreflightRulesProofs` (any number of edits of a request and a configuration):

* `OnlyDeclared` (`AcceptedIsDeclared`), `NoOverride` (`FactsAgree`), `OptionsAreEnough` (`OptionsSuffice`),
  `ScriptIsUnderstood` (`ScriptAsksAsTold`).
* `Passes` says that a list of checks answers "ok" exactly when all of them hold, for a list of any length; it needs that a nonempty set of
  numbers has a smallest one. One lemma for each group of checks turns its list into a conjunction, and the properties are then
  about these conjunctions. The invariant `RulesInv` says only that requests are well-formed (their fields are there,
  devices are requirements, options have values) and that the script's request stays as it was made.

The assumptions are the `ASSUME`s of the modules, evaluated by TLC in every run. They are about the range of bounds and sets, the
floors a configuration may have (`CudaProvider`), streams and allocations being of two types (`SmokeRun`), and `None`:
that a handle is not `None`, nor an owner of one (`RawRuntime`); that `None` is neither a C integer nor a reason code (`ProbeInventory`),
nor the text of an option (`MCPreflightRules`).

Only model-checked: liveness (`CallsReturn`, `SuccessIsGranted`, `RunReturns`, `InspectionEnds`, `LoadReturns`), which the prover does not
reach. Every safety property of a passing run is a theorem. The findings are counterexamples of TLC.

## 5. Not modelled

* Observations and the contents of a contribution: constant data, no decision depends on them.
* JSON decoding and encoding and exact key sets. `CudaProvider` takes its `Hosts` as facts, not as reports of `ProbeReport`:
  `AdmittedIffUsable` is what links the two.
* Links that change while a toolkit is inspected, and permissions of the root itself.
* The three directories of a driver image's path one by one: they are one state of the image.
* Argument checks of `SubprocessProbeRunner.__init__`, and the difference between its path checks: `PopenFails` is every way in which
  there is no process, whose reason codes no property tells apart.
* The length of a report's text character by character: it is any function of the report.
* The artifact kind on the raw lane, which preflight does not check.
* Memory: `_request_generations` is never pruned; that growth is noted as a hazard, and bounded by `MaxGen` here.
* An ordinal of thousands of digits, which `int` refuses with an error that is no `CudaProbeError`.
* What follows the request in the validation script: the core resolves a plan, evidence is written.
* CI helpers: `ci/install_released_core.py` repeats `pip` a fixed number of times in one process, and
  `ci/check_distribution_contract.py` compares archive contents with a list. Packaging: no behaviour.

## 6. Plan

1. Done: the provider and its authority, the ordered preflight checks and the validation script, the probe runner, the driver
   probe and its report, the toolkit inspector, the driver loader, the raw runtime, the smoke program.
2. Done: a theorem for every safety property that a run checks.
3. An abstract specification of owned resources, implemented by `RawRuntime`; one of `run` that leaves out the reader thread.
