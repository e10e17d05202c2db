------------------------- MODULE CudaProviderProofs -------------------------
(***************************************************************************)
(* Proofs about CudaProvider for every set of threads, requests and hosts. *)
(***************************************************************************)
EXTENDS CudaProvider, TLAPS

-----------------------------------------------------------------------------
\* The fingerprint of a request is one of the fingerprints.
LEMMA FingerprintType == \A r \in Requests: Fingerprint(r) \in Fingerprints
BY DEF Fingerprints

\* Different requests have different fingerprints: none of a request's fields is
\* left out of the canonical JSON.
LEMMA FingerprintInjective ==
    \A r, s \in Requests: Fingerprint(r) = Fingerprint(s) => r = s
<1>1. SUFFICES ASSUME NEW r \in Requests, NEW s \in Requests,
                      Fingerprint(r) = Fingerprint(s)
               PROVE  r = s
      OBVIOUS
<1>2. /\ r.artifact = s.artifact
      /\ r.selection = s.selection
      /\ r.options = s.options
      BY <1>1 DEF Fingerprint
<1> QED BY <1>2, RequestsAssumption

-----------------------------------------------------------------------------
\* A preflight in flight carries a number its fingerprint has reached.
CallsInv ==
    \A t \in Threads: InPreflight(t) =>
        gen[t] \in 1..generations[Fingerprint(req[t])]

TypeInv == TypeOK /\ CallsInv

LEMMA TypeInvInit == Init => TypeInv
<1> SUFFICES ASSUME Init PROVE TypeInv
    OBVIOUS
<1> USE DEF Init
<1>1. TypeOK
      BY MaxGenAssumption DEF TypeOK
<1>2. CallsInv
      BY DEF CallsInv, InPreflight
<1> QED BY <1>1, <1>2 DEF TypeInv

LEMMA TypeInvNext == TypeInv /\ [Next]_vars => TypeInv'
<1> SUFFICES ASSUME TypeInv, [Next]_vars PROVE TypeInv'
    OBVIOUS
<1> USE FingerprintType, MaxGenAssumption DEF TypeInv, TypeOK, CallsInv, InPreflight
<1>1. ASSUME NEW t \in Threads, NEW r \in Requests, PreflightBegin(t, r)
      PROVE  TypeInv'
  <2> DEFINE f == Fingerprint(r)
  <2>1. /\ f \in Fingerprints
        /\ generations' = [generations EXCEPT ![f] = @ + 1]
        /\ generations[f] \in 0..MaxGen
        /\ generations[f] < MaxGen
        BY <1>1 DEF PreflightBegin, Invalidate
  <2>2. TypeOK'
        BY <1>1, <2>1 DEF PreflightBegin, Invalidate, Attempt
  <2>3. CallsInv'
        BY <1>1, <2>1 DEF PreflightBegin, Invalidate, Attempt
  <2> QED BY <2>2, <2>3
<1>2. ASSUME NEW t \in Threads, NEW r \in Requests, BuildCheck(t, r)
      PROVE  TypeInv'
      BY <1>2 DEF BuildCheck
<1>3. ASSUME NEW t \in Threads, StaticReject(t) PROVE TypeInv'
      BY <1>3 DEF StaticReject, Return
<1>4. ASSUME NEW t \in Threads, Probe(t) PROVE TypeInv'
      BY <1>4, HostsAssumption DEF Probe
<1>5. ASSUME NEW t \in Threads, SkipToolkit(t) PROVE TypeInv'
      BY <1>5 DEF SkipToolkit, AllChecksPassed
<1>6. ASSUME NEW t \in Threads, Inspect(t) PROVE TypeInv'
      BY <1>6 DEF Inspect, AllChecksPassed
<1>7. ASSUME NEW t \in Threads, Fail(t) PROVE TypeInv'
      BY <1>7 DEF Fail, Return
<1>8. ASSUME NEW t \in Threads, Commit(t) PROVE TypeInv'
      BY <1>8 DEF Commit, Return
<1>9. ASSUME NEW t \in Threads, BuildReturn(t) PROVE TypeInv'
      BY <1>9 DEF BuildReturn, Return
<1>10. ASSUME HostChange PROVE TypeInv'
      BY <1>10 DEF HostChange, locals
<1>11. ASSUME UNCHANGED vars PROVE TypeInv'
      BY <1>11 DEF vars
<1> QED BY <1>1, <1>2, <1>3, <1>4, <1>5, <1>6, <1>7, <1>8, <1>9, <1>10, <1>11
        DEF Next, Step

\* Every variable always holds a value of its type.
THEOREM TypeCorrect == Spec => []TypeOK
<1>1. TypeInv => TypeOK
      BY DEF TypeInv
<1> QED BY <1>1, TypeInvInit, TypeInvNext, PTL DEF Spec

-----------------------------------------------------------------------------
\* The attempts that passed are among those begun, a call about to commit has
\* passed, and so has the newest attempt of every ready fingerprint.
PassedInv ==
    /\ \A f \in Fingerprints, g \in Nat: <<f, g>> \in passed => g <= generations[f]
    /\ \A t \in Threads: pc[t] = "commit" => <<Fingerprint(req[t]), gen[t]>> \in passed
    /\ AuthorityIsNewest

LEMMA PassedInvInit == Init => PassedInv
BY DEF Init, PassedInv, AuthorityIsNewest

LEMMA PassedInvNext == TypeInv /\ PassedInv /\ [Next]_vars => PassedInv'
<1> SUFFICES ASSUME TypeInv, PassedInv, [Next]_vars PROVE PassedInv'
    OBVIOUS
<1> USE FingerprintType DEF TypeInv, TypeOK, CallsInv, InPreflight, PassedInv, AuthorityIsNewest
<1>1. ASSUME NEW t \in Threads, NEW r \in Requests, PreflightBegin(t, r)
      PROVE  PassedInv'
      BY <1>1 DEF PreflightBegin, Invalidate, Attempt
<1>2. ASSUME NEW t \in Threads, NEW r \in Requests, BuildCheck(t, r)
      PROVE  PassedInv'
      BY <1>2 DEF BuildCheck
<1>3. ASSUME NEW t \in Threads, StaticReject(t) PROVE PassedInv'
      BY <1>3 DEF StaticReject, Return
<1>4. ASSUME NEW t \in Threads, Probe(t) PROVE PassedInv'
      BY <1>4 DEF Probe
<1>5. ASSUME NEW t \in Threads, SkipToolkit(t) PROVE PassedInv'
      BY <1>5 DEF SkipToolkit, AllChecksPassed
<1>6. ASSUME NEW t \in Threads, Inspect(t) PROVE PassedInv'
      BY <1>6 DEF Inspect, AllChecksPassed
<1>7. ASSUME NEW t \in Threads, Fail(t) PROVE PassedInv'
      BY <1>7 DEF Fail, Return
<1>8. ASSUME NEW t \in Threads, Commit(t) PROVE PassedInv'
      BY <1>8 DEF Commit, Return
<1>9. ASSUME NEW t \in Threads, BuildReturn(t) PROVE PassedInv'
      BY <1>9 DEF BuildReturn, Return
<1>10. ASSUME HostChange PROVE PassedInv'
      BY <1>10 DEF HostChange, locals
<1>11. ASSUME UNCHANGED vars PROVE PassedInv'
      BY <1>11 DEF vars
<1> QED BY <1>1, <1>2, <1>3, <1>4, <1>5, <1>6, <1>7, <1>8, <1>9, <1>10, <1>11
        DEF Next, Step

\* A ready fingerprint always owes it to its newest attempt: no overtaken
\* preflight restores authority.
THEOREM NewestAuthority == Spec => []AuthorityIsNewest
<1>1. Init => TypeInv /\ PassedInv
      BY TypeInvInit, PassedInvInit
<1>2. TypeInv /\ PassedInv /\ [Next]_vars => (TypeInv /\ PassedInv)'
      BY TypeInvNext, PassedInvNext
<1>3. PassedInv => AuthorityIsNewest
      BY DEF PassedInv
<1> QED BY <1>1, <1>2, <1>3, PTL DEF Spec

-----------------------------------------------------------------------------
\* A contribution under way also remembers a number its fingerprint has reached,
\* so that the next attempt's number is a new one.
BackedInv ==
    /\ ContributionBacked
    /\ \A t \in Threads: pc[t] = "contribute" =>
          gen[t] <= generations[Fingerprint(req[t])]

LEMMA BackedInvNext ==
    TypeInv /\ PassedInv /\ BackedInv /\ [Next]_vars => BackedInv'
<1> SUFFICES ASSUME TypeInv, PassedInv, BackedInv, [Next]_vars
             PROVE  BackedInv'
    OBVIOUS
<1> USE FingerprintType DEF TypeInv, TypeOK, BackedInv, ContributionBacked
<1>1. ASSUME NEW t \in Threads, NEW r \in Requests, PreflightBegin(t, r)
      PROVE  BackedInv'
      BY <1>1 DEF PreflightBegin, Invalidate
<1>2. ASSUME NEW t \in Threads, NEW r \in Requests, BuildCheck(t, r)
      PROVE  BackedInv'
      BY <1>2 DEF BuildCheck, IsReady, PassedInv, AuthorityIsNewest
<1>3. ASSUME NEW t \in Threads, SkipToolkit(t) \/ Inspect(t)
      PROVE  BackedInv'
      BY <1>3 DEF SkipToolkit, Inspect, AllChecksPassed
<1>4. ASSUME NEW t \in Threads, Commit(t) PROVE BackedInv'
      BY <1>4 DEF Commit, Return
<1>5. ASSUME NEW t \in Threads,
             StaticReject(t) \/ Probe(t) \/ Fail(t) \/ BuildReturn(t)
      PROVE  BackedInv'
      BY <1>5 DEF StaticReject, Probe, Fail, BuildReturn, Return
<1>6. ASSUME HostChange \/ UNCHANGED vars PROVE BackedInv'
      BY <1>6 DEF HostChange, locals, vars
<1> QED BY <1>1, <1>2, <1>3, <1>4, <1>5, <1>6 DEF Next, Step

\* A contribution under way was authorised by an attempt that passed, and only a
\* newer attempt takes that authority away.
THEOREM BackedContributions == Spec => []ContributionBacked
<1>1. Init => TypeInv /\ PassedInv /\ BackedInv
      BY TypeInvInit, PassedInvInit DEF Init, BackedInv, ContributionBacked
<1>2. TypeInv /\ PassedInv /\ BackedInv /\ [Next]_vars
         => (TypeInv /\ PassedInv /\ BackedInv)'
      BY TypeInvNext, PassedInvNext, BackedInvNext
<1>3. BackedInv => ContributionBacked
      BY DEF BackedInv
<1> QED BY <1>1, <1>2, <1>3, PTL DEF Spec

-----------------------------------------------------------------------------
\* The provider's comparison of version pairs, and the arithmetic of CUDA's
\* version numbers, agree.
LEMMA NotEarlier ==
    ASSUME NEW a \in Nat, NEW b \in Nat, NEW c \in Nat, NEW d \in Nat,
           ~ (a < c \/ (a = c /\ b < d))
    PROVE  a > c \/ (a = c /\ b >= d)
OBVIOUS

LEMMA TwoDigits ==
    ASSUME NEW a \in Nat, NEW b \in Nat, NEW c \in Nat, NEW d \in 0..99,
           a > c \/ (a = c /\ b >= d)
    PROVE  1000 * a + 10 * b >= 1000 * c + 10 * d
OBVIOUS

\* A floor at or above another one: what reaches it reaches both.
LEMMA NotEarlierIsAtLeast ==
    ASSUME NEW v \in Version, NEW w \in Nat \X Nat, ~ Earlier(v, w)
    PROVE  AtLeast(v, w)
<1>1. v[1] \in Nat /\ v[2] \in Nat /\ w[1] \in Nat /\ w[2] \in Nat
      BY DEF Version
<1> QED BY <1>1, NotEarlier DEF Earlier, AtLeast

LEMMA AtLeastIsTransitive ==
    ASSUME NEW u \in Nat \X Nat, NEW v \in Nat \X Nat, NEW w \in Nat \X Nat,
           AtLeast(u, v), AtLeast(v, w)
    PROVE  AtLeast(u, w)
BY DEF AtLeast

\* The configured floors are at or above those the manifest declares.
LEMMA FloorsHold ==
    /\ MinDriver \in Nat
    /\ MinDriver >= DriverFloor /\ DriverFloor \in Nat
    /\ MinToolkit \in Version /\ ToolkitFloor \in Nat \X Nat
    /\ AtLeast(MinToolkit, ToolkitFloor)
<1>1. /\ MinDriver \in Nat
      /\ MinDriver >= DriverFloor /\ DriverFloor \in Nat
      BY FloorsAssumption, SMT DEF ValidFloors, DriverFloor
<1>2. MinToolkit \in Version /\ ~ Earlier(MinToolkit, ToolkitFloor)
      BY FloorsAssumption DEF ValidFloors
<1>3. ToolkitFloor \in Nat \X Nat
      BY DEF ToolkitFloor
<1> QED BY <1>1, <1>2, <1>3, NotEarlierIsAtLeast

\* What the probe's report is accepted for fits in plain numbers.
LEMMA AcceptedReportFits ==
    ASSUME NEW r \in Requests, NEW h \in Hosts, ProbeAccepts(r, h)
    PROVE  Fits(r, h)
<1>1. h.driver \in Nat /\ h.driver >= MinDriver
      BY HostsAssumption DEF ProbeAccepts
<1>2. h.driver >= DriverFloor
      BY <1>1, FloorsHold
<1> QED BY <1>2 DEF ProbeAccepts, Fits

LEMMA VersionArithmetic ==
    ASSUME NEW v \in Nat, NEW n \in Version, ~ Earlier(DriverVersionTuple(v), n)
    PROVE  v - (v % 10) >= 1000 * n[1] + 10 * n[2]
<1> DEFINE a == v \div 1000
           m == v % 1000
           b == m \div 10
<1>1. /\ n[1] \in 0..99
      /\ n[2] \in 0..99
      BY DEF Version
<1>2. a > n[1] \/ (a = n[1] /\ b >= n[2])
  <2>1. ~ (a < n[1] \/ (a = n[1] /\ b < n[2]))
        BY DEF Earlier, DriverVersionTuple
  <2>2. a \in Nat /\ m \in Nat /\ b \in Nat
        OBVIOUS
  <2> HIDE DEF a, b
  <2> QED BY <1>1, <2>1, <2>2, NotEarlier
<1>3. /\ v - (v % 10) = 1000 * a + 10 * b
      /\ a \in Nat /\ b \in Nat
      OBVIOUS
<1> HIDE DEF a, m, b
<1>4. n[1] \in Nat
      BY <1>1
<1>5. 1000 * a + 10 * b >= 1000 * n[1] + 10 * n[2]
      BY <1>1, <1>2, <1>3, <1>4, TwoDigits
<1> QED BY <1>3, <1>5

\* What the provider accepts of a driver and a toolkit fits in plain numbers.
LEMMA AcceptedFits ==
    ASSUME NEW h \in Hosts, NEW k \in Hosts, ToolkitAccepts(h.driver, k.toolkit)
    PROVE  FitsToolkit(h, k.toolkit)
<1>1. /\ h.driver \in Nat
      /\ k.toolkit \in Version
      BY HostsAssumption DEF ToolkitAccepts
<1>2. k.toolkit \in Nat \X Nat /\ MinToolkit \in Nat \X Nat
      BY <1>1, FloorsHold DEF Version
<1>3. AtLeast(k.toolkit, MinToolkit)
      BY <1>1, <1>2, NotEarlierIsAtLeast DEF ToolkitAccepts
<1>4. AtLeast(k.toolkit, ToolkitFloor)
      BY <1>2, <1>3, FloorsHold, AtLeastIsTransitive
<1>5. h.driver - (h.driver % 10) >= 1000 * k.toolkit[1] + 10 * k.toolkit[2]
      BY <1>1, VersionArithmetic DEF ToolkitAccepts
<1>6. k.toolkit # NoToolkit
      BY DEF ToolkitAccepts
<1> QED BY <1>3, <1>4, <1>5, <1>6 DEF FitsToolkit

\* A host that request r fits has been there since its newest preflight began.
FitObserved(r, v) ==
    \E h \in seen[Fingerprint(r)]: h.driver = v /\ Fits(r, h)
Observed(r) ==
    \E h \in seen[Fingerprint(r)]:
        /\ Fits(r, h)
        /\ r.options.inspects =>
              \E k \in seen[Fingerprint(r)]: FitsToolkit(h, k.toolkit)

Newest(t) == generations[Fingerprint(req[t])] = gen[t]

\* The present host is among those seen; what a preflight that was not overtaken
\* has checked so far was seen; a ready request was ready after its last check.
ObservedInv ==
    /\ \A f \in Fingerprints: generations[f] > 0 => host \in seen[f]
    /\ \A t \in Threads: pc[t] = "inspect" /\ Newest(t) => FitObserved(req[t], driver[t])
    /\ \A t \in Threads: pc[t] = "commit" /\ Newest(t) => Observed(req[t])
    /\ \A r \in Requests: Fingerprint(r) \in ready => Observed(r)

\* The last conjunct is ReadyWasObservable.
LEMMA ObservedIsProperty == ObservedInv => ReadyWasObservable
BY DEF ObservedInv, Observed, ReadyWasObservable

LEMMA ObservedInvInit == Init => ObservedInv
BY FingerprintType DEF Init, ObservedInv

LEMMA ObservedInvNext ==
    TypeInv /\ ObservedInv /\ [Next]_vars => ObservedInv'
<1> SUFFICES ASSUME TypeInv, ObservedInv, [Next]_vars
             PROVE  ObservedInv'
    OBVIOUS
<1> USE FingerprintType DEF TypeInv, TypeOK, CallsInv, InPreflight, ObservedInv,
        FitObserved, Observed, Newest
<1>1. ASSUME NEW t \in Threads, NEW r \in Requests, PreflightBegin(t, r)
      PROVE  ObservedInv'
      BY <1>1 DEF PreflightBegin, Invalidate
<1>2. ASSUME NEW t \in Threads, Probe(t) PROVE ObservedInv'
  <2>1. host \in seen[Fingerprint(req[t])]
        BY <1>2 DEF Probe
  <2>2. Fits(req[t], host)
        BY <1>2, AcceptedReportFits DEF Probe
  <2>3. FitObserved(req[t], host.driver)
        BY <2>1, <2>2
  <2> QED BY <1>2, <2>3 DEF Probe
<1>3. ASSUME NEW t \in Threads, SkipToolkit(t) PROVE ObservedInv'
      BY <1>3 DEF SkipToolkit, AllChecksPassed
<1>4. ASSUME NEW t \in Threads, Inspect(t) PROVE ObservedInv'
  <2>1. Newest(t) => Observed(req[t])
        BY <1>4, AcceptedFits DEF Inspect
  <2> QED BY <1>4, <2>1 DEF Inspect, AllChecksPassed
<1>5. ASSUME NEW t \in Threads, Commit(t) PROVE ObservedInv'
      BY <1>5, FingerprintInjective DEF Commit, Return
<1>6. ASSUME NEW t \in Threads, StaticReject(t) \/ Fail(t) \/ BuildReturn(t)
      PROVE  ObservedInv'
      BY <1>6 DEF StaticReject, Fail, BuildReturn, Return
<1>7. ASSUME NEW t \in Threads, NEW r \in Requests, BuildCheck(t, r)
      PROVE  ObservedInv'
      BY <1>7 DEF BuildCheck
<1>8. ASSUME HostChange PROVE ObservedInv'
  <2>1. \A f \in Fingerprints: seen[f] \subseteq seen'[f]
        BY <1>8 DEF HostChange
  <2> QED BY <1>8, <2>1 DEF HostChange, locals
<1>9. ASSUME UNCHANGED vars PROVE ObservedInv'
      BY <1>9 DEF vars
<1> QED BY <1>1, <1>2, <1>3, <1>4, <1>5, <1>6, <1>7, <1>8, <1>9 DEF Next, Step

\* While a request is ready, every fact its README promises held at some moment
\* since its newest preflight began.
THEOREM ReadyObserved == Spec => []ReadyWasObservable
<1>1. Init => TypeInv /\ ObservedInv
      BY TypeInvInit, ObservedInvInit
<1>2. TypeInv /\ ObservedInv /\ [Next]_vars => (TypeInv /\ ObservedInv)'
      BY TypeInvNext, ObservedInvNext
<1> QED BY <1>1, <1>2, ObservedIsProperty, PTL DEF Spec

-----------------------------------------------------------------------------
\* A new attempt's number is above those in flight, so numbers stay distinct.
LEMMA DistinctNext ==
    TypeInv /\ AttemptsAreDistinct /\ [Next]_vars => AttemptsAreDistinct'
<1> SUFFICES ASSUME TypeInv, AttemptsAreDistinct, [Next]_vars
             PROVE  AttemptsAreDistinct'
    OBVIOUS
<1> USE FingerprintType DEF TypeInv, TypeOK, CallsInv, InPreflight, AttemptsAreDistinct
<1>1. ASSUME NEW t \in Threads, NEW r \in Requests, PreflightBegin(t, r)
      PROVE  AttemptsAreDistinct'
      BY <1>1 DEF PreflightBegin, Attempt
<1>2. ASSUME NEW t \in Threads, NEW r \in Requests, BuildCheck(t, r)
      PROVE  AttemptsAreDistinct'
      BY <1>2 DEF BuildCheck
<1>3. ASSUME NEW t \in Threads, Step(t) PROVE AttemptsAreDistinct'
      BY <1>3 DEF Step, StaticReject, Probe, SkipToolkit, Inspect, AllChecksPassed,
                  Fail, Commit, BuildReturn, Return
<1>4. ASSUME HostChange \/ UNCHANGED vars PROVE AttemptsAreDistinct'
      BY <1>4 DEF HostChange, locals, vars
<1> QED BY <1>1, <1>2, <1>3, <1>4 DEF Next

\* Concurrent preflights of one fingerprint always carry different numbers.
THEOREM DistinctAttempts == Spec => []AttemptsAreDistinct
<1>1. Init => AttemptsAreDistinct
      BY DEF Init, AttemptsAreDistinct, InPreflight
<1> QED BY <1>1, TypeInvInit, TypeInvNext, DistinctNext, PTL DEF Spec

-----------------------------------------------------------------------------
\* Every step of the provider is a step of ReadyAuthority, or none.
LEMMA StepImplements == TypeInv /\ PassedInv /\ [Next]_vars =>
    [Authority!ANext]_Authority!avars
<1> SUFFICES ASSUME TypeInv, PassedInv, [Next]_vars
             PROVE  [Authority!ANext]_Authority!avars
    OBVIOUS
<1> USE FingerprintType DEF TypeInv, TypeOK, CallsInv, InPreflight, PassedInv,
        Holder, Authority!avars
<1>1. ASSUME NEW t \in Threads, NEW r \in Requests, PreflightBegin(t, r)
      PROVE  Authority!Attempt(Fingerprint(r))
      BY <1>1 DEF PreflightBegin, Invalidate, Authority!Attempt
<1>2. ASSUME NEW t \in Threads, SkipToolkit(t) \/ Inspect(t)
      PROVE  Authority!Pass(Fingerprint(req[t]))
      BY <1>2 DEF SkipToolkit, Inspect, AllChecksPassed, Authority!Pass
<1>3. ASSUME NEW t \in Threads, Commit(t)
      PROVE  Authority!Grant(Fingerprint(req[t])) \/ UNCHANGED Authority!avars
  <2>1. CASE generations[Fingerprint(req[t])] = gen[t]
        BY <1>3, <2>1 DEF Commit, Authority!Grant
  <2>2. CASE generations[Fingerprint(req[t])] # gen[t]
        BY <1>3, <2>2 DEF Commit
  <2> QED BY <2>1, <2>2
<1>4. ASSUME NEW t \in Threads,
             StaticReject(t) \/ Probe(t) \/ Fail(t) \/ BuildReturn(t)
      PROVE  UNCHANGED Authority!avars
      BY <1>4 DEF StaticReject, Probe, Fail, BuildReturn
<1>5. ASSUME NEW t \in Threads, NEW r \in Requests, BuildCheck(t, r)
      PROVE  UNCHANGED Authority!avars
      BY <1>5 DEF BuildCheck
<1>6. ASSUME HostChange \/ UNCHANGED vars PROVE UNCHANGED Authority!avars
      BY <1>6 DEF HostChange, vars
<1> HIDE DEF TypeInv, CallsInv, PassedInv, Holder, Authority!avars
<1>7. ASSUME NEW t \in Threads, Step(t)
      PROVE  [Authority!ANext]_Authority!avars
  <2>1. CASE SkipToolkit(t) \/ Inspect(t)
    <3>1. Fingerprint(req[t]) \in Fingerprints
          BY <2>1 DEF TypeInv, SkipToolkit, Inspect
    <3> QED BY <1>2, <2>1, <3>1 DEF Authority!ANext
  <2>2. CASE Commit(t)
    <3>1. Fingerprint(req[t]) \in Fingerprints
          BY <2>2 DEF TypeInv, Commit
    <3> QED BY <1>3, <2>2, <3>1 DEF Authority!ANext
  <2> QED BY <1>4, <1>7, <2>1, <2>2 DEF Step
<1> QED BY <1>1, <1>5, <1>6, <1>7 DEF Next, Authority!ANext

\* The provider implements the abstract authority.
THEOREM Implementation == Spec => ImplementsAuthority
<1>1. Init => Authority!AInit
      BY DEF Init, Authority!AInit, Holder
<1>2. Init => TypeInv /\ PassedInv
      BY TypeInvInit, PassedInvInit
<1>3. TypeInv /\ PassedInv /\ [Next]_vars => (TypeInv /\ PassedInv)'
      BY TypeInvNext, PassedInvNext
<1> QED BY <1>1, <1>2, <1>3, StepImplements, PTL
        DEF Spec, ImplementsAuthority, Authority!ASpec
=============================================================================
