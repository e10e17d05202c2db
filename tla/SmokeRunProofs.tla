--------------------------- MODULE SmokeRunProofs ---------------------------
(***************************************************************************)
(* Proofs about SmokeRun: run is a client of the raw runtime, so that all  *)
(* the runtime promises holds in it; what run itself promises follows from *)
(* which of its locals have a value at each statement, from the order in   *)
(* which Rust drops them, and from the driver objects behind each local.   *)
(***************************************************************************)
EXTENDS SmokeRun, RawRuntimeProofs

-----------------------------------------------------------------------------
\* The children that exist.
Alive == {k \in Kids: kid[k] # None}

\* The statements on the way to smoke-complete.
Straight == {"load", "resolve", "context", "stream", "allocation", "synchronize", "free",
             "destroy", "close", "drop context", "drop api", "drop library"}

\* The locals that can have a value together: the first few of the declarations.
UpToApi == {"library", "api"}
UpToContext == UpToApi \union {"context"}
UpToStream == UpToContext \union {"stream"}
UpToAllocation == UpToStream \union {"allocation"}
Prefixes == {{}, {"library"}, UpToApi, UpToContext, UpToStream, UpToAllocation}

\* Where run is tells which of its locals have a value.
ScopeInv ==
    /\ at \in Straight \union {"unwind", "returned"}
    /\ scope \in Prefixes
    /\ at \in {"load", "returned"} => scope = {}
    /\ at \in {"resolve", "drop library"} => scope = {"library"}
    /\ at \in {"context", "drop api"} => scope = UpToApi
    /\ at \in {"stream", "close", "drop context"} => scope = UpToContext
    /\ at \in {"allocation", "destroy"} => scope = UpToStream
    /\ at \in {"synchronize", "free"} => scope = UpToAllocation

\* A local that has a value is one object of the runtime, one that has none is
\* none.
ValueInv ==
    /\ IF "context" \in scope THEN \E c \in Contexts: held = {c} ELSE held = {}
    /\ IF "stream" \in scope THEN \E k \in Streams: Alive \intersect Streams = {k}
       ELSE Alive \intersect Streams = {}
    /\ IF "allocation" \in scope THEN \E k \in Allocations: Alive \intersect Allocations = {k}
       ELSE Alive \intersect Allocations = {}

\* Nothing went wrong before an early return, and the context was closed before
\* it is dropped at the end.
OutcomeInv ==
    /\ at \in Straight => faults = {} /\ outcome = "none"
    /\ at = "unwind" => outcome = "error"
    /\ at = "returned" /\ outcome = "complete" => faults = {}
    /\ at = "drop context" => \A c \in held: raw[c] = None

StageInv == ScopeInv /\ ValueInv /\ OutcomeInv

\* No host program shares the thread: nothing but a failed pop fills the stack.
EmptyStack == "pop" \notin faults => driver.stack = << >>

SmokeInv == StageInv /\ EmptyStack

-----------------------------------------------------------------------------
\* A drop of a local is a call of the runtime's API or does not touch the
\* runtime, and so is every step of run.
LEMMA DropIsCall ==
    ASSUME TypeOK, NEW x \in UpToAllocation, Drops(x) PROVE ApiStep \/ UNCHANGED vars
<1>1. held \subseteq Contexts
      BY DEF TypeOK
<1>2. CASE x = "allocation"
      BY <1>2 DEF Drops, Kids, ApiStep
<1>3. CASE x = "stream"
      BY <1>3 DEF Drops, Kids, ApiStep
<1>4. CASE x = "context"
      BY <1>1, <1>4 DEF Drops, ApiStep
<1>5. CASE x = "api" \/ x = "library"
      BY <1>5 DEF Drops, Untouched
<1> QED BY <1>2, <1>3, <1>4, <1>5 DEF UpToAllocation, UpToStream, UpToContext, UpToApi

\* Rust drops the latest declaration first.
LEMMA YoungestOf ==
    /\ Youngest({"library"}) = "library"
    /\ Youngest(UpToApi) = "api"
    /\ Youngest(UpToContext) = "context"
    /\ Youngest(UpToStream) = "stream"
    /\ Youngest(UpToAllocation) = "allocation"
<1> DEFINE Last(S, x) == x \in S /\ \A y \in S: DeclaredAt[y] <= DeclaredAt[x]
<1>1. /\ DeclaredAt["library"] = 50 /\ DeclaredAt["api"] = 83 /\ DeclaredAt["context"] = 98
      /\ DeclaredAt["stream"] = 102 /\ DeclaredAt["allocation"] = 108
      BY DEF DeclaredAt
<1>2. \A x: Last({"library"}, x) <=> x = "library"
      BY <1>1
<1>3. \A x: Last(UpToApi, x) <=> x = "api"
      BY <1>1 DEF UpToApi
<1>4. \A x: Last(UpToContext, x) <=> x = "context"
      BY <1>1 DEF UpToApi, UpToContext
<1>5. \A x: Last(UpToStream, x) <=> x = "stream"
      BY <1>1 DEF UpToApi, UpToContext, UpToStream
<1>6. \A x: Last(UpToAllocation, x) <=> x = "allocation"
      BY <1>1 DEF UpToApi, UpToContext, UpToStream, UpToAllocation
<1> QED BY <1>2, <1>3, <1>4, <1>5, <1>6 DEF Youngest

\* What an early return drops next is one of the locals, and leaves a prefix.
LEMMA YoungestDropped ==
    ASSUME ScopeInv, scope # {}, Moves(Youngest(scope))
    PROVE  /\ Youngest(scope) \in UpToAllocation
           /\ scope' \in Prefixes
           /\ scope' = scope \ {Youngest(scope)}
<1>1. scope \in {{"library"}, UpToApi, UpToContext, UpToStream, UpToAllocation}
      BY DEF ScopeInv, Prefixes
<1>2. CASE scope = {"library"}
      BY <1>2, YoungestOf DEF Moves, Prefixes, UpToApi, UpToContext, UpToStream, UpToAllocation
<1>3. CASE scope = UpToApi
      BY <1>3, YoungestOf DEF Moves, Prefixes, UpToApi, UpToContext, UpToStream, UpToAllocation
<1>4. CASE scope = UpToContext
      BY <1>4, YoungestOf DEF Moves, Prefixes, UpToApi, UpToContext, UpToStream, UpToAllocation
<1>5. CASE scope = UpToStream
      BY <1>5, YoungestOf DEF Moves, Prefixes, UpToApi, UpToContext, UpToStream, UpToAllocation
<1>6. CASE scope = UpToAllocation
      BY <1>6, YoungestOf DEF Moves, Prefixes, UpToApi, UpToContext, UpToStream, UpToAllocation
<1> QED BY <1>1, <1>2, <1>3, <1>4, <1>5, <1>6

\* A step of run is a call of the runtime's API or does not touch the runtime.
LEMMA StepIsCall == ASSUME TypeOK, ScopeInv, SmokeNext PROVE ApiStep \/ UNCHANGED vars
<1>1. held \subseteq Contexts
      BY DEF TypeOK
<1>2. CASE NewContext
      BY <1>2 DEF NewContext, Untouched, ApiStep
<1>3. CASE NewStream
      BY <1>1, <1>3 DEF NewStream, Kids, ApiStep
<1>4. CASE NewAllocation
      BY <1>1, <1>4 DEF NewAllocation, Kids, ApiStep
<1>5. CASE SynchronizeStream
      BY <1>5 DEF SynchronizeStream, ApiStep
<1>6. CASE FreeAllocation
      BY <1>6 DEF FreeAllocation, Kids, ApiStep
<1>7. CASE DestroyStream
      BY <1>7 DEF DestroyStream, Kids, ApiStep
<1>8. CASE Close
      BY <1>1, <1>8 DEF Close, ApiStep
<1>9. CASE FinalDrops
  <2>1. \E x \in {"context", "api", "library"}: Drops(x)
        BY <1>9 DEF FinalDrops, FinalDrop
  <2> QED BY <2>1, DropIsCall DEF UpToAllocation, UpToStream, UpToContext, UpToApi
<1>10. CASE Unwind
  <2>1. CASE scope = {}
        BY <1>10, <2>1 DEF Unwind, Untouched
  <2>2. CASE scope # {}
        BY <1>10, <2>2, YoungestDropped, DropIsCall DEF Unwind
  <2> QED BY <2>1, <2>2
<1>11. CASE Load \/ Resolve \/ Returned
      BY <1>11 DEF Load, Resolve, Returned, Untouched, smokeVars
<1> QED BY <1>2, <1>3, <1>4, <1>5, <1>6, <1>7, <1>8, <1>9, <1>10, <1>11 DEF SmokeNext

\* Which locals have a value follows from the statements alone.
LEMMA ScopeNext == ASSUME ScopeInv, [SmokeNext]_smokeVars PROVE ScopeInv'
<1> USE DEF UpToApi, UpToContext, UpToStream, UpToAllocation
<1>1. CASE Load \/ Resolve
      BY <1>1 DEF Load, Resolve, Proceed, Binds, ScopeInv, Straight, Prefixes
<1>2. CASE NewContext \/ NewStream \/ NewAllocation
      BY <1>2 DEF NewContext, NewStream, NewAllocation, Proceed, Binds, Keeps, ScopeInv, Straight,
                  Prefixes
<1>3. CASE SynchronizeStream \/ FreeAllocation \/ DestroyStream \/ Close
      BY <1>3 DEF SynchronizeStream, FreeAllocation, DestroyStream, Close, Proceed, Moves, Keeps,
                  ScopeInv, Straight, Prefixes
<1>4. CASE FinalDrops
      BY <1>4 DEF FinalDrops, FinalDrop, Moves, ScopeInv, Straight, Prefixes
<1>5. CASE Unwind
  <2>1. CASE scope = {}
        BY <1>5, <2>1 DEF Unwind, Keeps, ScopeInv, Straight
  <2>2. CASE scope # {}
    <3>1. at = "unwind" /\ at' = "unwind" /\ Moves(Youngest(scope))
          BY <1>5, <2>2 DEF Unwind
    <3>2. scope' \in Prefixes
          BY <2>2, <3>1, YoungestDropped
    <3> QED BY <3>1, <3>2 DEF ScopeInv, Straight
  <2> QED BY <2>1, <2>2
<1>6. CASE Returned \/ UNCHANGED smokeVars
      BY <1>6 DEF Returned, smokeVars, ScopeInv
<1> QED BY <1>1, <1>2, <1>3, <1>4, <1>5, <1>6 DEF SmokeNext

LEMMA ScopeInvariance == SmokeSpec => []ScopeInv
<1>1. SmokeInit => ScopeInv
      BY DEF SmokeInit, ScopeInv, Straight, Prefixes
<1> QED BY <1>1, ScopeNext, PTL DEF SmokeSpec

\* run is a program over the raw runtime: each of its behaviours is one of
\* RawRuntime's, whose theorems therefore hold of it.
THEOREM RunIsClient == SmokeSpec => Spec
<1>1. SmokeInit => Init
      BY DEF SmokeInit
<1>2. IInv /\ ScopeInv /\ [SmokeNext]_smokeVars => [Next]_vars
      BY StepIsCall DEF IInv, Next, smokeVars
<1> QED BY <1>1, <1>2, IInvInit, IInvNext, ScopeInvariance, PTL DEF SmokeSpec, Spec

-----------------------------------------------------------------------------
\* What the calls of run do to the values, whether they succeed or not.
LEMMA NewContextValue ==
    ASSUME NEW c \in Contexts, NEW h \in CtxHandles, NEW pop, NEW reply,
           CreateContext(c, h, pop, reply)
    PROVE  /\ Alive' = Alive
           /\ held' = IF pop = "ok" THEN held \union {c} ELSE held
           /\ pop = "ok" => faults' = faults
BY DEF CreateContext, Alive

LEMMA DoneIsFaultless ==
    ASSUME NEW h, NEW rp, NEW op, Done(h, rp) PROVE FaultsOf(h, rp, op) = {}
BY DEF Done, Reached, FaultsOf

LEMMA NewChildDone ==
    ASSUME IInv, NEW c \in Contexts, NEW k \in Kids, NEW x \in KidHandles,
           NEW rp \in Replies, NewChild(c, k, x, rp), Done(raw[c], rp)
    PROVE  Alive' = Alive \union {k} /\ UNCHANGED <<held, faults>>
<1>1. rp.op = "ok" /\ Creates(raw[c], rp)
      BY DEF Done, Creates
<1>2. /\ kid' = [kid EXCEPT ![k] = [ctx |-> c, raw |-> x]]
      /\ held' = held
      /\ faults' = faults \union FaultsOf(raw[c], rp, "create")
      BY <1>1 DEF NewChild, OutParameter
<1>3. kid'[k] = [ctx |-> c, raw |-> x] /\ \A j \in Kids: j # k => kid'[j] = kid[j]
      BY <1>2 DEF IInv, TypeOK
<1>4. kid'[k] # None
      BY <1>3, NoneAssumption
<1>5. faults' = faults
      BY <1>2, DoneIsFaultless
<1> QED BY <1>2, <1>3, <1>4, <1>5 DEF Alive

LEMMA NewChildFailed ==
    ASSUME NEW c \in Contexts, NEW k \in Kids, NEW x \in KidHandles,
           NEW rp \in Replies, NewChild(c, k, x, rp), ~ Done(raw[c], rp)
    PROVE  UNCHANGED <<held, Alive>>
<1>1. ~ Creates(raw[c], rp)
      BY DEF Done, Creates
<1>2. UNCHANGED <<held, kid>>
      BY <1>1 DEF NewChild
<1> QED BY <1>2 DEF Alive

LEMMA SynchronizeKeeps ==
    ASSUME NEW k \in Streams, NEW rp \in Replies, Synchronize(k, rp)
    PROVE  UNCHANGED <<held, Alive>>
<1>1. UNCHANGED <<held, kid>>
      BY DEF Synchronize
<1> QED BY <1>1 DEF Alive

LEMMA SynchronizeDone ==
    ASSUME NEW k \in Streams, NEW rp \in Replies, Synchronize(k, rp),
           Done(raw[kid[k].ctx], rp)
    PROVE  faults' = faults
<1>1. faults' = faults \union FaultsOf(raw[kid[k].ctx], rp, "synchronize")
      BY DEF Synchronize
<1> QED BY <1>1, DoneIsFaultless

LEMMA ReleaseChildTakes ==
    ASSUME IInv, NEW k \in Kids, NEW rp \in Replies, ReleaseChild(k, rp, "ok")
    PROVE  k \in Alive /\ Alive' = Alive \ {k} /\ held' = held
<1>1. /\ kid' = [kid EXCEPT ![k] = None]
      /\ kid[k] # None
      /\ held' = held
      BY DEF ReleaseChild
<1> QED BY <1>1 DEF Alive, IInv, TypeOK

LEMMA ReleaseChildDone ==
    ASSUME NEW k \in Kids, NEW rp \in Replies, ReleaseChild(k, rp, "ok"),
           Done(raw[kid[k].ctx], rp)
    PROVE  faults' = faults
<1>1. FaultsOf(raw[kid[k].ctx], rp, "free") = {}
      BY DoneIsFaultless
<1>2. DestroyFaults(raw[kid[k].ctx], "ok") = {}
      BY DEF DestroyFaults
<1> QED BY <1>1, <1>2 DEF ReleaseChild

\* A stream or allocation that came or went is the local of its kind.
LEMMA StreamValue ==
    ASSUME ValueInv, NEW k \in Streams, held' = held,
           \/ scope' = scope /\ Alive' = Alive
           \/ "stream" \notin scope /\ scope' = scope \union {"stream"} /\ Alive' = Alive \union {k}
           \/ "stream" \in scope /\ k \in Alive /\ scope' = scope \ {"stream"} /\ Alive' = Alive \ {k}
    PROVE  ValueInv'
BY KindsApart DEF ValueInv

LEMMA AllocationValue ==
    ASSUME ValueInv, NEW k \in Allocations, held' = held,
           \/ scope' = scope /\ Alive' = Alive
           \/ "allocation" \notin scope /\ scope' = scope \union {"allocation"} /\ Alive' = Alive \union {k}
           \/ "allocation" \in scope /\ k \in Alive /\ scope' = scope \ {"allocation"} /\ Alive' = Alive \ {k}
    PROVE  ValueInv'
BY KindsApart DEF ValueInv

-----------------------------------------------------------------------------
LEMMA StageInit == SmokeInit => SmokeInv
<1> SUFFICES ASSUME SmokeInit PROVE SmokeInv
    OBVIOUS
<1>1. Alive = {}
      BY DEF SmokeInit, Init, Alive
<1>2. ScopeInv
      BY DEF SmokeInit, ScopeInv, Straight, Prefixes
<1>3. ValueInv /\ OutcomeInv /\ EmptyStack
      BY <1>1 DEF SmokeInit, Init, ValueInv, OutcomeInv, EmptyStack, Straight
<1> QED BY <1>2, <1>3 DEF SmokeInv, StageInv

\* The driver objects behind the locals, over each statement of run.
LEMMA ValueNext == ASSUME IInv, StageInv, [SmokeNext]_smokeVars PROVE ValueInv'
<1> USE DEF UpToApi, UpToContext, UpToStream, UpToAllocation
<1>h. held \subseteq Contexts /\ Streams \subseteq Kids /\ Allocations \subseteq Kids
      BY DEF IInv, TypeOK, Kids
<1>s. ScopeInv /\ ValueInv
      BY DEF StageInv
<1>1. CASE Load \/ Resolve
  <2>1. Alive' = Alive /\ held' = held
        BY <1>1 DEF Load, Resolve, Untouched, vars, Alive
  <2>2. \A x \in {"context", "stream", "allocation"}: x \in scope' <=> x \in scope
        BY <1>1 DEF Load, Resolve, Binds
  <2> QED BY <1>s, <2>1, <2>2 DEF ValueInv
<1>2. CASE NewContext
  <2>1. scope = UpToApi /\ held = {}
        BY <1>2, <1>s DEF NewContext, ScopeInv, ValueInv
  <2>2. CASE UNCHANGED <<vars, scope>>
        BY <1>s, <2>2 DEF ValueInv, vars, Alive
  <2>3. ASSUME NEW c \in Contexts, NEW h \in CtxHandles, NEW pop \in {"ok", "error", "other"},
               NEW reply \in {"ok", "error"}, CreateContext(c, h, pop, reply),
               Binds(pop = "ok", "context")
        PROVE  ValueInv'
    <3>1. Alive' = Alive /\ held' = IF pop = "ok" THEN {c} ELSE {}
          BY <2>1, <2>3, NewContextValue
    <3> QED BY <1>s, <2>1, <2>3, <3>1 DEF Binds, ValueInv
  <2> QED BY <1>2, <2>2, <2>3 DEF NewContext, Keeps, Untouched
<1>3. CASE NewStream
  <2>1. "stream" \notin scope
        BY <1>3, <1>s DEF NewStream, ScopeInv
  <2>2. PICK c \in held, k \in Streams, x \in KidHandles, rp \in Replies:
           NewChild(c, k, x, rp) /\ Binds(Done(raw[c], rp), "stream")
        BY <1>3 DEF NewStream
  <2>3. CASE Done(raw[c], rp)
    <3>1. held' = held /\ Alive' = Alive \union {k}
          BY <1>h, <2>2, <2>3, NewChildDone
    <3>2. scope' = scope \union {"stream"}
          BY <2>2, <2>3 DEF Binds
    <3> QED BY <1>s, <2>1, <3>1, <3>2, StreamValue
  <2>4. CASE ~ Done(raw[c], rp)
    <3>1. held' = held /\ Alive' = Alive
          BY <1>h, <2>2, <2>4, NewChildFailed
    <3>2. scope' = scope
          BY <2>2, <2>4 DEF Binds
    <3> QED BY <1>s, <3>1, <3>2, StreamValue
  <2> QED BY <2>3, <2>4
<1>4. CASE NewAllocation
  <2>1. "allocation" \notin scope
        BY <1>4, <1>s DEF NewAllocation, ScopeInv
  <2>2. PICK c \in held, k \in Allocations, x \in KidHandles, rp \in Replies:
           NewChild(c, k, x, rp) /\ Binds(Done(raw[c], rp), "allocation")
        BY <1>4 DEF NewAllocation
  <2>3. CASE Done(raw[c], rp)
    <3>1. held' = held /\ Alive' = Alive \union {k}
          BY <1>h, <2>2, <2>3, NewChildDone
    <3>2. scope' = scope \union {"allocation"}
          BY <2>2, <2>3 DEF Binds
    <3> QED BY <1>s, <2>1, <3>1, <3>2, AllocationValue
  <2>4. CASE ~ Done(raw[c], rp)
    <3>1. held' = held /\ Alive' = Alive
          BY <1>h, <2>2, <2>4, NewChildFailed
    <3>2. scope' = scope
          BY <2>2, <2>4 DEF Binds
    <3> QED BY <1>s, <3>1, <3>2, AllocationValue
  <2> QED BY <2>3, <2>4
<1>5. CASE SynchronizeStream
  <2>1. PICK k \in Streams, rp \in Replies: Synchronize(k, rp)
        BY <1>5 DEF SynchronizeStream
  <2> QED BY <1>s, <1>5, <2>1, SynchronizeKeeps, StreamValue DEF SynchronizeStream, Keeps
<1>6. ASSUME "allocation" \in scope, Moves("allocation"),
             NEW k \in Allocations, NEW rp \in Replies, ReleaseChild(k, rp, "ok")
      PROVE  ValueInv'
  <2>1. k \in Alive /\ Alive' = Alive \ {k} /\ held' = held
        BY <1>h, <1>6, ReleaseChildTakes
  <2> QED BY <1>s, <1>6, <2>1, AllocationValue DEF Moves
<1>7. ASSUME "stream" \in scope, Moves("stream"),
             NEW k \in Streams, NEW rp \in Replies, ReleaseChild(k, rp, "ok")
      PROVE  ValueInv'
  <2>1. k \in Alive /\ Alive' = Alive \ {k} /\ held' = held
        BY <1>h, <1>7, ReleaseChildTakes
  <2> QED BY <1>s, <1>7, <2>1, StreamValue DEF Moves
<1>8. CASE FreeAllocation
      BY <1>8, <1>6, <1>s DEF FreeAllocation, ScopeInv
<1>9. CASE DestroyStream
      BY <1>9, <1>7, <1>s DEF DestroyStream, ScopeInv
<1>10. CASE Close
  <2>1. UNCHANGED <<held, kid, scope>>
        BY <1>10 DEF Close, CloseContext, Keeps
  <2> QED BY <1>s, <2>1 DEF ValueInv, Alive
<1>11. ASSUME NEW x \in scope, Moves(x), Drops(x) PROVE ValueInv'
  <2>1. CASE x = "allocation"
        BY <1>6, <1>11, <2>1 DEF Drops
  <2>2. CASE x = "stream"
        BY <1>7, <1>11, <2>2 DEF Drops
  <2>3. CASE x = "context"
    <3>1. PICK c \in held, reply \in {"ok", "error"}: DropContext(c, reply)
          BY <1>11, <2>3 DEF Drops
    <3>2. Alive' = Alive /\ held' = held \ {c}
          BY <3>1 DEF DropContext, Alive
    <3>3. held' = {}
          BY <1>s, <1>11, <2>3, <3>2 DEF ValueInv
    <3> QED BY <1>s, <1>11, <2>3, <3>2, <3>3 DEF ValueInv, Moves
  <2>4. CASE x \in {"api", "library"}
    <3>1. Alive' = Alive /\ held' = held
          BY <1>11, <2>4 DEF Drops, Untouched, vars, Alive
    <3> QED BY <1>s, <1>11, <2>4, <3>1 DEF ValueInv, Moves
  <2> QED BY <1>11, <2>1, <2>2, <2>3, <2>4 DEF Drops
<1>12. CASE FinalDrops
  <2>1. \E x \in scope: Moves(x) /\ Drops(x)
        BY <1>12, <1>s DEF FinalDrops, FinalDrop, ScopeInv
  <2> QED BY <1>11, <2>1
<1>13. CASE Unwind
  <2>1. CASE scope = {}
        BY <1>13, <1>s, <2>1 DEF Unwind, Keeps, Untouched, vars, ValueInv, Alive
  <2>2. CASE scope # {}
    <3>1. Moves(Youngest(scope)) /\ Drops(Youngest(scope))
          BY <1>13, <2>2 DEF Unwind
    <3>2. Youngest(scope) \in scope
          BY <1>s, <2>2, YoungestOf DEF ScopeInv, Prefixes
    <3> QED BY <1>11, <3>1, <3>2
  <2> QED BY <2>1, <2>2
<1>14. CASE Returned \/ UNCHANGED smokeVars
      BY <1>14, <1>s DEF Returned, smokeVars, vars, ValueInv, Alive
<1> QED BY <1>1, <1>2, <1>3, <1>4, <1>5, <1>8, <1>9, <1>10, <1>12, <1>13, <1>14 DEF SmokeNext

\* A step that leaves run early says so.
LEMMA Leaves == ASSUME at' = "unwind", outcome' = "error" PROVE OutcomeInv'
BY DEF OutcomeInv, Straight

\* A statement that succeeds met no failure.
LEMMA GoesOn ==
    ASSUME OutcomeInv, at \in Straight, at' \in Straight \ {"drop context"},
           UNCHANGED <<faults, outcome>>
    PROVE  OutcomeInv'
BY DEF OutcomeInv, Straight

LEMMA OutcomeNext == ASSUME IInv, StageInv, [SmokeNext]_smokeVars PROVE OutcomeInv'
<1>h. held \subseteq Contexts /\ Streams \subseteq Kids /\ Allocations \subseteq Kids
      BY DEF IInv, TypeOK, Kids
<1>s. ScopeInv /\ ValueInv /\ OutcomeInv
      BY DEF StageInv
<1>1. CASE Load \/ Resolve
      BY <1>1, <1>s, Leaves, GoesOn DEF Load, Resolve, Untouched, vars, Proceed, Straight
<1>2. CASE NewContext
      BY <1>2, <1>s, Leaves, GoesOn, NewContextValue DEF NewContext, Proceed, Straight
<1>3. CASE NewStream
  <2>1. at = "stream"
        BY <1>3 DEF NewStream
  <2>2. PICK c \in held, k \in Streams, x \in KidHandles, rp \in Replies:
           NewChild(c, k, x, rp) /\ Proceed(Done(raw[c], rp), "allocation")
        BY <1>3 DEF NewStream
  <2>3. CASE Done(raw[c], rp)
    <3>1. at' = "allocation" /\ outcome' = outcome
          BY <2>2, <2>3 DEF Proceed
    <3>2. faults' = faults
          BY <1>h, <2>2, <2>3, NewChildDone
    <3> QED BY <1>s, <2>1, <3>1, <3>2, GoesOn DEF Straight
  <2>4. CASE ~ Done(raw[c], rp)
        BY <2>2, <2>4, Leaves DEF Proceed
  <2> QED BY <2>3, <2>4
<1>4. CASE NewAllocation
  <2>1. at = "allocation"
        BY <1>4 DEF NewAllocation
  <2>2. PICK c \in held, k \in Allocations, x \in KidHandles, rp \in Replies:
           NewChild(c, k, x, rp) /\ Proceed(Done(raw[c], rp), "synchronize")
        BY <1>4 DEF NewAllocation
  <2>3. CASE Done(raw[c], rp)
    <3>1. at' = "synchronize" /\ outcome' = outcome
          BY <2>2, <2>3 DEF Proceed
    <3>2. faults' = faults
          BY <1>h, <2>2, <2>3, NewChildDone
    <3> QED BY <1>s, <2>1, <3>1, <3>2, GoesOn DEF Straight
  <2>4. CASE ~ Done(raw[c], rp)
        BY <2>2, <2>4, Leaves DEF Proceed
  <2> QED BY <2>3, <2>4
<1>5. CASE SynchronizeStream
  <2>1. at = "synchronize"
        BY <1>5 DEF SynchronizeStream
  <2>2. PICK k \in Streams, rp \in Replies:
           Synchronize(k, rp) /\ Proceed(Done(raw[kid[k].ctx], rp), "free")
        BY <1>5 DEF SynchronizeStream
  <2>3. CASE Done(raw[kid[k].ctx], rp)
    <3>1. at' = "free" /\ outcome' = outcome
          BY <2>2, <2>3 DEF Proceed
    <3>2. faults' = faults
          BY <1>h, <2>2, <2>3, SynchronizeDone
    <3> QED BY <1>s, <2>1, <3>1, <3>2, GoesOn DEF Straight
  <2>4. CASE ~ Done(raw[kid[k].ctx], rp)
        BY <2>2, <2>4, Leaves DEF Proceed
  <2> QED BY <2>3, <2>4
<1>6. CASE FreeAllocation
  <2>1. at = "free"
        BY <1>6 DEF FreeAllocation
  <2>2. PICK k \in Allocations, rp \in Replies:
           ReleaseChild(k, rp, "ok") /\ Proceed(Done(raw[kid[k].ctx], rp), "destroy")
        BY <1>6 DEF FreeAllocation
  <2>3. CASE Done(raw[kid[k].ctx], rp)
    <3>1. at' = "destroy" /\ outcome' = outcome
          BY <2>2, <2>3 DEF Proceed
    <3>2. faults' = faults
          BY <1>h, <2>2, <2>3, ReleaseChildDone
    <3> QED BY <1>s, <2>1, <3>1, <3>2, GoesOn DEF Straight
  <2>4. CASE ~ Done(raw[kid[k].ctx], rp)
        BY <2>2, <2>4, Leaves DEF Proceed
  <2> QED BY <2>3, <2>4
<1>7. CASE DestroyStream
  <2>1. at = "destroy"
        BY <1>7 DEF DestroyStream
  <2>2. PICK k \in Streams, rp \in Replies:
           ReleaseChild(k, rp, "ok") /\ Proceed(Done(raw[kid[k].ctx], rp), "close")
        BY <1>7 DEF DestroyStream
  <2>3. CASE Done(raw[kid[k].ctx], rp)
    <3>1. at' = "close" /\ outcome' = outcome
          BY <2>2, <2>3 DEF Proceed
    <3>2. faults' = faults
          BY <1>h, <2>2, <2>3, ReleaseChildDone
    <3> QED BY <1>s, <2>1, <3>1, <3>2, GoesOn DEF Straight
  <2>4. CASE ~ Done(raw[kid[k].ctx], rp)
        BY <2>2, <2>4, Leaves DEF Proceed
  <2> QED BY <2>3, <2>4
<1>8. CASE Close
  <2>1. PICK c \in held, reply \in {"ok", "error"}:
           CloseContext(c, reply) /\ Proceed(reply = "ok", "drop context")
        BY <1>8 DEF Close
  <2>2. held = {c}
        BY <1>8, <1>s, <2>1 DEF Close, ScopeInv, ValueInv, UpToContext
  <2>3. CASE reply = "ok"
    <3>1. at' = "drop context" /\ outcome' = outcome /\ at = "close"
          BY <1>8, <2>1, <2>3 DEF Close, Proceed
    <3>2. held' = held /\ raw' = [raw EXCEPT ![c] = None] /\ faults' = faults
          BY <2>1, <2>3 DEF CloseContext, DestroyFaults
    <3>3. \A b \in held': raw'[b] = None
          BY <1>h, <2>2, <3>2 DEF IInv, TypeOK
    <3> QED BY <1>s, <3>1, <3>2, <3>3 DEF OutcomeInv, Straight
  <2>4. CASE reply # "ok"
        BY <2>1, <2>4, Leaves DEF Proceed
  <2> QED BY <2>3, <2>4
<1>9. CASE FinalDrops
  <2>1. CASE FinalDrop("context", "drop context", "drop api") /\ UNCHANGED outcome
    <3>1. at = "drop context" /\ at' = "drop api"
          BY <2>1 DEF FinalDrop
    <3>2. PICK c \in held, reply \in {"ok", "error"}: DropContext(c, reply)
          BY <2>1 DEF FinalDrop, Drops
    <3>3. raw[c] = None
          BY <1>s, <3>1 DEF OutcomeInv
    <3>4. faults' = faults
          BY <3>2, <3>3 DEF DropContext, DestroyFaults
    <3> QED BY <1>s, <2>1, <3>1, <3>4, GoesOn DEF Straight
  <2>2. CASE FinalDrop("api", "drop api", "drop library") /\ UNCHANGED outcome
        BY <1>s, <2>2, GoesOn DEF FinalDrop, Drops, Untouched, vars, Straight
  <2>3. CASE FinalDrop("library", "drop library", "returned") /\ outcome' = "complete"
        BY <1>s, <2>3 DEF FinalDrop, Drops, Untouched, vars, OutcomeInv, Straight
  <2> QED BY <1>9, <2>1, <2>2, <2>3 DEF FinalDrops
<1>10. CASE Unwind
      BY <1>10, <1>s DEF Unwind, OutcomeInv, Straight
<1>11. CASE Returned \/ UNCHANGED smokeVars
      BY <1>11, <1>s DEF Returned, smokeVars, vars, OutcomeInv
<1> QED BY <1>1, <1>2, <1>3, <1>4, <1>5, <1>6, <1>7, <1>8, <1>9, <1>10, <1>11 DEF SmokeNext

LEMMA StageNext == ASSUME IInv, StageInv, [SmokeNext]_smokeVars PROVE StageInv'
<1>1. ScopeInv'
      BY ScopeNext DEF StageInv
<1> QED BY <1>1, ValueNext, OutcomeNext DEF StageInv

LEMMA EmptyStackNext ==
    ASSUME IInv, ReleaseInv, SmokeInv, [SmokeNext]_smokeVars PROVE EmptyStack'
<1>1. ApiStep \/ UNCHANGED vars
      BY StepIsCall DEF IInv, SmokeInv, StageInv, smokeVars
<1>2. CASE ApiStep
  <2>1. faults \subseteq faults'
        BY <1>2, FaultsStay DEF Next
  <2> QED BY <1>2, <2>1, ApiStack DEF EmptyStack, SmokeInv, ReleaseInv
<1>3. CASE UNCHANGED vars
      BY <1>3 DEF vars, SmokeInv, EmptyStack
<1> QED BY <1>1, <1>2, <1>3

LEMMA SmokeInvariance == SmokeSpec => [](IInv /\ ReleaseInv /\ SmokeInv)
<1>1. IInv /\ ReleaseInv /\ SmokeInv /\ [SmokeNext]_smokeVars => SmokeInv'
      BY StageNext, EmptyStackNext DEF SmokeInv
<1> QED BY <1>1, StageInit, RunIsClient, Invariance, PTL DEF SmokeSpec

-----------------------------------------------------------------------------
\* Without locals there are no values.
LEMMA NothingLeft ==
    ASSUME ValueInv, scope = {} PROVE held = {} /\ \A k \in Kids: kid[k] = None
BY DEF ValueInv, Alive, Kids

\* The driver image stays mapped while a value that may call it exists: early
\* returns drop the latest declaration first, and the library is declared first.
THEOREM ImageLast == SmokeSpec => []ImageOutlivesResources
<1>1. SmokeInv => ImageOutlivesResources
  <2> SUFFICES ASSUME SmokeInv, "library" \notin scope
               PROVE  "api" \notin scope /\ held = {} /\ \A k \in Kids: kid[k] = None
      BY DEF ImageOutlivesResources, Mapped
  <2>1. scope = {}
        BY DEF SmokeInv, StageInv, ScopeInv, Prefixes, UpToApi, UpToContext, UpToStream,
               UpToAllocation
  <2> QED BY <2>1, NothingLeft DEF SmokeInv, StageInv
<1> QED BY <1>1, SmokeInvariance, PTL

\* smoke-complete means that nothing failed and nothing is left, and a failed
\* creation or synchronization leaves nothing either.
THEOREM CleanReturn == SmokeSpec => []CompleteMeansClean
<1>1. IInv /\ ReleaseInv /\ SmokeInv => CompleteMeansClean
  <2> SUFFICES ASSUME IInv, ReleaseInv, SmokeInv, at = "returned"
               PROVE  /\ outcome = "complete" => faults = {}
                      /\ faults \subseteq {"create", "synchronize"} =>
                            /\ driver.live = {} /\ driver.stack = << >>
                            /\ \A x \in KidHandles: driver.kids[x] = None
      BY DEF CompleteMeansClean
  <2>1. /\ held = {}
        /\ \A k \in Kids: kid[k] = None
        /\ outcome = "complete" => faults = {}
    <3>1. scope = {}
          BY DEF SmokeInv, StageInv, ScopeInv
    <3> QED BY <3>1, NothingLeft DEF SmokeInv, StageInv, OutcomeInv
  <2>2. ASSUME faults \subseteq {"create", "synchronize"}
        PROVE  /\ driver.live = {} /\ driver.stack = << >>
               /\ \A x \in KidHandles: driver.kids[x] = None
    <3>1. \A c \in Contexts: raw[c] = None
          BY <2>1 DEF ReleaseInv, ContextsReleased, KidsOf
    <3>2. driver.live = {raw[c] : c \in Contexts} \ {None}
          BY <2>2 DEF ReleaseInv, ContextsReleased
    <3>3. driver.live = {}
          BY <3>1, <3>2
    <3>4. driver.stack = << >>
          BY <2>2 DEF SmokeInv, EmptyStack
    <3>5. \A x \in KidHandles: driver.kids[x] = None
          BY <2>1, <2>2 DEF ReleaseInv, ChildrenReleased
    <3> QED BY <3>3, <3>4, <3>5
  <2> QED BY <2>1, <2>2
<1> QED BY <1>1, SmokeInvariance, PTL
=============================================================================
