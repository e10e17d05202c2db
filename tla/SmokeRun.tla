------------------------------ MODULE SmokeRun ------------------------------
(***************************************************************************)
(* run of crates/rextio-cuda-runtime-smoke/src/main.rs: the program that   *)
(* composes the driver loader with the raw runtime.  It loads the driver   *)
(* image, resolves its symbols, and creates, uses and closes a context, a  *)
(* stream and an allocation; the ? after each call leaves run early, and   *)
(* Rust then drops the locals that still have a value, in reverse order of *)
(* their declaration.                                                      *)
(***************************************************************************)
EXTENDS RawRuntime

\* Streams and allocations are values of two Rust types.
ASSUME KindsApart == Streams \intersect Allocations = {}

VARIABLES
    at,       \* the next statement of run, or the drop of its locals
    scope,    \* the locals that have a value: initialized, not yet moved
    outcome   \* "none", "complete" or "error"

smokeVars == <<vars, at, scope, outcome>>

SmokeInit == Init /\ at = "load" /\ scope = {} /\ outcome = "none"

\* Seeded defect: the driver library is declared after what it is used for.
LibraryDeclaredLast == [api |-> 83, context |-> 98, stream |-> 102, allocation |-> 108, library |-> 112]
\* The lines of the let statements.
DeclaredAt == [library |-> 50, api |-> 83, context |-> 98, stream |-> 102, allocation |-> 108]

\* The local that a scope being left drops next.
Youngest(locals) == CHOOSE x \in locals: \A y \in locals: DeclaredAt[y] <= DeclaredAt[x]

\* The driver image is mapped for as long as the DriverLibrary value exists.
Mapped == "library" \in scope

Binds(ok, x) == scope' = IF ok THEN scope \union {x} ELSE scope
Moves(x) == scope' = scope \ {x}
Keeps == UNCHANGED scope
Untouched == UNCHANGED vars

\* Seeded defect: the error of a call is ignored.
ProceedAnyway(ok, next) == at' = next /\ UNCHANGED outcome
\* A call succeeded: go on; it failed: ? leaves run with an error.
Proceed(ok, next) ==
    IF ok THEN at' = next /\ UNCHANGED outcome ELSE at' = "unwind" /\ outcome' = "error"

\* with_current and its operation succeeded.
Done(h, rp) == Reached(h, rp) /\ rp.op = "ok" /\ rp.pop = "ok"

Load ==
    /\ at = "load"
    /\ \E ok \in BOOLEAN: Proceed(ok, "resolve") /\ Binds(ok, "library")
    /\ Untouched

\* The eleven symbols, cuInit, cuDeviceGet and the table of functions.
Resolve ==
    /\ at = "resolve"
    /\ \E ok \in BOOLEAN: Proceed(ok, "context") /\ Binds(ok, "api")
    /\ Untouched

\* cuCtxCreate fails, or succeeds and is followed by a pop that may fail.
NewContext ==
    /\ at = "context"
    /\ \/ Proceed(FALSE, "stream") /\ Keeps /\ Untouched
       \/ \E c \in Contexts, h \in CtxHandles, pop \in {"ok", "error", "other"},
             reply \in {"ok", "error"}:
             /\ CreateContext(c, h, pop, reply)
             /\ Proceed(pop = "ok", "stream") /\ Binds(pop = "ok", "context")

NewStream ==
    /\ at = "stream"
    /\ \E c \in held, k \in Streams, x \in KidHandles, rp \in Replies:
          /\ NewChild(c, k, x, rp)
          /\ Proceed(Done(raw[c], rp), "allocation") /\ Binds(Done(raw[c], rp), "stream")

NewAllocation ==
    /\ at = "allocation"
    /\ \E c \in held, k \in Allocations, x \in KidHandles, rp \in Replies:
          /\ NewChild(c, k, x, rp)
          /\ Proceed(Done(raw[c], rp), "synchronize") /\ Binds(Done(raw[c], rp), "allocation")

SynchronizeStream ==
    /\ at = "synchronize"
    /\ \E k \in Streams, rp \in Replies:
          Synchronize(k, rp) /\ Proceed(Done(raw[kid[k].ctx], rp), "free")
    /\ Keeps

\* close takes the allocation, and later the stream, by value.
FreeAllocation ==
    /\ at = "free"
    /\ \E k \in Allocations, rp \in Replies:
          ReleaseChild(k, rp, "ok") /\ Proceed(Done(raw[kid[k].ctx], rp), "destroy")
    /\ Moves("allocation")

DestroyStream ==
    /\ at = "destroy"
    /\ \E k \in Streams, rp \in Replies:
          ReleaseChild(k, rp, "ok") /\ Proceed(Done(raw[kid[k].ctx], rp), "close")
    /\ Moves("stream")

\* close of a context borrows it.
Close ==
    /\ at = "close"
    /\ \E c \in held, reply \in {"ok", "error"}:
          CloseContext(c, reply) /\ Proceed(reply = "ok", "drop context")
    /\ Keeps

\* What the drop of a local does; the Arc of the table calls no driver.
Drops(x) ==
    \/ x = "allocation" /\ \E k \in Allocations, rp \in Replies: ReleaseChild(k, rp, "ok")
    \/ x = "stream" /\ \E k \in Streams, rp \in Replies: ReleaseChild(k, rp, "ok")
    \/ x = "context" /\ \E c \in held, reply \in {"ok", "error"}: DropContext(c, reply)
    \/ x \in {"api", "library"} /\ Untouched

\* drop(context), drop(api), drop(library) at the end of run.
FinalDrop(x, here, next) == at = here /\ at' = next /\ Moves(x) /\ Drops(x)
FinalDrops ==
    \/ FinalDrop("context", "drop context", "drop api") /\ UNCHANGED outcome
    \/ FinalDrop("api", "drop api", "drop library") /\ UNCHANGED outcome
    \/ FinalDrop("library", "drop library", "returned") /\ outcome' = "complete"

\* An early return drops what is left.
Unwind ==
    /\ at = "unwind"
    /\ IF scope = {} THEN at' = "returned" /\ Keeps /\ Untouched
       ELSE UNCHANGED at /\ Moves(Youngest(scope)) /\ Drops(Youngest(scope))
    /\ UNCHANGED outcome

Returned == at = "returned" /\ UNCHANGED smokeVars

SmokeNext ==
    \/ Load \/ Resolve \/ NewContext \/ NewStream \/ NewAllocation \/ SynchronizeStream
    \/ FreeAllocation \/ DestroyStream \/ Close \/ FinalDrops \/ Unwind \/ Returned

SmokeSpec == SmokeInit /\ [][SmokeNext]_smokeVars

-----------------------------------------------------------------------------
\* While a Rust value that may call the driver exists, the driver image stays
\* mapped: on every path out of run, at whichever of its statements it is left,
\* the table, the context, the stream and the allocation go before the library
\* (DriverApi::from_symbols, "must remain loaded until ... all resources
\* created from it have been dropped").
ImageOutlivesResources ==
    ~ Mapped => "api" \notin scope /\ held = {} /\ \A k \in Kids: kid[k] = None

\* "smoke-complete" is reported only after a run in which no driver call failed
\* and which left nothing in the driver and nothing on the context stack; nor
\* does a failed creation or synchronization leave anything, on any early return.
CompleteMeansClean ==
    at = "returned" =>
        /\ outcome = "complete" => faults = {}
        /\ faults \subseteq {"create", "synchronize"} =>
              /\ driver.live = {} /\ driver.stack = << >>
              /\ \A x \in KidHandles: driver.kids[x] = None
=============================================================================
