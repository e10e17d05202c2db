----------------------------- MODULE RawRuntime -----------------------------
(***************************************************************************)
(* The RAII runtime of rust/rextio-cuda-runtime/src/lib.rs on one thread   *)
(* (its types are !Send): owned contexts, streams and allocations, their   *)
(* creation, use, close and drop, over a CUDA driver whose every call may  *)
(* fail.  One action is one call of the public API (or one drop) with all  *)
(* the driver calls it makes; the driver's replies are chosen by \E.       *)
(***************************************************************************)
EXTENDS Naturals, Sequences

CONSTANTS
    Contexts,     \* OwnedRawContext values and the ContextInner they share
    Streams,      \* OwnedRawStream values
    Allocations,  \* OwnedRawDeviceAllocation values
    CtxHandles,   \* what the driver calls contexts; free again once destroyed
    KidHandles,   \* what the driver calls streams and allocations, likewise
    Foreign,      \* contexts of the host program
    MaxStack,     \* bound: depth of the thread's current-context stack
    None

Kids == Streams \union Allocations

ASSUME NoneAssumption ==
    /\ None \notin CtxHandles \union KidHandles
    /\ None \notin [ctx: Contexts, raw: KidHandles]
    /\ CtxHandles \intersect Foreign = {}
    /\ MaxStack \in Nat

VARIABLES
    held,     \* the OwnedRawContext values that exist
    raw,      \* context -> the Cell of its ContextInner
    kid,      \* child -> [ctx: its Rc<ContextInner>, raw], None when no value
    driver,   \* the driver: current-context stack, live contexts, children of
              \* live contexts, and the dead handles it was ever handed
    faults,   \* history: driver calls that failed so far
    skipped   \* history: children given up without a call to free them

vars == <<held, raw, kid, driver, faults, skipped>>

-----------------------------------------------------------------------------
\* The driver.  A failed call changes nothing; cuCtxDestroy takes the children
\* of the context with it and pops the context when it is current.
Pushed(d, h) ==
    [d EXCEPT !.stack = <<h>> \o @, !.misused = @ \union ({h} \ d.live)]
Freed(d, h, x) ==
    [d EXCEPT !.kids[x] = None, !.misused = @ \union {y \in {x}: d.kids[y] # h}]
Synchronized(d, h, x) == [d EXCEPT !.misused = @ \union {y \in {x}: d.kids[y] # h}]
Destroyed(d, h) ==
    [d EXCEPT !.live = @ \ {h},
              !.kids = [x \in KidHandles |-> IF d.kids[x] = h THEN None ELSE d.kids[x]],
              !.stack = IF d.stack # << >> /\ Head(d.stack) = h THEN Tail(d.stack) ELSE d.stack,
              !.misused = @ \union ({h} \ d.live)]

\* What the driver answers: push, the operation and pop inside with_current
\* ("null" is success with a null result, "other" a pop of another context).
Replies == [push: {"ok", "error"}, op: {"ok", "error", "null"},
            pop: {"ok", "error", "other"}]

\* with_current reached its operation; the faults it met.
Reached(h, rp) == h # None /\ rp.push = "ok"
FaultsOf(h, rp, op) ==
    IF h = None THEN {}
    ELSE IF rp.push # "ok" THEN {"push"}
    ELSE (IF rp.op # "ok" THEN {op} ELSE {}) \union (IF rp.pop # "ok" THEN {"pop"} ELSE {})

\* Seeded defect: an error of the operation returns before the pop.
WithCurrentEarlyReturn(d, h, rp, done) ==
    IF ~ Reached(h, rp) THEN d
    ELSE IF rp.op # "ok" \/ rp.pop = "error" THEN Pushed(d, h)
    ELSE done

\* with_current: push the context, run the operation, which takes the driver
\* from d to done when it succeeds, and pop, whatever the operation returned.
\* A failed pop leaves the context on the stack.
WithCurrent(d, h, rp, done) ==
    IF ~ Reached(h, rp) THEN d
    ELSE LET after == IF rp.op = "ok" THEN done ELSE d IN
         [Pushed(after, h) EXCEPT !.stack = IF rp.pop = "error" THEN @ ELSE Tail(@)]

\* ContextInner::destroy on the handle the Cell held: nothing when it was taken.
DestroyTaken(d, h, reply) == IF h = None \/ reply # "ok" THEN d ELSE Destroyed(d, h)
DestroyFaults(h, reply) == IF h # None /\ reply # "ok" THEN {"destroy"} ELSE {}

KidsOf(c) == {k \in Kids: kid[k] # None /\ kid[k].ctx = c}

-----------------------------------------------------------------------------
Init ==
    /\ held = {}
    /\ raw = [c \in Contexts |-> None]
    /\ kid = [k \in Kids |-> None]
    /\ driver = [stack |-> << >>, live |-> {}, misused |-> {},
                 kids |-> [x \in KidHandles |-> None]]
    /\ faults = {}
    /\ skipped = {}

Room == Len(driver.stack) < MaxStack

\* Seeded defect: the context is kept when the pop did not restore the stack.
CleanUpNothing(d, h, reply) == d
\* create_context destroys what it created when the pop fails.
CleanUp(d, h, reply) == DestroyTaken(d, h, reply)

\* create_context succeeds in creating h, which is current then, and pops it.
\* A failed cuCtxCreate, and one with a null result, changes nothing.
CreateContext(c, h, pop, reply) ==
    LET created == [driver EXCEPT !.live = @ \union {h}, !.stack = <<h>> \o @]
        popped == IF pop = "error" THEN created ELSE [created EXCEPT !.stack = Tail(@)]
    IN
    /\ Room
    /\ c \notin held /\ KidsOf(c) = {}
    /\ h \notin driver.live
    /\ IF pop = "ok"
       THEN /\ driver' = popped
            /\ held' = held \union {c}
            /\ raw' = [raw EXCEPT ![c] = h]
            /\ UNCHANGED faults
       ELSE /\ driver' = CleanUp(popped, h, reply)
            /\ faults' = faults \union {"pop"} \union DestroyFaults(h, reply)
            /\ UNCHANGED <<held, raw>>
    /\ UNCHANGED <<kid, skipped>>

\* Seeded defect: the result is not checked for null.
CreatesUnchecked(h, rp) == Reached(h, rp) /\ rp.op # "error" /\ rp.pop = "ok"
\* with_current succeeded and the result, in the out parameter, is not null.
Creates(h, rp) == Reached(h, rp) /\ rp.op = "ok" /\ rp.pop = "ok"
OutParameter(rp, x) == IF rp.op = "ok" THEN x ELSE None

\* create_dedicated_stream and allocate on an open context.  On a closed one,
\* and for zero bytes, they fail before any driver call.
NewChild(c, k, x, rp) ==
    /\ Room
    /\ c \in held
    /\ raw[c] # None
    /\ kid[k] = None
    /\ driver.kids[x] = None
    /\ driver' = WithCurrent(driver, raw[c], rp, [driver EXCEPT !.kids[x] = raw[c]])
    /\ kid' = IF Creates(raw[c], rp)
              THEN [kid EXCEPT ![k] = [ctx |-> c, raw |-> OutParameter(rp, x)]] ELSE kid
    /\ faults' = faults \union FaultsOf(raw[c], rp, "create")
    /\ UNCHANGED <<held, raw, skipped>>

\* OwnedRawStream::synchronize.
Synchronize(k, rp) ==
    /\ Room
    /\ kid[k] # None
    /\ rp.op # "null"
    /\ LET h == raw[kid[k].ctx] IN
       /\ driver' = WithCurrent(driver, h, rp, Synchronized(driver, h, kid[k].raw))
       /\ faults' = faults \union FaultsOf(h, rp, "synchronize")
    /\ UNCHANGED <<held, raw, kid, skipped>>

\* Seeded defect: the raw value is copied out of the child, not taken, so that
\* close frees it and the drop that ends close frees it again; no Drop at all.
FreedTwice(d, h, x) == Freed(Freed(d, h, x), h, x)
FreedNever(d, h, x) == d
\* close or drop of a child frees it once: its raw value is taken before the
\* call, and the drop that follows a close finds none.
FreedOnce(d, h, x) == Freed(d, h, x)

\* The ContextInner goes with the last reference to it.
LastReference(c, k) == c \notin held /\ KidsOf(c) = {k}

\* close or drop of a stream or allocation, and of its reference to the context.
ReleaseChild(k, rp, reply) ==
    LET c == kid[k].ctx
        h == raw[c]
        x == kid[k].raw
        freed == WithCurrent(driver, h, rp, FreedOnce(driver, h, x))
    IN
    /\ Room
    /\ kid[k] # None
    /\ rp.op # "null"
    /\ kid' = [kid EXCEPT ![k] = None]
    /\ skipped' = IF Reached(h, rp) THEN skipped ELSE skipped \union {x}
    /\ IF LastReference(c, k)
       THEN /\ driver' = DestroyTaken(freed, h, reply)
            /\ raw' = [raw EXCEPT ![c] = None]
            /\ faults' = faults \union FaultsOf(h, rp, "free") \union DestroyFaults(h, reply)
       ELSE /\ driver' = freed
            /\ faults' = faults \union FaultsOf(h, rp, "free")
            /\ UNCHANGED raw
    /\ UNCHANGED held

\* Seeded defect: close without the strong_count check.
CanCloseAlways(c) == c \in held
\* The context value is the only reference to its ContextInner.
CanClose(c) == c \in held /\ KidsOf(c) = {}

\* OwnedRawContext::close; with a child alive it fails and changes nothing.
CloseContext(c, reply) ==
    /\ CanClose(c)
    /\ driver' = DestroyTaken(driver, raw[c], reply)
    /\ faults' = faults \union DestroyFaults(raw[c], reply)
    /\ raw' = [raw EXCEPT ![c] = None]
    /\ UNCHANGED <<held, kid, skipped>>

\* Drop of the context value: with a child alive only the reference goes.
DropContext(c, reply) ==
    /\ c \in held
    /\ held' = held \ {c}
    /\ IF KidsOf(c) = {}
       THEN /\ driver' = DestroyTaken(driver, raw[c], reply)
            /\ faults' = faults \union DestroyFaults(raw[c], reply)
            /\ raw' = [raw EXCEPT ![c] = None]
       ELSE UNCHANGED <<driver, faults, raw>>
    /\ UNCHANGED <<kid, skipped>>

\* The host program uses the same stack for contexts of its own.
HostPush(f) ==
    /\ Room
    /\ driver' = [driver EXCEPT !.stack = <<f>> \o @]
    /\ UNCHANGED <<held, raw, kid, faults, skipped>>
HostPop ==
    /\ driver.stack # << >>
    /\ driver' = [driver EXCEPT !.stack = Tail(@)]
    /\ UNCHANGED <<held, raw, kid, faults, skipped>>

ApiStep ==
    \/ \E c \in Contexts, h \in CtxHandles, pop \in {"ok", "error", "other"},
          reply \in {"ok", "error"}: CreateContext(c, h, pop, reply)
    \/ \E c \in Contexts, k \in Kids, x \in KidHandles, rp \in Replies: NewChild(c, k, x, rp)
    \/ \E k \in Streams, rp \in Replies: Synchronize(k, rp)
    \/ \E k \in Kids, rp \in Replies, reply \in {"ok", "error"}: ReleaseChild(k, rp, reply)
    \/ \E c \in Contexts, reply \in {"ok", "error"}: CloseContext(c, reply)
    \/ \E c \in Contexts, reply \in {"ok", "error"}: DropContext(c, reply)

HostStep == HostPop \/ \E f \in Foreign: HostPush(f)

Next == ApiStep \/ HostStep

Spec == Init /\ [][Next]_vars

-----------------------------------------------------------------------------
\* The variables hold values of their types.
TypeOK ==
    /\ held \subseteq Contexts
    /\ raw \in [Contexts -> CtxHandles \union {None}]
    /\ kid \in [Kids -> [ctx: Contexts, raw: KidHandles] \union {None}]
    /\ driver \in [stack: Seq(CtxHandles \union Foreign), live: SUBSET CtxHandles,
                   misused: SUBSET (CtxHandles \union KidHandles), kids: [KidHandles -> CtxHandles \union {None}]]
    /\ faults \subseteq {"push", "pop", "create", "synchronize", "free", "destroy"}
    /\ skipped \subseteq KidHandles

\* The driver is never handed a context, stream or allocation that is not live
\* in it: no use after free, no double free, no child freed in another context
\* than its own or after its context, whatever the driver answers.
NeverMisused == driver.misused = {}

\* The ownership behind it: what a Rust value holds is live, it alone holds it,
\* and the context of a child is open for as long as the child exists.
Owned ==
    /\ \A c \in Contexts: raw[c] # None => raw[c] \in driver.live
    /\ \A b, c \in Contexts: raw[b] # None /\ raw[b] = raw[c] => b = c
    /\ \A k \in Kids: kid[k] # None =>
          raw[kid[k].ctx] # None /\ driver.kids[kid[k].raw] = raw[kid[k].ctx]
    /\ \A j, k \in Kids: kid[j] # None /\ kid[k] # None /\ kid[j].raw = kid[k].raw => j = k

\* A context outlives its last reference only if cuCtxDestroy failed, and an
\* open ContextInner always has a reference left to close it.
ContextsReleased ==
    /\ \A c \in Contexts: raw[c] # None => c \in held \/ KidsOf(c) # {}
    /\ "destroy" \notin faults => driver.live = {raw[c] : c \in Contexts} \ {None}

\* A stream or allocation is live in the driver without an owner only after a
\* push, pop or free that failed; failures of creation or synchronization leave
\* nothing behind.
ChildrenReleased ==
    faults \subseteq {"create", "synchronize", "destroy"} =>
        \A x \in KidHandles: driver.kids[x] # None =>
            \E k \in Kids: kid[k] # None /\ kid[k].raw = x

\* An API call leaves the current-context stack of its thread as it found it,
\* unless a pop failed.
StackRestored ==
    [][driver'.stack # driver.stack => HostStep \/ "pop" \in faults']_vars

\* lib.rs, "Provider-owned raw CUDA allocation, freed exactly once": a child
\* that is given up was handed to the driver to be freed.
EveryReleaseIsAttempted == skipped = {}
=============================================================================
