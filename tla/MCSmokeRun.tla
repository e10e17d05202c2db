----------------------------- MODULE MCSmokeRun -----------------------------
(***************************************************************************)
(* The one context, stream and allocation of the smoke program; two        *)
(* handles of each kind, and a stack deep enough for every failed pop.     *)
(***************************************************************************)
EXTENDS SmokeRun

CONSTANTS c1, s1, a1, h1, h2, x1, x2

MCContexts == {c1}
MCStreams == {s1}
MCAllocations == {a1}
MCCtxHandles == {h1, h2}
MCKidHandles == {x1, x2}
MCForeign == {}
=============================================================================
