---------------------------- MODULE MCRawRuntime ----------------------------
(***************************************************************************)
(* Two context values over two context handles and a stream and an         *)
(* allocation over two child handles, so that handles are used again after *)
(* they were freed; a host context that may be on the stack.  Without the  *)
(* stream, what is found is about allocations.                             *)
(***************************************************************************)
EXTENDS RawRuntime, TLC

CONSTANTS c1, c2, s1, a1, h1, h2, x1, x2, f1

MCContexts == {c1, c2}
MCStreams == {s1}
MCNoStreams == {}
MCAllocations == {a1}
MCCtxHandles == {h1, h2}
MCKidHandles == {x1, x2}
MCForeign == {f1}
SymmetricNames ==
    {p @@ q @@ r : p \in Permutations({c1, c2}), q \in Permutations({h1, h2}),
                   r \in Permutations({x1, x2})}
=============================================================================
