-------------------------- MODULE RawRuntimeProofs --------------------------
(***************************************************************************)
(* Proofs about RawRuntime for every set of values and handles, and every  *)
(* sequence of driver replies.                                             *)
(***************************************************************************)
EXTENDS RawRuntime, TLAPS

-----------------------------------------------------------------------------
DriverStates == [stack: Seq(CtxHandles \union Foreign), live: SUBSET CtxHandles,
                 misused: SUBSET (CtxHandles \union KidHandles), kids: [KidHandles -> CtxHandles \union {None}]]

\* What with_current makes of a driver state, component by component: the
\* children become those of done or stay, the live contexts stay.
LEMMA WithCurrentEffect ==
    ASSUME NEW d \in DriverStates, NEW done \in DriverStates,
           NEW h \in CtxHandles \union {None}, NEW rp \in Replies,
           done.live = d.live, done.stack = d.stack, h # None => h \in d.live
    PROVE  LET e == WithCurrent(d, h, rp, done) IN
           /\ e \in DriverStates
           /\ e.live = d.live
           /\ e.kids = IF Reached(h, rp) /\ rp.op = "ok" THEN done.kids ELSE d.kids
           /\ e.misused = IF Reached(h, rp) /\ rp.op = "ok" THEN done.misused ELSE d.misused
           /\ e.stack # d.stack => h # None /\ rp.push = "ok" /\ rp.pop # "ok"
<1>1. CASE ~ Reached(h, rp)
      BY <1>1 DEF WithCurrent, Reached
<1>2. CASE Reached(h, rp)
  <2> DEFINE after == IF rp.op = "ok" THEN done ELSE d
             pushed == Pushed(after, h)
  <2>1. h \in CtxHandles /\ h \in d.live /\ rp.push = "ok"
        BY <1>2 DEF Reached
  <2>2. /\ after \in DriverStates
        /\ after.live = d.live
        /\ after.stack = d.stack
        OBVIOUS
  <2>3. /\ pushed \in DriverStates
        /\ pushed.live = d.live
        /\ pushed.kids = after.kids
        /\ pushed.misused = after.misused
        /\ pushed.stack = <<h>> \o d.stack
    <3>1. <<h>> \o d.stack \in Seq(CtxHandles \union Foreign)
          BY <2>1 DEF DriverStates
    <3>2. {h} \ after.live = {}
          BY <2>1, <2>2
    <3> HIDE DEF after
    <3> QED BY <2>2, <3>1, <3>2 DEF Pushed, DriverStates
  <2>4. /\ pushed.stack # << >>
        /\ Tail(pushed.stack) = d.stack
        /\ Tail(pushed.stack) \in Seq(CtxHandles \union Foreign)
        BY <2>1, <2>3 DEF DriverStates
  <2>5. WithCurrent(d, h, rp, done) =
            [pushed EXCEPT !.stack = IF rp.pop = "error" THEN @ ELSE Tail(@)]
        BY <1>2 DEF WithCurrent
  <2> DEFINE stack == IF rp.pop = "error" THEN pushed.stack ELSE Tail(pushed.stack)
  <2>6. /\ stack \in Seq(CtxHandles \union Foreign)
        /\ stack # d.stack => rp.pop # "ok"
        BY <2>3, <2>4 DEF DriverStates
  <2>7. WithCurrent(d, h, rp, done) = [pushed EXCEPT !.stack = stack]
        BY <2>5
  <2>8. /\ after.kids = IF rp.op = "ok" THEN done.kids ELSE d.kids
        /\ after.misused = IF rp.op = "ok" THEN done.misused ELSE d.misused
        OBVIOUS
  <2> HIDE DEF pushed, stack, after
  <2> QED BY <1>2, <2>1, <2>2, <2>3, <2>6, <2>7, <2>8 DEF DriverStates, Reached
<1> QED BY <1>1, <1>2

\* Destroying a context removes it and its children, and nothing else.
LEMMA DestroyEffect ==
    ASSUME NEW d \in DriverStates, NEW h \in CtxHandles \union {None},
           NEW reply \in {"ok", "error"}, h # None => h \in d.live
    PROVE  LET e == DestroyTaken(d, h, reply) IN
           /\ e \in DriverStates
           /\ e.misused = d.misused
           /\ e.live = IF h # None /\ reply = "ok" THEN d.live \ {h} ELSE d.live
           /\ \A x \in KidHandles:
                 d.kids[x] # h => e.kids[x] = d.kids[x]
<1>1. CASE h = None \/ reply # "ok"
      BY <1>1 DEF DestroyTaken
<1>2. CASE h # None /\ reply = "ok"
  <2>1. h \in d.live
        BY <1>2
  <2>2. (IF d.stack # << >> /\ Head(d.stack) = h THEN Tail(d.stack) ELSE d.stack)
            \in Seq(CtxHandles \union Foreign)
        BY DEF DriverStates
  <2>3. [x \in KidHandles |-> IF d.kids[x] = h THEN None ELSE d.kids[x]]
            \in [KidHandles -> CtxHandles \union {None}]
        BY DEF DriverStates
  <2> QED BY <1>2, <2>1, <2>2, <2>3 DEF DestroyTaken, Destroyed, DriverStates
<1> QED BY <1>1, <1>2

\* Nor does it revive a child, or take anything but the context off the stack.
LEMMA DestroyRemoves ==
    ASSUME NEW d \in DriverStates, NEW h \in CtxHandles \union {None},
           NEW reply \in {"ok", "error"}
    PROVE  LET e == DestroyTaken(d, h, reply) IN
           /\ e.live = IF h # None /\ reply = "ok" THEN d.live \ {h} ELSE d.live
           /\ \A x \in KidHandles: e.kids[x] # None => e.kids[x] = d.kids[x]
           /\ e.stack # d.stack => h # None /\ d.stack # << >> /\ Head(d.stack) = h
<1>1. CASE h = None \/ reply # "ok"
      BY <1>1 DEF DestroyTaken
<1>2. CASE h # None /\ reply = "ok"
      BY <1>2 DEF DestroyTaken, Destroyed, DriverStates
<1> QED BY <1>1, <1>2

-----------------------------------------------------------------------------
\* The inductive invariant: ownership is what keeps dead handles from the driver.
IInv == TypeOK /\ Owned /\ NeverMisused

LEMMA IInvInit == Init => IInv
<1> SUFFICES ASSUME Init PROVE IInv
    OBVIOUS
<1>1. driver \in DriverStates /\ driver.misused = {}
      BY DEF Init, DriverStates
<1> QED BY <1>1, NoneAssumption DEF Init, IInv, TypeOK, Owned, NeverMisused, DriverStates

\* Driver calls that do not succeed are added to the faults.
LEMMA FaultsType ==
    ASSUME NEW h, NEW rp \in Replies, NEW op \in {"create", "synchronize", "free"},
           NEW reply \in {"ok", "error"}
    PROVE  /\ FaultsOf(h, rp, op) \subseteq {"push", "pop", "create", "synchronize", "free"}
           /\ DestroyFaults(h, reply) \subseteq {"destroy"}
BY DEF FaultsOf, DestroyFaults

LEMMA CreateContextInv ==
    ASSUME IInv, NEW c \in Contexts, NEW h \in CtxHandles,
           NEW pop \in {"ok", "error", "other"}, NEW reply \in {"ok", "error"},
           CreateContext(c, h, pop, reply)
    PROVE  IInv'
<1> DEFINE created == [driver EXCEPT !.live = @ \union {h}, !.stack = <<h>> \o @]
           popped == IF pop = "error" THEN created ELSE [created EXCEPT !.stack = Tail(@)]
<1>1. /\ driver \in DriverStates
      /\ h \notin driver.live
      BY DEF IInv, TypeOK, CreateContext, DriverStates
<1>2. /\ created \in DriverStates
      /\ created.live = driver.live \union {h}
      /\ created.kids = driver.kids
      /\ created.misused = driver.misused
      /\ Tail(created.stack) \in Seq(CtxHandles \union Foreign)
  <2>1. /\ <<h>> \o driver.stack \in Seq(CtxHandles \union Foreign)
        /\ Tail(<<h>> \o driver.stack) \in Seq(CtxHandles \union Foreign)
        BY <1>1 DEF DriverStates
  <2> QED BY <1>1, <2>1 DEF DriverStates
<1> HIDE DEF created
<1>3. /\ popped \in DriverStates
      /\ popped.live = driver.live \union {h}
      /\ popped.kids = driver.kids
      /\ popped.misused = driver.misused
      BY <1>2 DEF DriverStates
<1>4. CASE pop = "ok"
  <2>1. /\ driver' = popped
        /\ held' = held \union {c}
        /\ raw' = [raw EXCEPT ![c] = h]
        /\ UNCHANGED <<faults, kid, skipped>>
        BY <1>4 DEF CreateContext, created
  <2>2. \A k \in Kids: kid[k] # None => kid[k].ctx # c
        BY DEF CreateContext, KidsOf
  <2> HIDE DEF popped
  <2>3. TypeOK'
        BY <1>3, <2>1 DEF IInv, TypeOK, DriverStates
  <2>4. Owned'
        BY <1>1, <1>3, <2>1, <2>2 DEF IInv, TypeOK, Owned
  <2> QED BY <1>3, <2>1, <2>3, <2>4 DEF IInv, NeverMisused
<1>5. CASE pop # "ok"
  <2> DEFINE cleaned == DestroyTaken(popped, h, reply)
  <2>1. /\ driver' = cleaned
        /\ faults' = faults \union {"pop"} \union DestroyFaults(h, reply)
        /\ UNCHANGED <<held, raw, kid, skipped>>
        BY <1>5 DEF CreateContext, CleanUp, created
  <2> HIDE DEF popped
  <2>2. /\ cleaned \in DriverStates
        /\ cleaned.misused = driver.misused
        /\ driver.live \subseteq cleaned.live
        /\ \A x \in KidHandles: driver.kids[x] # h => cleaned.kids[x] = driver.kids[x]
    <3>1. /\ popped \in DriverStates
          /\ h # None => h \in popped.live
          /\ h \in CtxHandles \union {None}
          BY <1>3
    <3>2. /\ cleaned \in DriverStates
          /\ cleaned.misused = popped.misused
          /\ cleaned.live = IF h # None /\ reply = "ok" THEN popped.live \ {h} ELSE popped.live
          /\ \A x \in KidHandles: popped.kids[x] # h => cleaned.kids[x] = popped.kids[x]
          BY ONLY <3>1, reply \in {"ok", "error"}, DestroyEffect
    <3> HIDE DEF cleaned
    <3> QED BY <1>1, <1>3, <3>2
  <2> HIDE DEF cleaned
  <2>3. TypeOK'
        BY <2>1, <2>2 DEF IInv, TypeOK, DriverStates, DestroyFaults
  <2>4. \A b \in Contexts: raw[b] # h
        BY <1>1, NoneAssumption DEF IInv, Owned
  <2>5. Owned'
        BY <2>1, <2>2, <2>4 DEF IInv, TypeOK, Owned
  <2> QED BY <2>1, <2>2, <2>3, <2>5 DEF IInv, NeverMisused
<1> QED BY <1>4, <1>5

LEMMA NewChildInv ==
    ASSUME IInv, NEW c \in Contexts, NEW k \in Kids, NEW x \in KidHandles,
           NEW rp \in Replies, NewChild(c, k, x, rp)
    PROVE  IInv'
<1> DEFINE done == [driver EXCEPT !.kids[x] = raw[c]]
           after == WithCurrent(driver, raw[c], rp, done)
<1>1. /\ driver \in DriverStates
      /\ raw[c] \in CtxHandles
      /\ raw[c] \in driver.live
      /\ driver.kids[x] = None
      BY NoneAssumption DEF IInv, TypeOK, Owned, NewChild, DriverStates
<1>2. /\ done \in DriverStates
      /\ done.live = driver.live
      /\ done.stack = driver.stack
      /\ done.misused = driver.misused
      /\ done.kids = [driver.kids EXCEPT ![x] = raw[c]]
      BY <1>1 DEF DriverStates
<1> HIDE DEF done
<1>3. /\ after \in DriverStates
      /\ after.live = driver.live
      /\ after.misused = driver.misused
      /\ after.kids = IF Reached(raw[c], rp) /\ rp.op = "ok" THEN done.kids ELSE driver.kids
      BY <1>1, <1>2, WithCurrentEffect
<1>4. /\ driver' = after
      /\ faults' = faults \union FaultsOf(raw[c], rp, "create")
      /\ UNCHANGED <<held, raw, skipped>>
      BY DEF NewChild, done
<1> HIDE DEF after
<1>5. \A j \in Kids: kid[j] # None => kid[j].raw # x
      BY <1>1 DEF IInv, Owned
<1>6. CASE Creates(raw[c], rp)
  <2>1. /\ kid' = [kid EXCEPT ![k] = [ctx |-> c, raw |-> x]]
        /\ after.kids = [driver.kids EXCEPT ![x] = raw[c]]
        BY <1>2, <1>3, <1>6 DEF NewChild, Creates, OutParameter
  <2>2. TypeOK'
        BY <1>3, <1>4, <2>1, FaultsType DEF IInv, TypeOK, DriverStates
  <2>3. Owned'
    <3>1. \A b \in Contexts: raw'[b] # None => raw'[b] \in driver'.live
          BY <1>3, <1>4 DEF IInv, Owned
    <3>2. ASSUME NEW j \in Kids, kid'[j] # None
          PROVE  /\ raw'[kid'[j].ctx] # None
                 /\ driver'.kids[kid'[j].raw] = raw'[kid'[j].ctx]
      <4>1. CASE j = k
            BY <1>1, <1>4, <2>1, <4>1, NoneAssumption DEF IInv, TypeOK, DriverStates
      <4>2. CASE j # k
            BY <1>1, <1>4, <1>5, <2>1, <3>2, <4>2 DEF IInv, TypeOK, Owned, DriverStates
      <4> QED BY <4>1, <4>2
    <3>3. ASSUME NEW i \in Kids, NEW j \in Kids,
                 kid'[i] # None, kid'[j] # None, kid'[i].raw = kid'[j].raw
          PROVE  i = j
          BY <1>5, <2>1, <3>3 DEF IInv, TypeOK, Owned
    <3> QED BY <1>4, <3>1, <3>2, <3>3 DEF IInv, Owned
  <2> QED BY <1>3, <1>4, <2>2, <2>3 DEF IInv, NeverMisused
<1>7. CASE ~ Creates(raw[c], rp)
  <2>1. kid' = kid
        BY <1>7 DEF NewChild
  <2>2. TypeOK'
        BY <1>3, <1>4, <2>1, FaultsType DEF IInv, TypeOK, DriverStates
  <2>3. \A y \in KidHandles: y # x => after.kids[y] = driver.kids[y]
        BY <1>1, <1>2, <1>3 DEF DriverStates
  <2>4. Owned'
        BY <1>3, <1>4, <1>5, <2>1, <2>3 DEF IInv, TypeOK, Owned
  <2> QED BY <1>3, <1>4, <2>2, <2>4 DEF IInv, NeverMisused
<1> QED BY <1>6, <1>7

LEMMA SynchronizeInv ==
    ASSUME IInv, NEW k \in Streams, NEW rp \in Replies, Synchronize(k, rp)
    PROVE  IInv'
<1> DEFINE h == raw[kid[k].ctx]
           x == kid[k].raw
           done == Synchronized(driver, h, x)
           after == WithCurrent(driver, h, rp, done)
<1>1. /\ driver \in DriverStates
      /\ h \in CtxHandles /\ h \in driver.live
      /\ x \in KidHandles /\ driver.kids[x] = h
      BY DEF IInv, TypeOK, Owned, Synchronize, Kids, DriverStates
<1>2. /\ driver' = after
      /\ faults' = faults \union FaultsOf(h, rp, "synchronize")
      /\ UNCHANGED <<held, raw, kid, skipped>>
      BY DEF Synchronize
<1> HIDE DEF h, x
<1>3. /\ done \in DriverStates
      /\ done.live = driver.live
      /\ done.stack = driver.stack
      /\ done.kids = driver.kids
      /\ done.misused = driver.misused
  <2>1. {y \in {x}: driver.kids[y] # h} = {}
        BY <1>1
  <2> QED BY <1>1, <2>1 DEF Synchronized, DriverStates
<1> HIDE DEF done
<1>4. /\ after \in DriverStates
      /\ after.live = driver.live
      /\ after.kids = driver.kids
      /\ after.misused = driver.misused
      BY <1>1, <1>3, WithCurrentEffect
<1> HIDE DEF after
<1>5. TypeOK'
      BY <1>2, <1>4, FaultsType DEF IInv, TypeOK, DriverStates
<1>6. Owned'
      BY <1>2, <1>4 DEF IInv, Owned
<1> QED BY <1>2, <1>4, <1>5, <1>6 DEF IInv, NeverMisused

LEMMA ReleaseChildInv ==
    ASSUME IInv, NEW k \in Kids, NEW rp \in Replies, NEW reply \in {"ok", "error"},
           ReleaseChild(k, rp, reply)
    PROVE  IInv'
<1> DEFINE c == kid[k].ctx
           h == raw[c]
           x == kid[k].raw
           done == FreedOnce(driver, h, x)
           freed == WithCurrent(driver, h, rp, done)
           gone == DestroyTaken(freed, h, reply)
<1>1. /\ driver \in DriverStates
      /\ c \in Contexts
      /\ h \in CtxHandles /\ h \in driver.live
      /\ x \in KidHandles /\ driver.kids[x] = h
      /\ kid[k] # None
      BY DEF IInv, TypeOK, Owned, ReleaseChild, DriverStates
<1>2. /\ kid' = [kid EXCEPT ![k] = None]
      /\ held' = held
      /\ skipped' = IF Reached(h, rp) THEN skipped ELSE skipped \union {x}
      BY DEF ReleaseChild
<1>3. \/ /\ LastReference(c, k)
         /\ driver' = gone
         /\ raw' = [raw EXCEPT ![c] = None]
         /\ faults' = faults \union FaultsOf(h, rp, "free") \union DestroyFaults(h, reply)
      \/ /\ ~ LastReference(c, k)
         /\ driver' = freed
         /\ raw' = raw
         /\ faults' = faults \union FaultsOf(h, rp, "free")
      BY DEF ReleaseChild
<1>4. \A j \in Kids: LastReference(c, k) /\ j # k /\ kid[j] # None => kid[j].ctx # c
      BY DEF LastReference, KidsOf
<1>5. \A j \in Kids: j # k /\ kid[j] # None => kid[j].raw # x
      BY <1>1 DEF IInv, Owned
<1> HIDE DEF c, h, x
<1>6. /\ done \in DriverStates
      /\ done.live = driver.live
      /\ done.stack = driver.stack
      /\ done.misused = driver.misused
      /\ \A y \in KidHandles: y # x => done.kids[y] = driver.kids[y]
  <2>1. {y \in {x}: driver.kids[y] # h} = {}
        BY <1>1
  <2> QED BY <1>1, <2>1 DEF FreedOnce, Freed, DriverStates
<1> HIDE DEF done
<1>7. /\ freed \in DriverStates
      /\ freed.live = driver.live
      /\ freed.misused = driver.misused
      /\ \A y \in KidHandles: y # x => freed.kids[y] = driver.kids[y]
  <2>1. /\ freed \in DriverStates
        /\ freed.live = driver.live
        /\ freed.kids = IF Reached(h, rp) /\ rp.op = "ok" THEN done.kids ELSE driver.kids
        /\ freed.misused = IF Reached(h, rp) /\ rp.op = "ok" THEN done.misused
                            ELSE driver.misused
        BY <1>1, <1>6, WithCurrentEffect
  <2> HIDE DEF freed
  <2> QED BY <1>6, <2>1
<1> HIDE DEF freed
<1>8. /\ gone \in DriverStates
      /\ gone.misused = driver.misused
      /\ driver.live \ {h} \subseteq gone.live
      /\ \A y \in KidHandles: freed.kids[y] # h => gone.kids[y] = freed.kids[y]
  <2>1. /\ freed \in DriverStates
        /\ h # None => h \in freed.live
        /\ h \in CtxHandles \union {None}
        BY <1>1, <1>7
  <2>2. /\ gone \in DriverStates
        /\ gone.misused = freed.misused
        /\ gone.live = IF h # None /\ reply = "ok" THEN freed.live \ {h} ELSE freed.live
        /\ \A y \in KidHandles: freed.kids[y] # h => gone.kids[y] = freed.kids[y]
        BY ONLY <2>1, reply \in {"ok", "error"}, DestroyEffect
  <2> HIDE DEF gone
  <2> QED BY <1>7, <2>2
<1> HIDE DEF gone
<1>9. CASE LastReference(c, k)
  <2>1. /\ driver' = gone
        /\ raw' = [raw EXCEPT ![c] = None]
        /\ faults' = faults \union FaultsOf(h, rp, "free") \union DestroyFaults(h, reply)
        BY <1>3, <1>9
  <2>2. TypeOK'
    <3>1. faults' \subseteq {"push", "pop", "create", "synchronize", "free", "destroy"}
          BY <2>1 DEF IInv, TypeOK, FaultsOf, DestroyFaults
    <3>2. raw' \in [Contexts -> CtxHandles \union {None}]
          BY <1>1, <2>1 DEF IInv, TypeOK
    <3>3. kid' \in [Kids -> [ctx: Contexts, raw: KidHandles] \union {None}]
          BY <1>2 DEF IInv, TypeOK
    <3> QED BY <1>1, <1>2, <1>8, <2>1, <3>1, <3>2, <3>3 DEF IInv, TypeOK, DriverStates
  <2>3. \A b \in Contexts: b # c => raw[b] # h
        BY <1>1, NoneAssumption DEF IInv, Owned, h
  <2>4. Owned'
    <3>1. ASSUME NEW j \in Kids, kid'[j] # None
          PROVE  /\ raw'[kid'[j].ctx] # None
                 /\ driver'.kids[kid'[j].raw] = raw'[kid'[j].ctx]
      <4>1. /\ j # k
            /\ kid'[j] = kid[j]
            /\ kid[j] # None
            BY <1>2, <3>1 DEF IInv, TypeOK
      <4>2. /\ kid[j].ctx \in Contexts \ {c}
            /\ kid[j].raw \in KidHandles \ {x}
            /\ driver.kids[kid[j].raw] = raw[kid[j].ctx]
            /\ raw[kid[j].ctx] # None
            BY <1>4, <1>5, <1>9, <4>1 DEF IInv, TypeOK, Owned
      <4>3. driver'.kids[kid[j].raw] = driver.kids[kid[j].raw]
            BY <1>7, <1>8, <2>1, <2>3, <4>2
      <4> QED BY <2>1, <4>1, <4>2, <4>3 DEF IInv, TypeOK
    <3>2. \A b \in Contexts: raw'[b] # None => raw'[b] \in driver'.live
          BY <1>8, <2>1, <2>3 DEF IInv, TypeOK, Owned
    <3>3. \A a, b \in Contexts: raw'[a] # None /\ raw'[a] = raw'[b] => a = b
          BY <2>1 DEF IInv, TypeOK, Owned
    <3>4. \A i, j \in Kids:
             kid'[i] # None /\ kid'[j] # None /\ kid'[i].raw = kid'[j].raw => i = j
          BY <1>2 DEF IInv, TypeOK, Owned
    <3> QED BY <3>1, <3>2, <3>3, <3>4 DEF Owned
  <2> QED BY <1>8, <2>1, <2>2, <2>4 DEF IInv, NeverMisused
<1>10. CASE ~ LastReference(c, k)
  <2>1. /\ driver' = freed
        /\ raw' = raw
        /\ faults' = faults \union FaultsOf(h, rp, "free")
        BY <1>3, <1>10
  <2>2. TypeOK'
        BY <1>1, <1>2, <1>7, <2>1, FaultsType DEF IInv, TypeOK, DriverStates
  <2>3. Owned'
        BY <1>2, <1>5, <1>7, <2>1 DEF IInv, TypeOK, Owned
  <2> QED BY <1>7, <2>1, <2>2, <2>3 DEF IInv, NeverMisused
<1> QED BY <1>9, <1>10

\* close and drop of a context without children.
LEMMA DestroyInv ==
    ASSUME IInv, NEW c \in Contexts, NEW reply \in {"ok", "error"}, KidsOf(c) = {},
           driver' = DestroyTaken(driver, raw[c], reply),
           faults' = faults \union DestroyFaults(raw[c], reply),
           raw' = [raw EXCEPT ![c] = None],
           held' \subseteq held, UNCHANGED <<kid, skipped>>
    PROVE  IInv'
<1> DEFINE h == raw[c]
           gone == DestroyTaken(driver, h, reply)
<1>1. /\ driver \in DriverStates
      /\ h \in CtxHandles \union {None}
      /\ h # None => h \in driver.live
      BY DEF IInv, TypeOK, Owned, DriverStates
<1>2. \A k \in Kids: kid[k] # None => kid[k].ctx # c
      BY DEF KidsOf
<1>3. \A b \in Contexts: b # c /\ raw[b] # None => raw[b] # h
      BY DEF IInv, Owned
<1>4. /\ driver' = gone
      /\ faults' = faults \union DestroyFaults(h, reply)
      OBVIOUS
<1> HIDE DEF h
<1>5. /\ gone \in DriverStates
      /\ gone.misused = driver.misused
      /\ gone.live = IF h # None /\ reply = "ok" THEN driver.live \ {h} ELSE driver.live
      /\ \A x \in KidHandles: driver.kids[x] # h => gone.kids[x] = driver.kids[x]
      BY ONLY <1>1, reply \in {"ok", "error"}, DestroyEffect
<1> HIDE DEF gone
<1>6. TypeOK'
      BY <1>4, <1>5 DEF IInv, TypeOK, DriverStates, DestroyFaults
<1>7. Owned'
  <2>1. \A b \in Contexts: raw'[b] # None => raw'[b] \in driver'.live
        BY <1>3, <1>4, <1>5 DEF IInv, TypeOK, Owned
  <2>2. \A a, b \in Contexts: raw'[a] # None /\ raw'[a] = raw'[b] => a = b
        BY DEF IInv, TypeOK, Owned
  <2>3. ASSUME NEW k \in Kids, kid'[k] # None
        PROVE  /\ raw'[kid'[k].ctx] # None
               /\ driver'.kids[kid'[k].raw] = raw'[kid'[k].ctx]
    <3>1. /\ kid[k] # None
          /\ kid[k].ctx \in Contexts \ {c}
          /\ kid[k].raw \in KidHandles
          /\ raw[kid[k].ctx] # None
          /\ driver.kids[kid[k].raw] = raw[kid[k].ctx]
          BY <1>2, <2>3 DEF IInv, TypeOK, Owned
    <3>2. driver'.kids[kid[k].raw] = driver.kids[kid[k].raw]
          BY <1>3, <1>4, <1>5, <3>1
    <3> QED BY <3>1, <3>2 DEF IInv, TypeOK
  <2>4. \A j, k \in Kids:
           kid'[j] # None /\ kid'[k] # None /\ kid'[j].raw = kid'[k].raw => j = k
        BY DEF IInv, Owned
  <2> QED BY <2>1, <2>2, <2>3, <2>4 DEF Owned
<1> QED BY <1>4, <1>5, <1>6, <1>7 DEF IInv, NeverMisused

\* The host's pushes and pops touch nothing but the stack.
LEMMA HostStepInv == ASSUME IInv, HostStep PROVE IInv'
<1>1. driver \in DriverStates
      BY DEF IInv, TypeOK, DriverStates
<1>2. PICK s \in Seq(CtxHandles \union Foreign):
         driver' = [driver EXCEPT !.stack = s] /\ UNCHANGED <<held, raw, kid, faults, skipped>>
  <2>1. CASE HostPop
    <3>1. Tail(driver.stack) \in Seq(CtxHandles \union Foreign)
          BY <1>1, <2>1 DEF HostPop, DriverStates
    <3> QED BY <2>1, <3>1 DEF HostPop
  <2>2. ASSUME NEW f \in Foreign, HostPush(f)
        PROVE  \E s \in Seq(CtxHandles \union Foreign):
                  /\ driver' = [driver EXCEPT !.stack = s]
                  /\ UNCHANGED <<held, raw, kid, faults, skipped>>
    <3>1. <<f>> \o driver.stack \in Seq(CtxHandles \union Foreign)
          BY <1>1 DEF DriverStates
    <3> QED BY <2>2, <3>1 DEF HostPush
  <2> QED BY <2>1, <2>2 DEF HostStep
<1>3. /\ driver' \in DriverStates
      /\ driver'.live = driver.live
      /\ driver'.kids = driver.kids
      /\ driver'.misused = driver.misused
      BY <1>1, <1>2 DEF DriverStates
<1>4. TypeOK'
      BY <1>2, <1>3 DEF IInv, TypeOK, DriverStates
<1>5. Owned'
      BY <1>2, <1>3 DEF IInv, Owned
<1> QED BY <1>3, <1>4, <1>5 DEF IInv, NeverMisused

LEMMA IInvNext == IInv /\ [Next]_vars => IInv'
<1> SUFFICES ASSUME IInv, [Next]_vars PROVE IInv'
    OBVIOUS
<1>1. ASSUME NEW c \in Contexts, NEW reply \in {"ok", "error"}, CloseContext(c, reply)
      PROVE  IInv'
      BY <1>1, DestroyInv DEF CloseContext, CanClose
<1>2. ASSUME NEW c \in Contexts, NEW reply \in {"ok", "error"}, DropContext(c, reply)
      PROVE  IInv'
  <2>1. held' \subseteq held /\ UNCHANGED <<kid, skipped>>
        BY <1>2 DEF DropContext
  <2>2. CASE KidsOf(c) = {}
        BY <1>2, <2>1, <2>2, DestroyInv DEF DropContext
  <2>3. CASE KidsOf(c) # {}
        BY <1>2, <2>1, <2>3 DEF DropContext, IInv, TypeOK, Owned, NeverMisused
  <2> QED BY <2>2, <2>3
<1>3. ASSUME ApiStep PROVE IInv'
      BY <1>1, <1>2, <1>3, CreateContextInv, NewChildInv, SynchronizeInv, ReleaseChildInv
         DEF ApiStep
<1>4. ASSUME UNCHANGED vars PROVE IInv'
      BY <1>4 DEF vars, IInv, TypeOK, Owned, NeverMisused
<1> QED BY <1>3, <1>4, HostStepInv DEF Next

-----------------------------------------------------------------------------
\* What is released, for every driver: the part of the invariant that knows
\* which contexts may be on the stack comes with it.
StackInv == "pop" \notin faults => driver.stack \in Seq(Foreign)

ReleaseInv == ContextsReleased /\ ChildrenReleased /\ StackInv

LEMMA CreateContextEffect ==
    ASSUME IInv, NEW c \in Contexts, NEW h \in CtxHandles,
           NEW pop \in {"ok", "error", "other"}, NEW reply \in {"ok", "error"},
           CreateContext(c, h, pop, reply)
    PROVE  /\ pop = "ok" => /\ driver'.live = driver.live \union {h}
                            /\ driver'.stack = driver.stack
           /\ pop # "ok" => /\ "pop" \in faults'
                            /\ reply = "ok" => driver'.live = driver.live
           /\ \A x \in KidHandles: driver'.kids[x] # None => driver'.kids[x] = driver.kids[x]
<1> DEFINE created == [driver EXCEPT !.live = @ \union {h}, !.stack = <<h>> \o @]
           popped == IF pop = "error" THEN created ELSE [created EXCEPT !.stack = Tail(@)]
<1>1. driver \in DriverStates /\ h \notin driver.live
      BY DEF IInv, TypeOK, CreateContext, DriverStates
<1>2. /\ <<h>> \o driver.stack \in Seq(CtxHandles \union Foreign)
      /\ Tail(<<h>> \o driver.stack) = driver.stack
      BY <1>1 DEF DriverStates
<1>3. /\ popped \in DriverStates
      /\ popped.live = driver.live \union {h}
      /\ popped.kids = driver.kids
      /\ pop # "error" => popped.stack = driver.stack
      BY <1>1, <1>2 DEF DriverStates
<1>4. CASE pop = "ok"
  <2>1. driver' = popped
        BY <1>4 DEF CreateContext
  <2> QED BY <1>3, <1>4, <2>1
<1>5. CASE pop # "ok"
  <2> DEFINE cleaned == DestroyTaken(popped, h, reply)
  <2>1. /\ driver' = cleaned
        /\ "pop" \in faults'
        BY <1>5 DEF CreateContext, CleanUp
  <2> HIDE DEF popped
  <2>2. popped \in DriverStates /\ h # None /\ h \in CtxHandles \union {None}
        BY <1>3, NoneAssumption
  <2>3. /\ cleaned.live = IF h # None /\ reply = "ok" THEN popped.live \ {h} ELSE popped.live
        /\ \A x \in KidHandles: cleaned.kids[x] # None => cleaned.kids[x] = popped.kids[x]
        BY ONLY <2>2, reply \in {"ok", "error"}, DestroyRemoves
  <2> HIDE DEF cleaned
  <2> QED BY <1>1, <1>3, <1>5, <2>1, <2>2, <2>3
<1> QED BY <1>4, <1>5

LEMMA NewChildEffect ==
    ASSUME IInv, NEW c \in Contexts, NEW k \in Kids, NEW x \in KidHandles,
           NEW rp \in Replies, NewChild(c, k, x, rp)
    PROVE  /\ driver'.live = driver.live
           /\ driver'.kids = IF Reached(raw[c], rp) /\ rp.op = "ok"
                             THEN [driver.kids EXCEPT ![x] = raw[c]] ELSE driver.kids
           /\ driver'.stack # driver.stack => "pop" \in faults'
           /\ Reached(raw[c], rp) /\ rp.pop # "ok" => "pop" \in faults'
<1> DEFINE done == [driver EXCEPT !.kids[x] = raw[c]]
<1>1. /\ driver \in DriverStates
      /\ raw[c] \in CtxHandles /\ raw[c] # None
      /\ raw[c] \in driver.live
      BY NoneAssumption DEF IInv, TypeOK, Owned, NewChild, DriverStates
<1>2. /\ done \in DriverStates
      /\ done.live = driver.live
      /\ done.stack = driver.stack
      /\ done.kids = [driver.kids EXCEPT ![x] = raw[c]]
      BY <1>1 DEF DriverStates
<1>3. /\ driver' = WithCurrent(driver, raw[c], rp, done)
      /\ faults' = faults \union FaultsOf(raw[c], rp, "create")
      BY DEF NewChild
<1> HIDE DEF done
<1>4. /\ driver'.live = driver.live
      /\ driver'.kids = IF Reached(raw[c], rp) /\ rp.op = "ok" THEN done.kids ELSE driver.kids
      /\ driver'.stack # driver.stack => raw[c] # None /\ rp.push = "ok" /\ rp.pop # "ok"
      BY <1>1, <1>2, <1>3, WithCurrentEffect
<1> QED BY <1>1, <1>2, <1>3, <1>4 DEF FaultsOf, Reached

LEMMA SynchronizeEffect ==
    ASSUME IInv, NEW k \in Streams, NEW rp \in Replies, Synchronize(k, rp)
    PROVE  /\ driver'.live = driver.live
           /\ driver'.kids = driver.kids
           /\ driver'.stack # driver.stack => "pop" \in faults'
<1> DEFINE h == raw[kid[k].ctx]
           x == kid[k].raw
           done == Synchronized(driver, h, x)
<1>1. /\ driver \in DriverStates
      /\ h \in CtxHandles /\ h \in driver.live
      /\ x \in KidHandles
      BY DEF IInv, TypeOK, Owned, Synchronize, Kids, DriverStates
<1>2. /\ driver' = WithCurrent(driver, h, rp, done)
      /\ faults' = faults \union FaultsOf(h, rp, "synchronize")
      BY DEF Synchronize
<1> HIDE DEF h, x
<1>3. /\ done \in DriverStates
      /\ done.live = driver.live
      /\ done.stack = driver.stack
      /\ done.kids = driver.kids
      BY <1>1 DEF Synchronized, DriverStates
<1> HIDE DEF done
<1>4. /\ driver'.live = driver.live
      /\ driver'.kids = driver.kids
      /\ driver'.stack # driver.stack => h # None /\ rp.push = "ok" /\ rp.pop # "ok"
      BY <1>1, <1>2, <1>3, WithCurrentEffect
<1> QED BY <1>2, <1>4 DEF FaultsOf

\* Until a pop fails, none of the runtime's contexts stays on the stack.
LEMMA ForeignHead ==
    ASSUME StackInv, "pop" \notin faults, NEW h \in CtxHandles,
           driver.stack # << >>, Head(driver.stack) = h
    PROVE  FALSE
<1>1. Head(driver.stack) \in Foreign
      BY DEF StackInv
<1> QED BY <1>1, NoneAssumption

LEMMA ReleaseChildEffect ==
    ASSUME IInv, StackInv, NEW k \in Kids, NEW rp \in Replies,
           NEW reply \in {"ok", "error"}, ReleaseChild(k, rp, reply)
    PROVE  LET c == kid[k].ctx
               last == LastReference(c, k)
           IN
           /\ driver'.live = IF last /\ reply = "ok" THEN driver.live \ {raw[c]} ELSE driver.live
           /\ last /\ reply # "ok" => "destroy" \in faults'
           /\ \A y \in KidHandles: driver'.kids[y] # None => driver'.kids[y] = driver.kids[y]
           /\ rp.push = "ok" /\ rp.op = "ok" => driver'.kids[kid[k].raw] = None
           /\ rp.push # "ok" => "push" \in faults'
           /\ rp.push = "ok" /\ rp.op # "ok" => "free" \in faults'
           /\ driver'.stack # driver.stack => "pop" \in faults'
<1> DEFINE c == kid[k].ctx
           h == raw[c]
           x == kid[k].raw
           done == FreedOnce(driver, h, x)
           freed == WithCurrent(driver, h, rp, done)
           gone == DestroyTaken(freed, h, reply)
<1>1. /\ driver \in DriverStates
      /\ h \in CtxHandles \union {None} /\ h # None
      /\ h \in CtxHandles /\ h \in driver.live
      /\ x \in KidHandles
      BY NoneAssumption DEF IInv, TypeOK, Owned, ReleaseChild, DriverStates
<1>2. \/ /\ LastReference(c, k)
         /\ driver' = gone
         /\ faults' = faults \union FaultsOf(h, rp, "free") \union DestroyFaults(h, reply)
      \/ /\ ~ LastReference(c, k)
         /\ driver' = freed
         /\ faults' = faults \union FaultsOf(h, rp, "free")
      BY DEF ReleaseChild
<1> HIDE DEF h, x
<1>3. /\ done \in DriverStates
      /\ done.live = driver.live
      /\ done.stack = driver.stack
      /\ done.kids = [driver.kids EXCEPT ![x] = None]
      BY <1>1 DEF FreedOnce, Freed, DriverStates
<1> HIDE DEF done
<1>4. /\ freed \in DriverStates
      /\ freed.live = driver.live
      /\ freed.kids = IF Reached(h, rp) /\ rp.op = "ok" THEN done.kids ELSE driver.kids
      /\ freed.stack # driver.stack => h # None /\ rp.push = "ok" /\ rp.pop # "ok"
      BY <1>1, <1>3, WithCurrentEffect
<1> HIDE DEF freed
<1>5. /\ \A y \in KidHandles: freed.kids[y] # None => freed.kids[y] = driver.kids[y]
      /\ rp.push = "ok" /\ rp.op = "ok" => freed.kids[x] = None
      BY <1>1, <1>3, <1>4 DEF Reached, DriverStates
<1>6. /\ rp.push # "ok" => "push" \in faults'
      /\ rp.push = "ok" /\ rp.op # "ok" => "free" \in faults'
      /\ rp.push = "ok" /\ rp.pop # "ok" => "pop" \in faults'
      /\ faults \subseteq faults'
      BY <1>1, <1>2 DEF FaultsOf
<1>7. /\ gone.live = IF h # None /\ reply = "ok" THEN freed.live \ {h} ELSE freed.live
      /\ \A y \in KidHandles: gone.kids[y] # None => gone.kids[y] = freed.kids[y]
      /\ gone.stack # freed.stack => h # None /\ freed.stack # << >> /\ Head(freed.stack) = h
  <2>1. freed \in DriverStates /\ h \in CtxHandles \union {None}
        BY <1>1, <1>4
  <2> QED BY ONLY <2>1, reply \in {"ok", "error"}, DestroyRemoves
<1> HIDE DEF gone
<1>8. gone.stack # driver.stack => "pop" \in faults'
  <2>1. CASE freed.stack # driver.stack
        BY <1>4, <1>6, <2>1
  <2>2. CASE freed.stack = driver.stack
        BY <1>1, <1>6, <1>7, <2>2, ForeignHead
  <2> QED BY <2>1, <2>2
<1>9. CASE LastReference(c, k)
  <2>1. driver' = gone /\ faults' = faults \union FaultsOf(h, rp, "free") \union DestroyFaults(h, reply)
        BY <1>2, <1>9
  <2>2. reply # "ok" => "destroy" \in faults'
        BY <1>1, <2>1 DEF DestroyFaults
  <2>3. /\ gone.live = IF reply = "ok" THEN driver.live \ {h} ELSE driver.live
        /\ \A y \in KidHandles: gone.kids[y] # None => gone.kids[y] = driver.kids[y]
        /\ rp.push = "ok" /\ rp.op = "ok" => gone.kids[x] = None
        BY <1>1, <1>4, <1>5, <1>7
  <2> QED BY <1>6, <1>8, <1>9, <2>1, <2>2, <2>3 DEF h, x
<1>10. CASE ~ LastReference(c, k)
  <2>1. driver' = freed
        BY <1>2, <1>10
  <2> QED BY <1>4, <1>5, <1>6, <1>10, <2>1 DEF h, x
<1> QED BY <1>9, <1>10

LEMMA DestroyContextEffect ==
    ASSUME IInv, StackInv, NEW c \in Contexts, NEW reply \in {"ok", "error"},
           driver' = DestroyTaken(driver, raw[c], reply),
           faults' = faults \union DestroyFaults(raw[c], reply)
    PROVE  /\ driver'.live = IF raw[c] # None /\ reply = "ok" THEN driver.live \ {raw[c]} ELSE driver.live
           /\ raw[c] # None /\ reply # "ok" => "destroy" \in faults'
           /\ \A y \in KidHandles: driver'.kids[y] # None => driver'.kids[y] = driver.kids[y]
           /\ driver'.stack # driver.stack => "pop" \in faults'
<1> DEFINE h == raw[c]
           gone == DestroyTaken(driver, h, reply)
<1>1. /\ driver \in DriverStates
      /\ h \in CtxHandles \union {None}
      BY DEF IInv, TypeOK, DriverStates
<1>2. driver' = gone
      OBVIOUS
<1>3. h # None /\ reply # "ok" => "destroy" \in faults'
      BY DEF DestroyFaults
<1> HIDE DEF h
<1>4. /\ gone.live = IF h # None /\ reply = "ok" THEN driver.live \ {h} ELSE driver.live
      /\ \A y \in KidHandles: gone.kids[y] # None => gone.kids[y] = driver.kids[y]
      /\ gone.stack # driver.stack => h # None /\ driver.stack # << >> /\ Head(driver.stack) = h
      BY ONLY <1>1, reply \in {"ok", "error"}, DestroyRemoves
<1> HIDE DEF gone
<1>5. gone.stack # driver.stack => "pop" \in faults'
      BY <1>1, <1>4, ForeignHead
<1> QED BY <1>2, <1>3, <1>4, <1>5 DEF h

\* No fault is forgotten.
LEMMA FaultsStay == ASSUME Next PROVE faults \subseteq faults'
BY DEF Next, ApiStep, HostStep, HostPop, HostPush, CreateContext, NewChild, Synchronize,
       ReleaseChild, CloseContext, DropContext

\* close or drop of a context: it is destroyed, or kept for its children.
LEMMA LetGoOfContext ==
    ASSUME NEW c \in Contexts, NEW reply \in {"ok", "error"},
           CloseContext(c, reply) \/ DropContext(c, reply)
    PROVE  /\ UNCHANGED <<kid, skipped>>
           /\ held' \in {held, held \ {c}}
           /\ \/ /\ KidsOf(c) = {}
                 /\ raw' = [raw EXCEPT ![c] = None]
                 /\ driver' = DestroyTaken(driver, raw[c], reply)
                 /\ faults' = faults \union DestroyFaults(raw[c], reply)
              \/ KidsOf(c) # {} /\ UNCHANGED <<driver, faults, raw>>
BY DEF CloseContext, CanClose, DropContext

LEMMA ApiStack ==
    ASSUME IInv, StackInv, ApiStep
    PROVE  driver'.stack # driver.stack => "pop" \in faults'
<1>1. ASSUME NEW c \in Contexts, NEW reply \in {"ok", "error"},
             CloseContext(c, reply) \/ DropContext(c, reply)
      PROVE  driver'.stack # driver.stack => "pop" \in faults'
      BY <1>1, LetGoOfContext, DestroyContextEffect
<1>2. ASSUME NEW c \in Contexts, NEW h \in CtxHandles, NEW pop \in {"ok", "error", "other"},
             NEW reply \in {"ok", "error"}, CreateContext(c, h, pop, reply)
      PROVE  driver'.stack # driver.stack => "pop" \in faults'
      BY <1>2, CreateContextEffect
<1>3. ASSUME NEW k \in Kids, NEW rp \in Replies, NEW reply \in {"ok", "error"},
             ReleaseChild(k, rp, reply)
      PROVE  driver'.stack # driver.stack => "pop" \in faults'
      BY <1>3, ReleaseChildEffect
<1> QED BY <1>1, <1>2, <1>3, NewChildEffect, SynchronizeEffect DEF ApiStep

LEMMA StackNext == ASSUME IInv, StackInv, [Next]_vars PROVE StackInv'
<1>1. CASE ApiStep
  <2>1. faults \subseteq faults'
        BY <1>1, FaultsStay DEF Next
  <2> QED BY <1>1, <2>1, ApiStack DEF StackInv
<1>2. CASE HostStep
  <2>1. driver \in DriverStates
        BY DEF IInv, TypeOK, DriverStates
  <2>2. CASE HostPop
        BY <2>1, <2>2 DEF HostPop, StackInv, DriverStates
  <2>3. ASSUME NEW f \in Foreign, HostPush(f) PROVE StackInv'
        BY <2>1, <2>3 DEF HostPush, StackInv, DriverStates
  <2> QED BY <1>2, <2>2, <2>3 DEF HostStep
<1>3. CASE UNCHANGED vars
      BY <1>3 DEF vars, StackInv
<1> QED BY <1>1, <1>2, <1>3 DEF Next

\* The open contexts are those referred to, and the driver's are the open ones.
LEMMA ContextsNext ==
    ASSUME IInv, StackInv, ContextsReleased, [Next]_vars PROVE ContextsReleased'
<1> DEFINE open == {raw[c] : c \in Contexts} \ {None}
<1>1. ASSUME NEW c \in Contexts, NEW h \in CtxHandles, NEW pop \in {"ok", "error", "other"},
             NEW reply \in {"ok", "error"}, CreateContext(c, h, pop, reply)
      PROVE  ContextsReleased'
  <2>1. raw[c] = None
        BY <1>1 DEF CreateContext, ContextsReleased
  <2>2. CASE pop = "ok"
    <3>1. /\ held' = held \union {c}
          /\ raw' = [raw EXCEPT ![c] = h]
          /\ UNCHANGED <<faults, kid>>
          /\ driver'.live = driver.live \union {h}
          BY <1>1, <2>2, CreateContextEffect DEF CreateContext
    <3>2. open' = open \union {h}
          BY <2>1, <3>1, NoneAssumption DEF IInv, TypeOK
    <3>3. \A b \in Contexts: KidsOf(b)' = KidsOf(b)
          BY <3>1 DEF KidsOf
    <3>4. \A b \in Contexts: raw'[b] # None => b \in held' \/ KidsOf(b)' # {}
          BY <3>1, <3>3 DEF ContextsReleased, IInv, TypeOK
    <3>5. "destroy" \notin faults' => driver'.live = open'
          BY <3>1, <3>2 DEF ContextsReleased
    <3> QED BY <3>4, <3>5 DEF ContextsReleased
  <2>3. CASE pop # "ok"
    <3>1. /\ UNCHANGED <<held, raw, kid>>
          /\ faults' = faults \union {"pop"} \union DestroyFaults(h, reply)
          /\ reply = "ok" => driver'.live = driver.live
          BY <1>1, <2>3, CreateContextEffect DEF CreateContext
    <3>2. reply = "ok" \/ "destroy" \in faults'
          BY <3>1, NoneAssumption DEF DestroyFaults
    <3> QED BY <3>1, <3>2 DEF ContextsReleased, KidsOf
  <2> QED BY <2>2, <2>3
<1>2. ASSUME NEW c \in Contexts, NEW k \in Kids, NEW x \in KidHandles, NEW rp \in Replies,
             NewChild(c, k, x, rp)
      PROVE  ContextsReleased'
  <2>1. /\ UNCHANGED <<held, raw>>
        /\ kid[k] = None
        /\ \A j \in Kids: j # k => kid'[j] = kid[j]
        BY <1>2 DEF NewChild, IInv, TypeOK
  <2>2. driver'.live = driver.live /\ faults \subseteq faults'
        BY <1>2, NewChildEffect DEF NewChild
  <2>3. \A b \in Contexts: KidsOf(b) \subseteq KidsOf(b)'
        BY <2>1 DEF KidsOf
  <2> QED BY <2>1, <2>2, <2>3 DEF ContextsReleased
<1>3. ASSUME NEW k \in Streams, NEW rp \in Replies, Synchronize(k, rp)
      PROVE  ContextsReleased'
      BY <1>3, SynchronizeEffect DEF Synchronize, ContextsReleased, KidsOf
<1>4. ASSUME NEW k \in Kids, NEW rp \in Replies, NEW reply \in {"ok", "error"},
             ReleaseChild(k, rp, reply)
      PROVE  ContextsReleased'
  <2> PICK c \in Contexts: c = kid[k].ctx
      BY <1>4 DEF ReleaseChild, IInv, TypeOK
  <2>1. /\ kid[k] # None /\ raw[c] # None
        /\ held' = held
        /\ \A j \in Kids: j # k => kid'[j] = kid[j]
        BY <1>4 DEF ReleaseChild, IInv, TypeOK, Owned
  <2>2. \A b \in Contexts: b # c => KidsOf(b) \subseteq KidsOf(b)'
        BY <2>1 DEF KidsOf
  <2>3. CASE LastReference(c, k)
    <3>1. /\ raw' = [raw EXCEPT ![c] = None]
          /\ driver'.live = IF reply = "ok" THEN driver.live \ {raw[c]} ELSE driver.live
          /\ reply # "ok" => "destroy" \in faults'
          /\ faults \subseteq faults'
          BY <1>4, <2>3, ReleaseChildEffect DEF ReleaseChild
    <3>2. open' = open \ {raw[c]}
          BY <2>1, <3>1 DEF IInv, TypeOK, Owned
    <3>3. \A b \in Contexts: raw'[b] # None => b \in held' \/ KidsOf(b)' # {}
          BY <2>1, <2>2, <3>1 DEF ContextsReleased, IInv, TypeOK
    <3>4. "destroy" \notin faults' => driver'.live = open'
          BY <3>1, <3>2 DEF ContextsReleased
    <3> QED BY <3>3, <3>4 DEF ContextsReleased
  <2>4. CASE ~ LastReference(c, k)
    <3>1. /\ raw' = raw
          /\ driver'.live = driver.live
          /\ faults \subseteq faults'
          BY <1>4, <2>4, ReleaseChildEffect DEF ReleaseChild
    <3>2. c \in held \/ KidsOf(c)' # {}
      <4>1. k \in KidsOf(c)
            BY <2>1 DEF KidsOf
      <4>2. c \in held \/ \E j \in KidsOf(c): j # k
            BY <2>4, <4>1 DEF LastReference
      <4> QED BY <2>1, <4>2 DEF KidsOf
    <3>3. \A b \in Contexts: raw'[b] # None => b \in held' \/ KidsOf(b)' # {}
          BY <2>1, <2>2, <3>1, <3>2 DEF ContextsReleased
    <3> QED BY <3>1, <3>3 DEF ContextsReleased
  <2> QED BY <2>3, <2>4
<1>5. ASSUME NEW c \in Contexts, NEW reply \in {"ok", "error"},
             CloseContext(c, reply) \/ DropContext(c, reply)
      PROVE  ContextsReleased'
  <2>1. /\ kid' = kid
        /\ \A b \in Contexts: b # c /\ b \in held => b \in held'
        BY <1>5, LetGoOfContext
  <2>2. CASE KidsOf(c) # {} /\ UNCHANGED <<driver, faults, raw>>
        BY <2>1, <2>2 DEF ContextsReleased, KidsOf
  <2>3. CASE /\ raw' = [raw EXCEPT ![c] = None]
             /\ driver' = DestroyTaken(driver, raw[c], reply)
             /\ faults' = faults \union DestroyFaults(raw[c], reply)
    <3>1. /\ driver'.live = IF raw[c] # None /\ reply = "ok" THEN driver.live \ {raw[c]} ELSE driver.live
          /\ raw[c] # None /\ reply # "ok" => "destroy" \in faults'
          BY <2>3, DestroyContextEffect
    <3>2. open' = open \ {raw[c]}
          BY <2>3 DEF IInv, TypeOK, Owned
    <3>3. \A b \in Contexts: KidsOf(b)' = KidsOf(b)
          BY <2>1 DEF KidsOf
    <3> QED BY <2>1, <2>3, <3>1, <3>2, <3>3 DEF ContextsReleased, IInv, TypeOK
  <2> QED BY <1>5, <2>2, <2>3, LetGoOfContext
<1>6. CASE HostStep \/ UNCHANGED vars
  <2>1. driver \in DriverStates
        BY DEF IInv, TypeOK, DriverStates
  <2> QED BY <1>6, <2>1 DEF HostStep, HostPop, HostPush, vars, ContextsReleased, KidsOf, DriverStates
<1> QED BY <1>1, <1>2, <1>3, <1>4, <1>5, <1>6 DEF Next, ApiStep

\* A child that is live without an owner takes a fault that is not forgotten.
LEMMA ChildrenNext ==
    ASSUME IInv, StackInv, ChildrenReleased, [Next]_vars PROVE ChildrenReleased'
<1> DEFINE Harmless == {"create", "synchronize", "destroy"}
<1>1. SUFFICES ASSUME faults' \subseteq Harmless, NEW x \in KidHandles, driver'.kids[x] # None
               PROVE  \E k \in Kids: kid'[k] # None /\ kid'[k].raw = x
      BY DEF ChildrenReleased
<1>2. faults \subseteq Harmless
      BY <1>1, FaultsStay DEF vars
<1>3. CASE /\ \A k \in Kids: kid'[k] = kid[k]
           /\ driver'.kids[x] = driver.kids[x]
      BY <1>1, <1>2, <1>3 DEF ChildrenReleased
<1>4. ASSUME NEW c \in Contexts, NEW h \in CtxHandles, NEW pop \in {"ok", "error", "other"},
             NEW reply \in {"ok", "error"}, CreateContext(c, h, pop, reply)
      PROVE  kid' = kid /\ driver'.kids[x] = driver.kids[x]
      BY <1>1, <1>4, CreateContextEffect DEF CreateContext
<1>5. ASSUME NEW c \in Contexts, NEW k \in Kids, NEW y \in KidHandles, NEW rp \in Replies,
             NewChild(c, k, y, rp)
      PROVE  \E j \in Kids: kid'[j] # None /\ kid'[j].raw = x
  <2>1. Reached(raw[c], rp) => rp.pop = "ok"
        BY <1>1, <1>5, NewChildEffect
  <2>2. /\ driver.kids \in [KidHandles -> CtxHandles \union {None}]
        /\ kid \in [Kids -> [ctx: Contexts, raw: KidHandles] \union {None}]
        /\ kid[k] = None
        BY <1>5 DEF IInv, TypeOK, NewChild
  <2>3. CASE Creates(raw[c], rp)
    <3>1. /\ kid' = [kid EXCEPT ![k] = [ctx |-> c, raw |-> y]]
          /\ driver'.kids = [driver.kids EXCEPT ![y] = raw[c]]
          BY <1>5, <2>3, NewChildEffect DEF NewChild, Creates, OutParameter
    <3>2. CASE x = y
      <4>1. kid'[k] = [ctx |-> c, raw |-> y]
            BY <2>2, <3>1
      <4>2. kid'[k] # None
            BY <4>1, NoneAssumption
      <4> QED BY <3>2, <4>1, <4>2
    <3>3. CASE x # y
      <4>1. PICK j \in Kids: kid[j] # None /\ kid[j].raw = x
            BY <1>1, <1>2, <2>2, <3>1, <3>3 DEF ChildrenReleased
      <4> QED BY <2>2, <3>1, <4>1
    <3> QED BY <3>2, <3>3
  <2>4. CASE ~ Creates(raw[c], rp)
    <3>1. kid' = kid
          BY <1>5, <2>4 DEF NewChild
    <3>2. ~ (Reached(raw[c], rp) /\ rp.op = "ok")
          BY <2>1, <2>4 DEF Creates
    <3>3. driver'.kids = IF Reached(raw[c], rp) /\ rp.op = "ok"
                         THEN [driver.kids EXCEPT ![y] = raw[c]] ELSE driver.kids
          BY <1>5, NewChildEffect
    <3>4. driver'.kids = driver.kids
          BY <3>2, <3>3
    <3> QED BY <1>3, <3>1, <3>4
  <2> QED BY <2>3, <2>4
<1>6. ASSUME NEW k \in Streams, NEW rp \in Replies, Synchronize(k, rp)
      PROVE  kid' = kid /\ driver'.kids[x] = driver.kids[x]
      BY <1>6, SynchronizeEffect DEF Synchronize
<1>7. ASSUME NEW k \in Kids, NEW rp \in Replies, NEW reply \in {"ok", "error"},
             ReleaseChild(k, rp, reply)
      PROVE  \E j \in Kids: kid'[j] # None /\ kid'[j].raw = x
  <2>1. /\ driver'.kids[x] = driver.kids[x]
        /\ x # kid[k].raw
        BY <1>1, <1>7, ReleaseChildEffect
  <2>2. PICK j \in Kids: kid[j] # None /\ kid[j].raw = x
        BY <1>1, <1>2, <2>1 DEF ChildrenReleased
  <2> QED BY <1>7, <2>1, <2>2 DEF ReleaseChild, IInv, TypeOK
<1>8. ASSUME NEW c \in Contexts, NEW reply \in {"ok", "error"},
             CloseContext(c, reply) \/ DropContext(c, reply)
      PROVE  kid' = kid /\ driver'.kids[x] = driver.kids[x]
      BY <1>1, <1>8, LetGoOfContext, DestroyContextEffect
<1>9. ASSUME HostStep \/ UNCHANGED vars
      PROVE  kid' = kid /\ driver'.kids[x] = driver.kids[x]
  <2>1. driver \in DriverStates
        BY DEF IInv, TypeOK, DriverStates
  <2> QED BY <1>9, <2>1 DEF HostStep, HostPop, HostPush, vars, DriverStates
<1> QED BY <1>3, <1>4, <1>5, <1>6, <1>7, <1>8, <1>9 DEF Next, ApiStep

LEMMA ReleaseInvInit == Init => ReleaseInv
<1> SUFFICES ASSUME Init PROVE ReleaseInv
    OBVIOUS
<1>1. {raw[c] : c \in Contexts} \subseteq {None}
      BY DEF Init
<1> QED BY <1>1 DEF Init, ReleaseInv, ContextsReleased, ChildrenReleased, StackInv

LEMMA ReleaseInvNext == IInv /\ ReleaseInv /\ [Next]_vars => ReleaseInv'
BY StackNext, ContextsNext, ChildrenNext DEF ReleaseInv

LEMMA Invariance == Spec => [](IInv /\ ReleaseInv)
<1>1. Init => IInv /\ ReleaseInv
      BY IInvInit, ReleaseInvInit
<1>2. IInv /\ ReleaseInv /\ [Next]_vars => (IInv /\ ReleaseInv)'
      BY IInvNext, ReleaseInvNext
<1> QED BY <1>1, <1>2, PTL DEF Spec

-----------------------------------------------------------------------------
\* Every variable always holds a value of its type.
THEOREM TypeCorrect == Spec => []TypeOK
<1>1. IInv => TypeOK
      BY DEF IInv
<1> QED BY <1>1, IInvInit, IInvNext, PTL DEF Spec

\* What a Rust value holds is live and its own, and a child's context is open.
THEOREM Ownership == Spec => []Owned
<1>1. IInv => Owned
      BY DEF IInv
<1> QED BY <1>1, IInvInit, IInvNext, PTL DEF Spec

\* Whatever the driver answers, it is never handed a dead handle.
THEOREM NoDeadHandle == Spec => []NeverMisused
<1>1. IInv => NeverMisused
      BY DEF IInv
<1> QED BY <1>1, IInvInit, IInvNext, PTL DEF Spec

\* A context outlives its last reference only where cuCtxDestroy failed.
THEOREM ReleasedContexts == Spec => []ContextsReleased
<1>1. ReleaseInv => ContextsReleased
      BY DEF ReleaseInv
<1> QED BY <1>1, Invariance, PTL

\* A child outlives its owner only where a push, a pop or a free failed.
THEOREM ReleasedChildren == Spec => []ChildrenReleased
<1>1. ReleaseInv => ChildrenReleased
      BY DEF ReleaseInv
<1> QED BY <1>1, Invariance, PTL

\* An API call restores the stack of current contexts, unless a pop failed.
THEOREM RestoredStack == Spec => StackRestored
<1> DEFINE Restores == driver'.stack # driver.stack => HostStep \/ "pop" \in faults'
<1>1. IInv /\ ReleaseInv /\ [Next]_vars => [Restores]_vars
      BY ApiStack DEF ReleaseInv, Next, vars
<1> QED BY <1>1, Invariance, PTL DEF Spec, StackRestored
=============================================================================
