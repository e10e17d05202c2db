----------------------- MODULE ToolkitInspectorProofs -----------------------
(***************************************************************************)
(* Proofs about ToolkitInspector for every set of trees, every number of   *)
(* changes and every moment at which they happen: what an inspection says, *)
(* success or failure, it saw.                                             *)
(***************************************************************************)
EXTENDS ToolkitInspector, TLAPS

-----------------------------------------------------------------------------
Elements(s) == {s[i] : i \in DOMAIN s}

\* The histories of a path: it led to a regular file, or to something else.
Found(p) == "file" \in ever.entry[p]
Failed(p) == \E kind \in ever.entry[p]: kind # "file"

\* The history has the present in it.
SeenInv ==
    /\ ever \in [root: SUBSET {"relative", "missing", "loop", "file", "directory"},
                 document: SUBSET Documents, entry: [Paths -> SUBSET Entries]]
    /\ tree.root \in ever.root
    /\ tree.document \in ever.document
    /\ \A p \in Paths: tree.entry[p] \in ever.entry[p]

\* What inspect knows when it gets somewhere.
KnownInv ==
    /\ pc \in {"size", "text", "list", "resolve", "file"} => "directory" \in ever.root
    /\ pc \in {"text", "list", "resolve", "file"} => \E d \in ever.document: ~ d.large
    /\ pc \in {"list", "resolve", "file"} =>
          \E d \in ever.document: d.text = "version" /\ d.version = version
    /\ pc \in {"resolve", "file"} => Needs # {}

\* The candidates still to try of a component are all that could be left of one
\* of the target's needs, and a need that was not met has its component to come.
Hopeful(component) == \E need \in Needs: \A p \in need: p \in Elements(component) \/ Failed(p)
TodoInv ==
    pc \in {"resolve", "file"} =>
        /\ \A i \in DOMAIN todo: Hopeful(todo[i])
        /\ \A need \in Needs: \/ \E p \in need: Found(p)
                              \/ \E i \in DOMAIN todo: Elements(todo[i]) \subseteq need

IInv == TypeOK /\ SeenInv /\ KnownInv /\ TodoInv /\ ReportWasThere /\ FailureWasTrue

-----------------------------------------------------------------------------
\* What is left of a sequence when its head goes, and when its head is changed.
LEMMA ElementsOfTail ==
    ASSUME NEW S, NEW s \in Seq(S), s # << >>
    PROVE  /\ Tail(s) \in Seq(S) /\ Head(s) \in S
           /\ Elements(s) = {Head(s)} \union Elements(Tail(s))
<1>1. /\ Tail(s) \in Seq(S) /\ Head(s) \in S /\ Head(s) = s[1]
      /\ Len(s) \in Nat \ {0} /\ DOMAIN s = 1..Len(s)
      /\ DOMAIN Tail(s) = 1..(Len(s) - 1)
      /\ \A i \in 1..(Len(s) - 1): Tail(s)[i] = s[i + 1]
      OBVIOUS
<1>2. ASSUME NEW i \in DOMAIN s PROVE s[i] \in {Head(s)} \union Elements(Tail(s))
  <2>1. CASE i = 1
        BY <1>1, <2>1
  <2>2. CASE i # 1
    <3>1. i - 1 \in DOMAIN Tail(s) /\ Tail(s)[i - 1] = s[i]
          BY <1>1, <2>2
    <3> QED BY <3>1 DEF Elements
  <2> QED BY <2>1, <2>2
<1>3. ASSUME NEW i \in DOMAIN Tail(s) PROVE Tail(s)[i] \in Elements(s)
  <2>1. i + 1 \in DOMAIN s /\ Tail(s)[i] = s[i + 1]
        BY <1>1
  <2> QED BY <2>1 DEF Elements
<1>4. Head(s) \in Elements(s)
  <2>1. 1 \in DOMAIN s /\ Head(s) = s[1]
        BY <1>1
  <2> QED BY <2>1 DEF Elements
<1> QED BY <1>1, <1>2, <1>3, <1>4 DEF Elements

LEMMA HeadReplaced ==
    ASSUME NEW S, NEW s \in Seq(S), s # << >>, NEW x \in S
    PROVE  LET t == <<x>> \o Tail(s) IN
           /\ t \in Seq(S)
           /\ DOMAIN t = DOMAIN s
           /\ t[1] = x
           /\ \A i \in DOMAIN s: i # 1 => t[i] = s[i]
<1>1. /\ Tail(s) \in Seq(S) /\ <<x>> \in Seq(S)
      /\ Len(s) \in Nat \ {0} /\ DOMAIN s = 1..Len(s)
      /\ Len(Tail(s)) = Len(s) - 1
      /\ \A i \in 1..(Len(s) - 1): Tail(s)[i] = s[i + 1]
      OBVIOUS
<1> DEFINE t == <<x>> \o Tail(s)
<1>2. /\ t \in Seq(S) /\ Len(t) = Len(s)
      /\ t[1] = x
      BY <1>1
<1>3. ASSUME NEW i \in DOMAIN s, i # 1 PROVE t[i] = s[i]
  <2>1. t[i] = Tail(s)[i - 1]
        BY <1>1, <1>3
  <2> QED BY <1>1, <1>3, <2>1
<1> QED BY <1>1, <1>2, <1>3

LEMMA ElementsOfPair ==
    ASSUME NEW S, NEW x \in S, NEW y \in S
    PROVE  <<x>> \o <<y>> \in Seq(S) /\ Elements(<<x>> \o <<y>>) = {x, y}
<1> DEFINE s == <<x>> \o <<y>>
<1>1. /\ <<x>> \in Seq(S) /\ <<y>> \in Seq(S)
      /\ s \in Seq(S) /\ Len(s) = 2
      OBVIOUS
<1>2. s[1] = x /\ s[2] = y
      BY <1>1
<1>3. DOMAIN s = {1, 2}
      BY <1>1
<1> HIDE DEF s
<1> QED BY <1>1, <1>2, <1>3 DEF Elements, s

-----------------------------------------------------------------------------
LEMMA IInvInit == Init => IInv
<1> SUFFICES ASSUME Init PROVE IInv
    OBVIOUS
<1>1. tree \in Tree /\ tree.document \in Documents
      BY TreesAssumption DEF Init
<1>2. TypeOK
  <2>1. version \in Version
        BY DEF Init, NoVersion, Version
  <2> QED BY <1>1, <2>1, MaxChangesAssumption DEF Init, TypeOK, None
<1>3. SeenInv
      BY <1>1 DEF Init, SeenInv, Tree
<1>4. KnownInv /\ TodoInv
      BY DEF Init, KnownInv, TodoInv
<1>5. ReportWasThere /\ FailureWasTrue
      BY DEF Init, ReportWasThere, FailureWasTrue, None
<1> QED BY <1>2, <1>3, <1>4, <1>5 DEF IInv

\* The file system changes: what was seen stays seen.
LEMMA ChangeInv == ASSUME IInv, Change PROVE IInv'
<1>1. PICK t \in NextTrees \ {tree}:
         /\ tree' = t
         /\ ever' = [root |-> ever.root \union {t.root},
                     document |-> ever.document \union {t.document},
                     entry |-> [p \in Paths |-> ever.entry[p] \union {t.entry[p]}]]
      BY DEF Change
<1>2. /\ UNCHANGED <<target, pc, version, todo, outcome>>
      /\ pc # "returned"
      /\ changes' \in 0..MaxChanges
      BY MaxChangesAssumption DEF Change, code, IInv, TypeOK
<1>3. t \in Tree /\ t.document \in Documents
  <2>1. CASE t = NoTree("missing")
        BY <2>1, TreesAssumption DEF NoTree, Tree, Entries, Plain
  <2>2. ASSUME NEW d \in Documents, t = [tree EXCEPT !.document = d]
        PROVE  t \in Tree /\ t.document \in Documents
        BY <2>2, TreesAssumption DEF IInv, TypeOK, Tree
  <2>3. ASSUME NEW p \in Paths, NEW kind \in Plain, t = [tree EXCEPT !.entry[p] = kind]
        PROVE  t \in Tree /\ t.document \in Documents
        BY <2>3 DEF IInv, TypeOK, Tree, Entries
  <2> QED BY <2>1, <2>2, <2>3 DEF NextTrees
<1>4. TypeOK'
      BY <1>1, <1>2, <1>3 DEF IInv, TypeOK, Component
<1>5. SeenInv'
      BY <1>1, <1>3 DEF IInv, SeenInv, Tree
<1>6. /\ ever.root \subseteq ever'.root /\ ever.document \subseteq ever'.document
      /\ \A p \in Paths: ever.entry[p] \subseteq ever'.entry[p]
      BY <1>1
<1>7. Needs' = Needs /\ \A need \in Needs: need \subseteq Paths
      BY <1>2 DEF Needs, Paths
<1>8. KnownInv'
      BY <1>2, <1>6, <1>7 DEF IInv, KnownInv
<1>9. \A p \in Paths: (Found(p) => Found(p)') /\ (Failed(p) => Failed(p)')
      BY <1>6 DEF Found, Failed
<1>10. TodoInv'
      BY <1>2, <1>7, <1>9 DEF IInv, TodoInv, Hopeful
<1>11. outcome' = None
      BY <1>2 DEF IInv, TypeOK
<1>12. ReportWasThere' /\ FailureWasTrue'
      BY <1>11 DEF ReportWasThere, FailureWasTrue, None
<1> QED BY <1>4, <1>5, <1>8, <1>10, <1>12 DEF IInv

\* The inspection goes on, or it says something that is true.
LEMMA Goes ==
    ASSUME IInv, UNCHANGED files, UNCHANGED <<target, outcome>>, pc # "returned",
           pc' \in {"directory", "size", "text", "list", "resolve", "file"},
           version' \in Version, todo' \in Seq(Seq(Paths)),
           pc' = "file" => todo' # << >> /\ Head(todo') # << >>,
           KnownInv', TodoInv'
    PROVE  IInv'
<1>1. /\ UNCHANGED <<tree, ever, changes>>
      /\ outcome' = None /\ pc' # "returned"
      BY DEF files, IInv, TypeOK
<1>2. TypeOK'
      BY <1>1 DEF IInv, TypeOK, Component
<1>3. SeenInv'
      BY <1>1 DEF IInv, SeenInv
<1>4. ReportWasThere' /\ FailureWasTrue'
      BY <1>1 DEF ReportWasThere, FailureWasTrue, None
<1> QED BY <1>2, <1>3, <1>4 DEF IInv

LEMMA Says ==
    ASSUME IInv, UNCHANGED files, NEW o \in Reasons \union {"report", "escaped"}, Return(o),
           ReportWasThere', FailureWasTrue'
    PROVE  IInv'
<1>1. /\ UNCHANGED <<tree, ever, changes, target, version, todo>>
      /\ outcome' = o /\ o # None /\ pc' = "returned"
      BY DEF files, Return, Reasons, None
<1>2. TypeOK'
      BY <1>1 DEF IInv, TypeOK
<1>3. SeenInv'
      BY <1>1 DEF IInv, SeenInv
<1>4. KnownInv' /\ TodoInv'
      BY <1>1 DEF KnownInv, TodoInv
<1> QED BY <1>2, <1>3, <1>4 DEF IInv

\* A failure needs only its own line of FailureWasTrue.
LEMMA Fails ==
    ASSUME IInv, UNCHANGED files, NEW o \in Reasons \union {"escaped"}, Return(o),
           o = "TOOLKIT_NOT_FOUND" => ever.root # {"directory"},
           o = "TOOLKIT_PATH_NOT_ABSOLUTE" => "relative" \in ever.root,
           o = "TOOLKIT_VERSION_UNAVAILABLE" =>
               \E d \in ever.document: d.text \in {"missing", "malformed"},
           o = "TOOLKIT_VERSION_INVALID" => \E d \in ever.document: d.large \/ d.text = "odd",
           o = "TOOLKIT_VERSION_TOO_OLD" =>
               \E d \in ever.document: d.text = "version" /\ Older(d.version, Floor),
           o = "UNSUPPORTED_TARGET" => Needs = {},
           o = "TOOLKIT_COMPONENT_MISSING" => \E need \in Needs: \A p \in need: Failed(p)
    PROVE  IInv'
<1>1. /\ UNCHANGED <<ever, target>> /\ outcome' = o /\ o # "report"
      BY DEF files, Return, Reasons
<1>2. Needs' = Needs
      BY <1>1 DEF Needs
<1>3. \A p: Failed(p) => ever.entry[p] # {"file"}
      BY DEF Failed
<1>4. ReportWasThere'
      BY <1>1 DEF ReportWasThere
<1>5. FailureWasTrue'
      BY <1>1, <1>2, <1>3 DEF FailureWasTrue
<1> QED BY <1>4, <1>5, Says

LEMMA RootInv == ASSUME IInv, ResolveRoot \/ CheckRoot PROVE IInv'
<1>1. UNCHANGED files /\ pc \in {"root", "directory"}
      BY DEF ResolveRoot, CheckRoot
<1>2. /\ tree.root \in ever.root
      /\ version \in Version /\ todo \in Seq(Seq(Paths))
      /\ UNCHANGED <<tree, ever>>
      BY <1>1 DEF IInv, SeenInv, TypeOK, files
<1>3. CASE ResolveRoot
  <2>1. CASE tree.root = "relative"
        BY <1>1, <1>2, <1>3, <2>1, Fails DEF ResolveRoot, Reasons
  <2>2. CASE tree.root = "missing"
        BY <1>1, <1>2, <1>3, <2>2, Fails DEF ResolveRoot, Reasons
  <2>3. CASE tree.root = "loop"
        BY <1>1, <1>2, <1>3, <2>3, Fails DEF ResolveRoot, Reasons
  <2>4. CASE tree.root \notin {"relative", "missing", "loop"}
    <3>1. pc' = "directory" /\ UNCHANGED <<target, version, todo, outcome>>
          BY <1>3, <2>4 DEF ResolveRoot, Go
    <3>2. KnownInv' /\ TodoInv'
          BY <3>1 DEF KnownInv, TodoInv
    <3> QED BY <1>1, <1>2, <3>1, <3>2, Goes
  <2> QED BY <2>1, <2>2, <2>3, <2>4
<1>4. CASE CheckRoot
  <2>1. CASE tree.root = "directory"
    <3>1. pc' = "size" /\ UNCHANGED <<target, version, todo, outcome>>
          BY <1>4, <2>1 DEF CheckRoot, Go
    <3>2. KnownInv' /\ TodoInv'
          BY <1>2, <2>1, <3>1 DEF KnownInv, TodoInv
    <3> QED BY <1>1, <1>2, <3>1, <3>2, Goes
  <2>2. CASE tree.root # "directory"
        BY <1>1, <1>2, <1>4, <2>2, Fails DEF CheckRoot, Reasons
  <2> QED BY <2>1, <2>2
<1> QED BY <1>3, <1>4

LEMMA VersionInv == ASSUME IInv, StatVersion \/ ReadVersion PROVE IInv'
<1> DEFINE d == tree.document
<1>1. /\ UNCHANGED files /\ pc \in {"size", "text"}
      /\ pc = "text" <=> ~ (pc = "size")
      BY DEF StatVersion, ReadVersion
<1>2. /\ d \in ever.document /\ d \in Document
      /\ version \in Version /\ todo \in Seq(Seq(Paths))
      /\ "directory" \in ever.root
      /\ UNCHANGED <<tree, ever>>
      BY <1>1 DEF IInv, SeenInv, KnownInv, TypeOK, Tree, files
<1>3. CASE StatVersion
  <2>1. CASE d.text = "missing"
        BY <1>1, <1>2, <1>3, <2>1, Fails DEF StatVersion, Reasons
  <2>2. CASE d.text # "missing" /\ d.large
        BY <1>1, <1>2, <1>3, <2>2, Fails DEF StatVersion, Reasons
  <2>3. CASE d.text # "missing" /\ ~ d.large
    <3>1. pc' = "text" /\ UNCHANGED <<target, version, todo, outcome>>
          BY <1>3, <2>3 DEF StatVersion, Go
    <3>2. KnownInv' /\ TodoInv'
          BY <1>2, <2>3, <3>1 DEF KnownInv, TodoInv
    <3> QED BY <1>1, <1>2, <3>1, <3>2, Goes
  <2> QED BY <2>1, <2>2, <2>3
<1>4. CASE ReadVersion
  <2>1. CASE d.text \in {"missing", "malformed"}
        BY <1>1, <1>2, <1>4, <2>1, Fails DEF ReadVersion, Reasons
  <2>2. CASE d.text = "extreme"
        BY <1>1, <1>2, <1>4, <2>2, Fails DEF ReadVersion, Reasons
  <2>3. CASE d.text = "odd"
        BY <1>1, <1>2, <1>4, <2>3, Fails DEF ReadVersion, Reasons
  <2>4. CASE d.text = "version"
    <3>1. pc' = "list" /\ version' = d.version /\ UNCHANGED <<target, todo, outcome>>
          BY <1>4, <2>4 DEF ReadVersion
    <3>2. version' \in Version
          BY <1>2, <3>1 DEF Document
    <3>3. \E e \in ever.document: ~ e.large
          BY <1>4 DEF ReadVersion, IInv, KnownInv
    <3>4. KnownInv' /\ TodoInv'
          BY <1>2, <2>4, <3>1, <3>3 DEF KnownInv, TodoInv
    <3> QED BY <1>1, <1>2, <3>1, <3>2, <3>4, Goes
  <2> QED BY <1>2, <2>1, <2>2, <2>3, <2>4 DEF Document, Text
<1> QED BY <1>3, <1>4

\* The candidates of a target are what its needs are, less the libraries that
\* were not there to be listed.
LEMMA Listing ==
    ASSUME IInv, pc = "list", target # "unsupported"
    PROVE  /\ Candidates \in Seq(Seq(Paths))
           /\ Needs # {}
           /\ \A i \in DOMAIN Candidates: Hopeful(Candidates[i])
           /\ \A need \in Needs: \E i \in DOMAIN Candidates: Elements(Candidates[i]) \subseteq need
<1>1. \A p \in Paths: tree.entry[p] \in {"missing", "denied"} => Failed(p)
      BY DEF IInv, SeenInv, Failed
<1>2. \A x: Elements(<<x>>) = {x}
      BY DEF Elements
<1>3. \A x, y: Elements(<<x, y>>) = {x, y}
      BY DEF Elements
<1>4. Elements(<< >>) = {}
      BY DEF Elements
<1>5. CASE target = "windows"
  <2> DEFINE dlls == {"cudart64_11.dll", "cudart64_12.dll"}
  <2>1. /\ RuntimeDlls \in Seq(Paths)
        /\ Elements(RuntimeDlls) \subseteq dlls
        /\ \A p \in dlls: p \in Elements(RuntimeDlls) \/ Failed(p)
    <3> DEFINE a == "cudart64_11.dll"
               b == "cudart64_12.dll"
               absent(p) == tree.entry[p] \in {"missing", "denied"}
    <3>1. /\ absent(a) => Failed(a)
          /\ absent(b) => Failed(b)
          BY <1>1 DEF Paths
    <3>2. CASE absent(a) /\ absent(b)
          BY <1>4, <3>1, <3>2 DEF RuntimeDlls, Listed
    <3>3. CASE absent(a) /\ ~ absent(b)
      <4>1. RuntimeDlls = <<b>>
            BY <3>3 DEF RuntimeDlls, Listed
      <4> QED BY <1>2, <3>1, <3>3, <4>1 DEF Paths
    <3>4. CASE ~ absent(a) /\ absent(b)
      <4>1. RuntimeDlls = <<a>>
            BY <3>4 DEF RuntimeDlls, Listed
      <4> QED BY <1>2, <3>1, <3>4, <4>1 DEF Paths
    <3>5. CASE ~ absent(a) /\ ~ absent(b)
      <4>1. RuntimeDlls = <<a>> \o <<b>>
            BY <3>5 DEF RuntimeDlls, Listed
      <4>2. a \in Paths /\ b \in Paths
            BY DEF Paths
      <4>3. RuntimeDlls \in Seq(Paths) /\ Elements(RuntimeDlls) = dlls
            BY <4>1, <4>2, ElementsOfPair
      <4> QED BY <4>3
    <3> QED BY <3>2, <3>3, <3>4, <3>5
  <2>2. /\ Candidates = << <<"cuda.h">>, RuntimeDlls, <<"cudart.lib">> >>
        /\ Needs = {{"cuda.h"}, {"cudart.lib"}, dlls}
        BY <1>5 DEF Candidates, Needs
  <2>3. <<"cuda.h">> \in Seq(Paths) /\ <<"cudart.lib">> \in Seq(Paths)
        BY DEF Paths
  <2> HIDE DEF dlls
  <2>4. Hopeful(<<"cuda.h">>) /\ Hopeful(<<"cudart.lib">>)
        BY <1>2, <2>2 DEF Hopeful
  <2>5. Hopeful(RuntimeDlls)
        BY <2>1, <2>2 DEF Hopeful
  <2> DEFINE list == << <<"cuda.h">>, RuntimeDlls, <<"cudart.lib">> >>
  <2>6. /\ list \in Seq(Seq(Paths))
        /\ \A i \in DOMAIN list: Hopeful(list[i])
        BY <2>1, <2>3, <2>4, <2>5
  <2>7. \A need \in Needs: \E i \in DOMAIN list: Elements(list[i]) \subseteq need
    <3>1. /\ 1 \in DOMAIN list /\ list[1] = <<"cuda.h">>
          /\ 2 \in DOMAIN list /\ list[2] = RuntimeDlls
          /\ 3 \in DOMAIN list /\ list[3] = <<"cudart.lib">>
          OBVIOUS
    <3> HIDE DEF list
    <3> QED BY <1>2, <2>1, <2>2, <3>1
  <2> QED BY <2>2, <2>6, <2>7
<1>6. CASE target \in {"x86_64-linux", "aarch64-linux"}
  <2>1. PICK second \in {"x86_64-linux/libcudart.so", "aarch64-linux/libcudart.so"}:
           /\ Candidates = << <<"cuda.h">>, <<"lib64/libcudart.so", second>> >>
           /\ Needs = {{"cuda.h"}, {"lib64/libcudart.so", second}}
        BY <1>6 DEF Candidates, Needs
  <2> DEFINE list == << <<"cuda.h">>, <<"lib64/libcudart.so", second>> >>
  <2>2. <<"cuda.h">> \in Seq(Paths) /\ <<"lib64/libcudart.so", second>> \in Seq(Paths)
        BY DEF Paths
  <2>3. Hopeful(<<"cuda.h">>) /\ Hopeful(<<"lib64/libcudart.so", second>>)
        BY <1>2, <1>3, <2>1 DEF Hopeful
  <2>4. /\ list \in Seq(Seq(Paths))
        /\ \A i \in DOMAIN list: Hopeful(list[i])
        BY <2>2, <2>3
  <2>5. \A need \in Needs: \E i \in DOMAIN list: Elements(list[i]) \subseteq need
    <3>1. /\ 1 \in DOMAIN list /\ list[1] = <<"cuda.h">>
          /\ 2 \in DOMAIN list /\ list[2] = <<"lib64/libcudart.so", second>>
          OBVIOUS
    <3> HIDE DEF list
    <3> QED BY <1>2, <1>3, <2>1, <3>1
  <2> QED BY <2>1, <2>4, <2>5
<1> QED BY <1>5, <1>6 DEF IInv, TypeOK, Triples

LEMMA ListInv == ASSUME IInv, ListCandidates PROVE IInv'
<1>1. /\ UNCHANGED files /\ pc = "list"
      /\ UNCHANGED ever
      BY DEF ListCandidates, files
<1>2. CASE target = "unsupported"
  <2>1. Needs = {}
        BY <1>2 DEF Needs
  <2> QED BY <1>1, <1>2, <2>1, Fails DEF ListCandidates, Reasons
<1>3. CASE target # "unsupported"
  <2>1. pc' = "resolve" /\ todo' = Candidates /\ UNCHANGED <<target, version, outcome>>
        BY <1>3 DEF ListCandidates
  <2>2. Needs' = Needs
        BY <2>1 DEF Needs
  <2>3. version' \in Version
        BY <2>1 DEF IInv, TypeOK
  <2>4. KnownInv'
        BY <1>1, <1>3, <2>1, <2>2, Listing DEF IInv, KnownInv
  <2>5. TodoInv'
    <3>1. \A i \in DOMAIN todo': Hopeful(todo[i])'
          BY <1>1, <1>3, <2>1, <2>2, Listing DEF Hopeful, Failed
    <3>2. \A need \in Needs: \E i \in DOMAIN todo': Elements(todo'[i]) \subseteq need
          BY <1>1, <1>3, <2>1, Listing
    <3> QED BY <2>2, <3>1, <3>2 DEF TodoInv
  <2>6. todo' \in Seq(Seq(Paths))
        BY <1>1, <1>3, <2>1, Listing
  <2> QED BY <1>1, <2>1, <2>3, <2>4, <2>5, <2>6, Goes
<1> QED BY <1>2, <1>3

\* A candidate that is no regular file is given up, and what remains may still do.
LEMMA TryNextInv ==
    ASSUME IInv, UNCHANGED files, pc \in {"resolve", "file"}, todo # << >>, Component # << >>,
           TryNext, Failed(Candidate)
    PROVE  IInv'
<1>1. /\ todo \in Seq(Seq(Paths)) /\ version \in Version
      /\ Component \in Seq(Paths) /\ Component = todo[1] /\ 1 \in DOMAIN todo
      BY DEF IInv, TypeOK, Component
<1>2. /\ Tail(Component) \in Seq(Paths)
      /\ Elements(Component) = {Candidate} \union Elements(Tail(Component))
      BY <1>1, ElementsOfTail DEF Candidate
<1>3. /\ pc' = "resolve" /\ todo' = <<Tail(Component)>> \o Tail(todo)
      /\ UNCHANGED <<target, version, outcome, ever>>
      /\ pc # "returned"
      BY DEF TryNext, files
<1>4. /\ todo' \in Seq(Seq(Paths))
      /\ DOMAIN todo' = DOMAIN todo
      /\ todo'[1] = Tail(Component)
      /\ \A i \in DOMAIN todo: i # 1 => todo'[i] = todo[i]
      BY <1>1, <1>2, <1>3, HeadReplaced
<1>5. Needs' = Needs
      BY <1>3 DEF Needs
<1>6. /\ \A i \in DOMAIN todo: Hopeful(todo[i])
      /\ \A need \in Needs: \/ \E p \in need: Found(p)
                            \/ \E i \in DOMAIN todo: Elements(todo[i]) \subseteq need
      BY DEF IInv, TodoInv
<1>7. ASSUME NEW i \in DOMAIN todo PROVE Hopeful(todo[i])'
  <2>1. PICK need \in Needs: \A p \in need: p \in Elements(todo[i]) \/ Failed(p)
        BY <1>6 DEF Hopeful
  <2>2. \A p \in need: p \in Elements(todo'[i]) \/ Failed(p)
        BY <1>1, <1>2, <1>4, <2>1
  <2> QED BY <1>3, <1>5, <2>2 DEF Hopeful, Failed
<1>8. ASSUME NEW need \in Needs
      PROVE  (\E p \in need: Found(p)) \/ \E i \in DOMAIN todo': Elements(todo'[i]) \subseteq need
  <2>1. ASSUME NEW i \in DOMAIN todo, Elements(todo[i]) \subseteq need
        PROVE  Elements(todo'[i]) \subseteq need
        BY <1>1, <1>2, <1>4, <2>1
  <2> QED BY <1>4, <1>6, <2>1
<1>9. TodoInv'
      BY <1>3, <1>4, <1>5, <1>7, <1>8 DEF TodoInv, Found
<1>10. KnownInv'
      BY <1>3, <1>5 DEF IInv, KnownInv
<1> QED BY <1>1, <1>3, <1>4, <1>9, <1>10, Goes

LEMMA ResolveInv == ASSUME IInv, ResolveCandidate PROVE IInv'
<1>1. /\ UNCHANGED files /\ pc = "resolve" /\ todo # << >>
      /\ todo \in Seq(Seq(Paths)) /\ version \in Version
      /\ Component = todo[1] /\ 1 \in DOMAIN todo
      /\ Component \in Seq(Paths)
      BY DEF ResolveCandidate, IInv, TypeOK, Component
<1>2. CASE Component = << >>
  <2>1. Hopeful(Component)
        BY <1>1 DEF IInv, TodoInv
  <2>2. \E need \in Needs: \A p \in need: Failed(p)
        BY <1>2, <2>1 DEF Hopeful, Elements
  <2>3. Return("TOOLKIT_COMPONENT_MISSING")
        BY <1>2 DEF ResolveCandidate
  <2> QED BY <1>1, <2>2, <2>3, Fails DEF Reasons
<1>3. CASE Component # << >>
  <2>1. Candidate \in Paths /\ tree.entry[Candidate] \in ever.entry[Candidate]
        BY <1>1, <1>3 DEF Candidate, IInv, SeenInv
  <2>2. CASE tree.entry[Candidate] \in {"missing", "denied"}
    <3>1. TryNext
          BY <1>3, <2>2 DEF ResolveCandidate
    <3>2. Failed(Candidate)
          BY <2>1, <2>2 DEF Failed
    <3> QED BY <1>1, <1>3, <3>1, <3>2, TryNextInv
  <2>3. CASE tree.entry[Candidate] = "loop"
    <3>1. Return("escaped")
          BY <1>3, <2>3 DEF ResolveCandidate
    <3> QED BY <1>1, <3>1, Fails DEF Reasons
  <2>4. CASE tree.entry[Candidate] \notin {"missing", "denied", "loop"}
    <3>1. pc' = "file" /\ UNCHANGED <<target, version, todo, outcome, ever>>
          BY <1>1, <1>3, <2>4 DEF ResolveCandidate, Go, files
    <3>2. Needs' = Needs
          BY <3>1 DEF Needs
    <3>3. KnownInv'
          BY <1>1, <3>1, <3>2 DEF IInv, KnownInv
    <3>4. TodoInv'
          BY <1>1, <3>1, <3>2 DEF IInv, TodoInv, Hopeful, Found, Failed
    <3>5. Head(todo') # << >>
          BY <1>3, <3>1 DEF Component
    <3> QED BY <1>1, <3>1, <3>3, <3>4, <3>5, Goes
  <2> QED BY <2>2, <2>3, <2>4
<1> QED BY <1>2, <1>3

\* A regular file is found: the need it is a candidate for is met.
LEMMA FoundInv ==
    ASSUME IInv, UNCHANGED files, pc = "file", tree.entry[Candidate] = "file",
           pc' = "resolve", todo' = Tail(todo), UNCHANGED <<target, version, outcome>>
    PROVE  IInv'
<1>1. /\ todo \in Seq(Seq(Paths)) /\ version \in Version /\ todo # << >>
      /\ Component # << >> /\ Component \in Seq(Paths)
      /\ UNCHANGED ever
      BY DEF IInv, TypeOK, Component, files
<1>2. Candidate \in Elements(Component) /\ Candidate \in Paths
      BY <1>1, ElementsOfTail DEF Candidate
<1>3. Found(Candidate)
      BY <1>2 DEF IInv, SeenInv, Found
<1>4. /\ Len(todo) \in Nat \ {0} /\ DOMAIN todo = 1..Len(todo)
      /\ todo' \in Seq(Seq(Paths))
      /\ DOMAIN todo' = 1..(Len(todo) - 1)
      /\ \A i \in 1..(Len(todo) - 1): todo'[i] = todo[i + 1]
      /\ Component = todo[1]
      BY <1>1 DEF Component
<1>5. Needs' = Needs
      BY DEF Needs
<1>6. /\ \A i \in DOMAIN todo: Hopeful(todo[i])
      /\ \A need \in Needs: \/ \E p \in need: Found(p)
                            \/ \E i \in DOMAIN todo: Elements(todo[i]) \subseteq need
      BY DEF IInv, TodoInv
<1>7. ASSUME NEW i \in DOMAIN todo' PROVE Hopeful(todo[i])'
  <2>1. i + 1 \in DOMAIN todo /\ todo'[i] = todo[i + 1]
        BY <1>4
  <2>2. Hopeful(todo'[i])
        BY <1>6, <2>1
  <2> QED BY <1>1, <1>5, <2>2 DEF Hopeful, Failed
<1>8. ASSUME NEW need \in Needs
      PROVE  (\E p \in need: Found(p)) \/ \E i \in DOMAIN todo': Elements(todo'[i]) \subseteq need
  <2>1. ASSUME NEW i \in DOMAIN todo, Elements(todo[i]) \subseteq need, i = 1
        PROVE  \E p \in need: Found(p)
        BY <1>2, <1>3, <1>4, <2>1
  <2>2. ASSUME NEW i \in DOMAIN todo, Elements(todo[i]) \subseteq need, i # 1
        PROVE  \E j \in DOMAIN todo': Elements(todo'[j]) \subseteq need
    <3>1. i - 1 \in DOMAIN todo' /\ todo'[i - 1] = todo[i]
          BY <1>4, <2>2
    <3> QED BY <2>2, <3>1
  <2> QED BY <1>6, <2>1, <2>2
<1>9. TodoInv'
      BY <1>1, <1>5, <1>7, <1>8 DEF TodoInv, Found
<1>10. KnownInv'
      BY <1>1, <1>5 DEF IInv, KnownInv
<1> QED BY <1>1, <1>4, <1>9, <1>10, Goes

LEMMA CheckFileInv == ASSUME IInv, CheckFile PROVE IInv'
<1>1. /\ UNCHANGED files /\ pc = "file"
      /\ todo # << >> /\ Component # << >>
      /\ Component \in Seq(Paths)
      BY DEF CheckFile, IInv, TypeOK, Component
<1>2. CASE tree.entry[Candidate] = "denied"
  <2>1. Return("escaped")
        BY <1>2 DEF CheckFile, Usable
  <2> QED BY <1>1, <2>1, Fails DEF Reasons
<1>3. CASE tree.entry[Candidate] = "file"
      BY <1>1, <1>3, FoundInv DEF CheckFile, Usable
<1>4. CASE tree.entry[Candidate] \notin {"denied", "file"}
  <2>1. TryNext
        BY <1>4 DEF CheckFile, Usable
  <2>2. Failed(Candidate)
        BY <1>1, <1>4 DEF IInv, SeenInv, Failed, Candidate
  <2> QED BY <1>1, <2>1, <2>2, TryNextInv
<1> QED BY <1>2, <1>3, <1>4

LEMMA ReportInv == ASSUME IInv, Report PROVE IInv'
<1>1. /\ UNCHANGED files /\ pc = "resolve" /\ todo = << >>
      /\ UNCHANGED ever
      BY DEF Report, files
<1>2. /\ "directory" \in ever.root
      /\ \E d \in ever.document: d.text = "version" /\ d.version = version
      /\ \E d \in ever.document: ~ d.large
      /\ Needs # {}
      /\ \A need \in Needs: \E p \in need: Found(p)
      BY <1>1 DEF IInv, KnownInv, TodoInv
<1>3. CASE Older(version, Floor)
  <2>1. Return("TOOLKIT_VERSION_TOO_OLD")
        BY <1>3 DEF Report
  <2> QED BY <1>1, <1>2, <1>3, <2>1, Fails DEF Reasons
<1>4. CASE ~ Older(version, Floor)
  <2>1. Return("report")
        BY <1>4 DEF Report
  <2>2. outcome' = "report" /\ UNCHANGED <<target, version>>
        BY <2>1 DEF Return
  <2>3. Needs' = Needs
        BY <2>2 DEF Needs
  <2>4. ReportWasThere'
        BY <1>1, <1>2, <1>4, <2>2, <2>3 DEF ReportWasThere, Found
  <2>5. FailureWasTrue'
        BY <2>2 DEF FailureWasTrue
  <2> QED BY <1>1, <2>1, <2>4, <2>5, Says
<1> QED BY <1>3, <1>4

LEMMA IInvNext == IInv /\ [Next]_vars => IInv'
<1> SUFFICES ASSUME IInv, [Next]_vars PROVE IInv'
    OBVIOUS
<1>1. CASE UNCHANGED vars
  <2>1. UNCHANGED <<target, pc, version, todo, outcome, tree, ever, changes>>
        BY <1>1 DEF vars, code, files
  <2>2. TypeOK' /\ SeenInv'
        BY <2>1 DEF IInv, TypeOK, Component, SeenInv
  <2>3. Needs' = Needs
        BY <2>1 DEF Needs
  <2>4. KnownInv' /\ TodoInv'
        BY <2>1, <2>3 DEF IInv, KnownInv, TodoInv, Hopeful, Found, Failed
  <2>5. ReportWasThere' /\ FailureWasTrue'
        BY <2>1, <2>3 DEF IInv, ReportWasThere, FailureWasTrue
  <2> QED BY <2>2, <2>4, <2>5 DEF IInv
<1> QED BY <1>1, ChangeInv, RootInv, VersionInv, ListInv, ResolveInv, CheckFileInv, ReportInv
        DEF Next, Inspect

LEMMA Invariance == Spec => []IInv
BY IInvInit, IInvNext, PTL DEF Spec

-----------------------------------------------------------------------------
\* Every variable always holds a value of its type.
THEOREM TypeCorrect == Spec => []TypeOK
<1>1. IInv => TypeOK
      BY DEF IInv
<1> QED BY <1>1, Invariance, PTL

\* Each fact of a report was seen below the root during the inspection.
THEOREM ReportedFacts == Spec => []ReportWasThere
<1>1. IInv => ReportWasThere
      BY DEF IInv
<1> QED BY <1>1, Invariance, PTL

\* Each reason of a failure was true during the inspection.
THEOREM TrueReasons == Spec => []FailureWasTrue
<1>1. IInv => FailureWasTrue
      BY DEF IInv
<1> QED BY <1>1, Invariance, PTL
=============================================================================
