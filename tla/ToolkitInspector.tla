-------------------------- MODULE ToolkitInspector --------------------------
(***************************************************************************)
(* FilesystemToolkitInspector.inspect (probe.py): one pass over a toolkit  *)
(* directory, a step for each time it looks at the file system, while a    *)
(* package manager may install, upgrade or remove what it looks at.        *)
(***************************************************************************)
EXTENDS Naturals, Sequences

CONSTANTS
    Trees,      \* the directories an inspection may begin with
    Documents,  \* what version.json may hold
    MaxChanges  \* bound: changes of the tree while it is inspected

Version == (0..99) \X (0..99)
\* Python's < on pairs.
Older(v, w) == v[1] < w[1] \/ (v[1] = w[1] /\ v[2] < w[2])
Floor == <<12, 0>>      \* CUDA_TOOLKIT_RUNTIME_VERSION_FLOOR

NoVersion == <<0, 0>>

\* version.json.  json.loads raises a JSONDecodeError for "malformed" text, and
\* for "extreme" text, an integer of 5000 digits or 10000 brackets, another
\* exception; the version in "odd" text does not match _VERSION_PATTERN.
Text == {"missing", "malformed", "extreme", "odd", "version"}
Document == [large: BOOLEAN, text: Text, version: Version]
Absent == [large |-> FALSE, text |-> "missing", version |-> NoVersion]

\* The paths inspect looks at, below the root.
Paths == {"cuda.h", "cudart.lib", "cudart64_11.dll", "cudart64_12.dll",
          "lib64/libcudart.so", "x86_64-linux/libcudart.so", "aarch64-linux/libcudart.so"}

\* What a path leads to: "outside" is a file beyond the root, "loop" a link
\* that never arrives, "denied" below a directory that must not be searched.
Plain == {"missing", "denied", "directory", "file"}
Entries == Plain \union {"outside", "loop"}

Tree == [root: {"relative", "missing", "loop", "file", "directory"},
         document: Document,
         entry: [Paths -> Entries]]

\* Without its root there is nothing in a tree.
NoTree(kind) == [root |-> kind, document |-> Absent, entry |-> [p \in Paths |-> "missing"]]

ASSUME TreesAssumption ==
    /\ Documents \subseteq Document /\ Absent \in Documents
    /\ \A t \in Trees: /\ t \in Tree /\ t.document \in Documents
                       /\ t.root # "directory" => t = NoTree(t.root)

ASSUME MaxChangesAssumption == MaxChanges \in Nat

Triples == {"x86_64-linux", "aarch64-linux", "windows", "unsupported"}

-----------------------------------------------------------------------------
VARIABLES
    target,   \* target_triple
    pc,       \* what inspect looks at next, "returned" at the end
    version,  \* what _read_version returned
    todo,     \* components still to find, each with the candidates still to try
    outcome,  \* the report, the reason of a CudaProbeError, or "escaped"
    tree,     \* environment: the file system
    ever,     \* history: what each part of it was since the call
    changes   \* bound's counter

code == <<target, pc, version, todo, outcome>>
files == <<tree, ever, changes>>
vars == <<code, files>>

None == "none"

Init ==
    /\ target \in Triples
    /\ pc = "root" /\ version = NoVersion /\ todo = << >> /\ outcome = None
    /\ tree \in Trees
    /\ ever = [root |-> {tree.root}, document |-> {tree.document},
               entry |-> [p \in Paths |-> {tree.entry[p]}]]
    /\ changes = 0

\* Seeded defect: the failure is noticed and not raised.
ReturnNothing(o) == pc' = "returned" /\ UNCHANGED <<target, version, todo, outcome>>
\* The report is returned, or an exception leaves inspect.
Return(o) == pc' = "returned" /\ outcome' = o /\ UNCHANGED <<target, version, todo>>
Go(next) == pc' = next /\ UNCHANGED <<target, version, todo, outcome>>

\* is_absolute, and resolve(strict=True), whose RuntimeError for a loop of
\* links is no OSError before Python 3.13.
ResolveRoot ==
    /\ pc = "root"
    /\ CASE tree.root = "relative" -> Return("TOOLKIT_PATH_NOT_ABSOLUTE")
         [] tree.root = "missing" -> Return("TOOLKIT_NOT_FOUND")
         [] tree.root = "loop" -> Return("escaped")
         [] OTHER -> Go("directory")
    /\ UNCHANGED files

CheckRoot ==
    /\ pc = "directory"
    /\ IF tree.root = "directory" THEN Go("size") ELSE Return("TOOLKIT_NOT_FOUND")
    /\ UNCHANGED files

\* _read_version: stat, then read_text.  Both follow a link wherever it leads:
\* unlike a candidate, version.json is not required to lie inside the root, and a
\* document stands for what is read, of a file within the root or beyond it.
StatVersion ==
    /\ pc = "size"
    /\ IF tree.document.text = "missing" THEN Return("TOOLKIT_VERSION_UNAVAILABLE")
       ELSE IF tree.document.large THEN Return("TOOLKIT_VERSION_INVALID")
       ELSE Go("text")
    /\ UNCHANGED files

ReadVersion ==
    /\ pc = "text"
    /\ CASE tree.document.text \in {"missing", "malformed"} -> Return("TOOLKIT_VERSION_UNAVAILABLE")
         [] tree.document.text = "extreme" -> Return("escaped")
         [] tree.document.text = "odd" -> Return("TOOLKIT_VERSION_INVALID")
         [] OTHER -> /\ pc' = "list" /\ version' = tree.document.version
                     /\ UNCHANGED <<target, todo, outcome>>
    /\ UNCHANGED files

\* glob, sorted: the libraries of the toolkit's bin directory.
Listed(p) == IF tree.entry[p] \in {"missing", "denied"} THEN << >> ELSE <<p>>
RuntimeDlls == Listed("cudart64_11.dll") \o Listed("cudart64_12.dll")

\* Seeded defect: the path of one architecture for both.
CandidatesOfX86 ==
    IF target = "windows" THEN << <<"cuda.h">>, RuntimeDlls, <<"cudart.lib">> >>
    ELSE << <<"cuda.h">>, <<"lib64/libcudart.so", "x86_64-linux/libcudart.so">> >>
\* The components a target needs, in order, and the paths that would do.
Candidates ==
    CASE target = "windows" -> << <<"cuda.h">>, RuntimeDlls, <<"cudart.lib">> >>
      [] target = "x86_64-linux" ->
            << <<"cuda.h">>, <<"lib64/libcudart.so", "x86_64-linux/libcudart.so">> >>
      [] target = "aarch64-linux" ->
            << <<"cuda.h">>, <<"lib64/libcudart.so", "aarch64-linux/libcudart.so">> >>

ListCandidates ==
    /\ pc = "list"
    /\ IF target = "unsupported" THEN Return("UNSUPPORTED_TARGET")
       ELSE /\ pc' = "resolve" /\ todo' = Candidates
            /\ UNCHANGED <<target, version, outcome>>
    /\ UNCHANGED files

Component == Head(todo)
Candidate == Head(Component)

\* Seeded defect: a component whose first candidate fails is given up.
GiveUp == /\ pc' = "resolve" /\ todo' = << << >> >> \o Tail(todo)
          /\ UNCHANGED <<target, version, outcome>>
\* Seeded defect: the same candidate again, until it is there.
TryAgain == pc' = "resolve" /\ UNCHANGED <<target, version, todo, outcome>>
\* continue: the next candidate of the component.
TryNext == /\ pc' = "resolve" /\ todo' = <<Tail(Component)>> \o Tail(todo)
           /\ UNCHANGED <<target, version, outcome>>

ResolveCandidate ==
    /\ pc = "resolve" /\ todo # << >>
    /\ IF Component = << >> THEN Return("TOOLKIT_COMPONENT_MISSING")
       ELSE CASE tree.entry[Candidate] \in {"missing", "denied"} -> TryNext
              [] tree.entry[Candidate] = "loop" -> Return("escaped")
              [] OTHER -> Go("file")
    /\ UNCHANGED files

\* Seeded defect: existing is enough.
UsableIfThere(kind) == kind # "missing"
\* resolved.is_file() and _inside_root.
Usable(kind) == kind = "file"

\* is_file raises the PermissionError of a directory that was closed meanwhile.
CheckFile ==
    /\ pc = "file"
    /\ CASE tree.entry[Candidate] = "denied" -> Return("escaped")
         [] Usable(tree.entry[Candidate]) -> /\ pc' = "resolve" /\ todo' = Tail(todo)
                                             /\ UNCHANGED <<target, version, outcome>>
         [] OTHER -> TryNext
    /\ UNCHANGED files

\* CudaToolkitReport: the pairs it compares have the same version twice here.
Report ==
    /\ pc = "resolve" /\ todo = << >>
    /\ Return(IF Older(version, Floor) THEN "TOOLKIT_VERSION_TOO_OLD" ELSE "report")
    /\ UNCHANGED files

\* A file or a directory comes or goes, or is opened or closed to this user;
\* version.json is rewritten; the toolkit is removed.  Links stay as they are.
NextTrees ==
    LET plain == {p \in Paths: tree.entry[p] \in Plain} IN
    {NoTree("missing")}
        \union {[tree EXCEPT !.document = d] : d \in Documents}
        \union {[tree EXCEPT !.entry[p] = kind] : p \in plain, kind \in Plain}

Change ==
    /\ pc # "returned" /\ changes < MaxChanges
    /\ tree.root = "directory"
    /\ \E t \in NextTrees \ {tree}:
          /\ tree' = t
          /\ ever' = [root |-> ever.root \union {t.root},
                      document |-> ever.document \union {t.document},
                      entry |-> [p \in Paths |-> ever.entry[p] \union {t.entry[p]}]]
    /\ changes' = changes + 1
    /\ UNCHANGED code

Inspect ==
    \/ ResolveRoot \/ CheckRoot \/ StatVersion \/ ReadVersion \/ ListCandidates
    \/ ResolveCandidate \/ CheckFile \/ Report

Next == Inspect \/ Change

\* Looking at a file returns.
Spec == Init /\ [][Next]_vars /\ WF_vars(Inspect)

-----------------------------------------------------------------------------
Reasons == {"TOOLKIT_PATH_NOT_ABSOLUTE", "TOOLKIT_NOT_FOUND", "TOOLKIT_VERSION_UNAVAILABLE",
            "TOOLKIT_VERSION_INVALID", "TOOLKIT_VERSION_TOO_OLD", "UNSUPPORTED_TARGET",
            "TOOLKIT_COMPONENT_MISSING"}

\* The variables hold values of their types; what is still to be found are
\* paths below the root, and a path is only checked while there is one.
TypeOK ==
    /\ target \in Triples
    /\ pc \in {"root", "directory", "size", "text", "list", "resolve", "file", "returned"}
    /\ version \in Version
    /\ todo \in Seq(Seq(Paths))
    /\ pc = "file" => todo # << >> /\ Component # << >>
    /\ outcome \in Reasons \union {None, "report", "escaped"}
    /\ pc = "returned" <=> outcome # None
    /\ tree \in Tree /\ tree.document \in Documents
    /\ changes \in 0..MaxChanges

\* What would do as a target's components: for each, one of these paths.
Needs ==
    CASE target = "windows" -> {{"cuda.h"}, {"cudart.lib"}, {"cudart64_11.dll", "cudart64_12.dll"}}
      [] target = "x86_64-linux" ->
            {{"cuda.h"}, {"lib64/libcudart.so", "x86_64-linux/libcudart.so"}}
      [] target = "aarch64-linux" ->
            {{"cuda.h"}, {"lib64/libcudart.so", "aarch64-linux/libcudart.so"}}
      [] OTHER -> {}

\* Each fact of a report held below the root at some moment of the inspection:
\* the version, in a file whose size had been checked, at or above the floor,
\* and for every component of this target a regular file.  The moments differ.
ReportWasThere ==
    outcome = "report" =>
        /\ "directory" \in ever.root
        /\ \E d \in ever.document: d.text = "version" /\ d.version = version
        /\ \E d \in ever.document: ~ d.large
        /\ ~ Older(version, Floor)
        /\ Needs # {}
        /\ \A need \in Needs: \E p \in need: "file" \in ever.entry[p]

\* The reason of a failure was true at some moment of the inspection.  So a tree
\* that has all it takes, all along, is never refused: a broken first candidate
\* does not hide a good second one.
FailureWasTrue ==
    /\ outcome = "TOOLKIT_NOT_FOUND" => ever.root # {"directory"}
    /\ outcome = "TOOLKIT_PATH_NOT_ABSOLUTE" => "relative" \in ever.root
    /\ outcome = "TOOLKIT_VERSION_UNAVAILABLE" =>
          \E d \in ever.document: d.text \in {"missing", "malformed"}
    /\ outcome = "TOOLKIT_VERSION_INVALID" => \E d \in ever.document: d.large \/ d.text = "odd"
    /\ outcome = "TOOLKIT_VERSION_TOO_OLD" =>
          \E d \in ever.document: d.text = "version" /\ Older(d.version, Floor)
    /\ outcome = "UNSUPPORTED_TARGET" => Needs = {}
    /\ outcome = "TOOLKIT_COMPONENT_MISSING" =>
          \E need \in Needs: \A p \in need: ever.entry[p] # {"file"}

\* Every inspection ends.
InspectionEnds == <>(pc = "returned")

\* ToolkitInspector.inspect, "Return bounded toolkit facts or raise
\* ``CudaProbeError``."
RaisesOnlyProbeErrors == outcome # "escaped"
=============================================================================
