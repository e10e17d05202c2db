-------------------------- MODULE DriverLoaderProofs --------------------------
(***************************************************************************)
(* Proofs about DriverLoader for every number of candidates and of images, *)
(* and every number of changes of the file system during a load.           *)
(***************************************************************************)
EXTENDS DriverLoader, TLAPS

-----------------------------------------------------------------------------
\* The history holds what is there now.
EverOK ==
    /\ linkEver \in [Candidates -> SUBSET Paths]
    /\ imageEver \in [Images -> SUBSET State]
    /\ \A c \in Candidates: link[c] \in linkEver[c]
    /\ \A i \in Images: image[i] \in imageEver[i]

\* No candidate that was given up was usable all along, and each of them was
\* absent at a moment, unless one was found.
Tried ==
    /\ \A c \in Candidates: c < candidate => ~ UsableAllAlong(c)
    /\ at = "returned" /\ result # "loaded" => \A c \in Candidates: ~ UsableAllAlong(c)
    /\ ~ found /\ at # "returned" => \A c \in Candidates: c < candidate => None \in linkEver[c]
    /\ found => \E c \in Candidates: linkEver[c] # {None}

\* What the system calls made for the current candidate have established.
Reviewed ==
    /\ at \in {"file", "directories", "open"} => canonical \in linkEver[candidate]
    /\ at \in {"directories", "open"} =>
          \E s \in imageEver[canonical]: s.file \in {"broken", "sound"}
    /\ at = "open" => \E s \in imageEver[canonical]: ~ s.exposed

\* The inductive invariant.
IInv ==
    /\ TypeOK /\ EverOK
    /\ platform = "linux" => Tried /\ Reviewed
    /\ MappedWasReviewed /\ ReasonWasTrue

\* A candidate that is usable all along leads to a sound and protected image, and
\* never led anywhere else.
LEMMA UsableNow ==
    ASSUME EverOK, NEW c \in Candidates, UsableAllAlong(c)
    PROVE  /\ link[c] \in Images
           /\ linkEver[c] = {link[c]}
           /\ image[link[c]].file = "sound" /\ ~ image[link[c]].exposed
<1>1. PICK i \in Images: linkEver[c] = {i} /\ imageEver[i] = {[file |-> "sound", exposed |-> FALSE]}
      BY DEF UsableAllAlong
<1>2. link[c] = i /\ image[i] = [file |-> "sound", exposed |-> FALSE]
      BY <1>1 DEF EverOK
<1> QED BY <1>1, <1>2

\* The step of the code that gives up a candidate keeps the invariant.
LEMMA ContinueInv ==
    ASSUME IInv, platform = "linux", at # "returned", Continue(found'),
           found' \in BOOLEAN, found => found',
           ~ found' => None \in linkEver[candidate],
           found' => \E c \in Candidates: linkEver[c] # {None},
           ~ UsableAllAlong(candidate),
           canonical' \in Paths, UNCHANGED <<platform, files>>
    PROVE  IInv'
<1>1. NumCandidates \in Nat /\ candidate \in 1..NumCandidates
      BY CandidatesAssumption DEF IInv, TypeOK, Candidates
<1>2. /\ Tried /\ TypeOK /\ EverOK /\ result = "none"
      BY DEF IInv, TypeOK
<1>3. EverOK'
      BY <1>2 DEF EverOK, files
<1>4. \A c \in Candidates: UsableAllAlong(c)' <=> UsableAllAlong(c)
      BY DEF UsableAllAlong, files
<1>5. CASE candidate < NumCandidates
  <2>1. at' = "look" /\ candidate' = candidate + 1 /\ result' = result
        BY <1>5 DEF Continue
  <2>2. candidate' \in Candidates
        BY <1>1, <1>5, <2>1 DEF Candidates
  <2>3. TypeOK'
        BY <1>2, <2>1, <2>2 DEF TypeOK, files
  <2>4. \A c \in Candidates: c < candidate' => c < candidate \/ c = candidate
        BY <1>1, <2>1 DEF Candidates
  <2>5. Tried'
        BY <1>2, <1>4, <2>1, <2>4 DEF Tried, files, TypeOK
  <2>6. Reviewed' /\ MappedWasReviewed' /\ ReasonWasTrue'
        BY <1>2, <2>1 DEF Reviewed, MappedWasReviewed, ReasonWasTrue
  <2> QED BY <1>3, <2>3, <2>5, <2>6 DEF IInv
<1>6. CASE ~ (candidate < NumCandidates)
  <2>1. /\ at' = "returned" /\ candidate' = candidate
        /\ result' = IF found' THEN "LIBCUDA_SO_LOAD_FAILED" ELSE "LIBCUDA_SO_NOT_FOUND"
        BY <1>6 DEF Continue, Return
  <2>2. TypeOK'
        BY <1>2, <2>1 DEF TypeOK, files
  <2>3. \A c \in Candidates: c < candidate \/ c = candidate
        BY <1>1, <1>6 DEF Candidates
  <2>4. Tried'
        BY <1>2, <1>4, <2>1, <2>3 DEF Tried, files
  <2>5. ~ found' => \A c \in Candidates: None \in linkEver'[c]
        BY <1>2, <2>3 DEF Tried, files
  <2>6. Reviewed' /\ MappedWasReviewed' /\ ReasonWasTrue'
        BY <2>1, <2>4, <2>5 DEF Reviewed, MappedWasReviewed, ReasonWasTrue, Tried
  <2> QED BY <1>3, <2>2, <2>4, <2>6 DEF IInv
<1> QED BY <1>5, <1>6

LEMMA InitInv == Init => IInv
<1> SUFFICES ASSUME Init PROVE IInv
    OBVIOUS
<1>1. 1 \in Candidates /\ \A c \in Candidates: ~ (c < 1)
      BY CandidatesAssumption DEF Candidates
<1>2. None \in Paths
      BY DEF Paths
<1>3. TypeOK
  <2>1. 0 \in 0..MaxChanges
        BY MaxChangesAssumption
  <2>2. \/ platform = "linux" /\ at = "look"
        \/ platform \in {"windows", "other"} /\ at = "open"
        BY DEF Init
  <2> QED BY <1>1, <1>2, <2>1, <2>2 DEF Init, TypeOK
<1>4. EverOK
      BY DEF Init, EverOK
<1>5. platform = "linux" => Tried /\ Reviewed
      BY <1>1 DEF Init, Tried, Reviewed
<1> QED BY <1>3, <1>4, <1>5 DEF Init, IInv, MappedWasReviewed, ReasonWasTrue

LEMMA LookInv == ASSUME IInv, Look PROVE IInv'
<1>1. /\ platform = "linux" /\ at = "look" /\ TypeOK /\ EverOK /\ Tried /\ result = "none"
      /\ candidate \in Candidates /\ canonical \in Paths
      BY DEF IInv, TypeOK, Look
<1>2. CASE link[candidate] = None
  <2>1. ~ UsableAllAlong(candidate)
        BY <1>1, <1>2, UsableNow, ImagesAssumption
  <2> QED BY <1>1, <1>2, <2>1, ContinueInv DEF Look, TypeOK, Tried, EverOK
<1>3. CASE link[candidate] # None
  <2>1. at' = "resolve" /\ found' = TRUE /\ UNCHANGED <<platform, canonical, candidate, result, files>>
        BY <1>3 DEF Look, Go, Noted
  <2>2. TypeOK' /\ EverOK'
        BY <1>1, <2>1 DEF TypeOK, EverOK, files
  <2>3. linkEver[candidate] # {None}
        BY <1>1, <1>3 DEF EverOK
  <2>4. Tried' /\ Reviewed'
        BY <1>1, <2>1, <2>3 DEF Tried, Reviewed, UsableAllAlong, files
  <2> QED BY <1>1, <2>1, <2>2, <2>4 DEF IInv, MappedWasReviewed, ReasonWasTrue
<1> QED BY <1>2, <1>3

LEMMA ResolveInv == ASSUME IInv, Resolve PROVE IInv'
<1>1. /\ platform = "linux" /\ at = "resolve" /\ TypeOK /\ EverOK /\ Tried /\ result = "none"
      /\ candidate \in Candidates /\ canonical \in Paths /\ found = TRUE /\ link[candidate] \in Paths
      BY DEF IInv, TypeOK, Resolve
<1> DEFINE path == link[candidate]
<1>2. CASE path = None \/ (path \in Images /\ image[path].file = "gone")
  <2>1. ~ UsableAllAlong(candidate)
        BY <1>1, <1>2, UsableNow, ImagesAssumption
  <2> QED BY <1>1, <1>2, <2>1, ContinueInv DEF Resolve, Tried
<1>3. CASE ~ (path = None \/ (path \in Images /\ image[path].file = "gone"))
  <2>1. /\ at' = "file" /\ canonical' = path
        /\ UNCHANGED <<platform, found, candidate, result, files>>
        BY <1>3 DEF Resolve, Go
  <2>2. TypeOK' /\ EverOK'
        BY <1>1, <1>3, <2>1 DEF TypeOK, EverOK, files
  <2>3. Tried' /\ Reviewed'
        BY <1>1, <2>1 DEF Tried, Reviewed, UsableAllAlong, EverOK, files
  <2> QED BY <1>1, <2>1, <2>2, <2>3 DEF IInv, MappedWasReviewed, ReasonWasTrue
<1> QED BY <1>2, <1>3

LEMMA CheckFileInv == ASSUME IInv, CheckFile PROVE IInv'
<1>1. /\ platform = "linux" /\ at = "file" /\ TypeOK /\ EverOK /\ Tried /\ Reviewed
      /\ result = "none" /\ candidate \in Candidates /\ canonical \in Paths /\ found = TRUE
      BY DEF IInv, TypeOK, CheckFile
<1> DEFINE good == canonical \in Images /\ image[canonical].file \in {"broken", "sound"}
<1>2. CASE ~ good
  <2>1. ~ UsableAllAlong(candidate)
        BY <1>1, <1>2, UsableNow DEF Reviewed
  <2> QED BY <1>1, <1>2, <2>1, ContinueInv DEF CheckFile, Tried
<1>3. CASE good
  <2>1. at' = "directories" /\ UNCHANGED <<platform, found, canonical, candidate, result, files>>
        BY <1>3 DEF CheckFile, Go
  <2>2. TypeOK' /\ EverOK'
        BY <1>1, <1>3, <2>1 DEF TypeOK, EverOK, files
  <2>3. Tried' /\ Reviewed'
        BY <1>1, <1>3, <2>1 DEF Tried, Reviewed, UsableAllAlong, EverOK, files
  <2> QED BY <1>1, <2>1, <2>2, <2>3 DEF IInv, MappedWasReviewed, ReasonWasTrue
<1> QED BY <1>2, <1>3

LEMMA CheckDirectoriesInv == ASSUME IInv, CheckDirectories PROVE IInv'
<1>1. /\ platform = "linux" /\ at = "directories" /\ TypeOK /\ EverOK /\ Tried /\ Reviewed
      /\ result = "none" /\ candidate \in Candidates /\ canonical \in Images /\ found = TRUE
      /\ canonical \in Paths
      BY DEF IInv, TypeOK, CheckDirectories
<1>2. CASE ~ Protected(image[canonical])
  <2>1. ~ UsableAllAlong(candidate)
        BY <1>1, <1>2, UsableNow DEF Reviewed, Protected
  <2> QED BY <1>1, <1>2, <2>1, ContinueInv DEF CheckDirectories, Tried
<1>3. CASE Protected(image[canonical])
  <2>1. at' = "open" /\ UNCHANGED <<platform, found, canonical, candidate, result, files>>
        BY <1>3 DEF CheckDirectories, Go
  <2>2. TypeOK' /\ EverOK'
        BY <1>1, <2>1 DEF TypeOK, EverOK, files
  <2>3. Tried' /\ Reviewed'
        BY <1>1, <1>3, <2>1 DEF Tried, Reviewed, UsableAllAlong, EverOK, Protected, files
  <2> QED BY <1>1, <2>1, <2>2, <2>3 DEF IInv, MappedWasReviewed, ReasonWasTrue
<1> QED BY <1>2, <1>3

LEMMA OpenInv == ASSUME IInv, Open PROVE IInv'
<1>1. /\ platform = "linux" /\ at = "open" /\ TypeOK /\ EverOK /\ Tried /\ Reviewed
      /\ result = "none" /\ candidate \in Candidates /\ canonical \in Images
      /\ canonical \in Paths /\ found \in BOOLEAN
      BY DEF IInv, TypeOK, Open
<1>2. linkEver[candidate] # {None}
      BY <1>1, ImagesAssumption DEF Reviewed
<1>3. CASE ~ Opens(canonical)
  <2>1. ~ UsableAllAlong(candidate)
        BY <1>1, <1>3, UsableNow DEF Reviewed, Opens
  <2>2. found
        BY <1>1 DEF TypeOK
  <2> QED BY <1>1, <1>2, <1>3, <2>1, <2>2, ContinueInv DEF Open
<1>4. CASE Opens(canonical)
  <2>1. /\ at' = "returned" /\ result' = "loaded"
        /\ UNCHANGED <<platform, found, canonical, candidate, files>>
        BY <1>4 DEF Open, Return
  <2>2. TypeOK' /\ EverOK'
        BY <1>1, <2>1 DEF TypeOK, EverOK, files
  <2>3. Tried' /\ Reviewed'
        BY <1>1, <2>1 DEF Tried, Reviewed, UsableAllAlong, files
  <2>4. MappedWasReviewed'
        BY <1>1, <1>4, <2>1 DEF MappedWasReviewed, Reviewed, Opens, EverOK, files
  <2> QED BY <2>1, <2>2, <2>3, <2>4 DEF IInv, ReasonWasTrue
<1> QED BY <1>3, <1>4

\* The other platforms: one call, whose result says all.
LEMMA OtherInv == ASSUME IInv, OpenSystem32 \/ Unsupported PROVE IInv'
<1>1. /\ platform # "linux" /\ at = "open" /\ at' = "returned"
      /\ UNCHANGED <<platform, found, canonical, candidate, files>>
      /\ result' \in {"loaded", "NVCUDA_DLL_NOT_FOUND", "UNSUPPORTED_TARGET"}
      BY DEF OpenSystem32, Unsupported, Return
<1>2. TypeOK' /\ EverOK'
      BY <1>1 DEF IInv, TypeOK, EverOK, files
<1>3. 1 \in Candidates
      BY CandidatesAssumption DEF Candidates
<1>4. result' = "NVCUDA_DLL_NOT_FOUND" => ~ (link[1] \in Images /\ Opens(link[1]))
      BY DEF OpenSystem32, Unsupported, Return
<1>5. result' = "NVCUDA_DLL_NOT_FOUND" => ~ UsableAllAlong(1)
      BY <1>3, <1>4, UsableNow DEF IInv, Opens
<1> QED BY <1>1, <1>2, <1>5 DEF IInv, MappedWasReviewed, ReasonWasTrue, UsableAllAlong, files

\* What was true at a moment of the load stays so, and what was true all along
\* at the end was so before.
LEMMA ChangeInv == ASSUME IInv, Change PROVE IInv'
<1>1. TypeOK /\ EverOK /\ at # "returned" /\ result = "none" /\ UNCHANGED code
      BY DEF IInv, TypeOK, Change
<1>2. link' \in [Candidates -> Paths] /\ image' \in [Images -> State]
      BY <1>1 DEF TypeOK, Change
<1>3. changes' \in 0..MaxChanges
      BY <1>1, MaxChangesAssumption DEF TypeOK, Change
<1>4. TypeOK'
      BY <1>1, <1>2, <1>3 DEF TypeOK, code
<1>5. /\ linkEver' = [c \in Candidates |-> linkEver[c] \union {link'[c]}]
      /\ imageEver' = [i \in Images |-> imageEver[i] \union {image'[i]}]
      BY DEF Change
<1>6. EverOK'
      BY <1>1, <1>2, <1>5 DEF EverOK
<1>7. \A c \in Candidates: linkEver[c] \subseteq linkEver'[c] /\ linkEver[c] # {}
      BY <1>1, <1>5 DEF EverOK
<1>8. \A i \in Images: imageEver[i] \subseteq imageEver'[i] /\ imageEver[i] # {}
      BY <1>1, <1>5 DEF EverOK
<1>9. \A c \in Candidates: UsableAllAlong(c)' => UsableAllAlong(c)
  <2> SUFFICES ASSUME NEW c \in Candidates, UsableAllAlong(c)' PROVE UsableAllAlong(c)
      OBVIOUS
  <2> DEFINE usable == [file |-> "sound", exposed |-> FALSE]
  <2>1. PICK i \in Images: linkEver'[c] = {i} /\ imageEver'[i] = {usable}
        BY DEF UsableAllAlong
  <2> HIDE DEF usable
  <2>2. linkEver[c] = {i} /\ imageEver[i] = {usable}
        BY <1>7, <1>8, <2>1
  <2> QED BY <2>2 DEF UsableAllAlong, usable
<1>10. platform = "linux" => Tried'
  <2> SUFFICES ASSUME platform = "linux" PROVE Tried'
      OBVIOUS
  <2>1. Tried
        BY DEF IInv
  <2>2. found => \E c \in Candidates: linkEver'[c] # {None}
    <3> SUFFICES ASSUME found PROVE \E c \in Candidates: linkEver'[c] # {None}
        OBVIOUS
    <3>1. PICK c \in Candidates: linkEver[c] # {None}
          BY <2>1 DEF Tried
    <3>2. linkEver'[c] # {None}
          BY <1>7, <3>1
    <3> QED BY <3>2
  <2> QED BY <1>1, <1>7, <1>9, <2>1, <2>2 DEF Tried, code
<1>11. platform = "linux" => Reviewed'
  <2> SUFFICES ASSUME platform = "linux" PROVE Reviewed'
      OBVIOUS
  <2>1. Reviewed
        BY DEF IInv
  <2>2. at \in {"directories", "open"} => canonical \in Images
        BY <1>1 DEF TypeOK
  <2>3. candidate \in Candidates
        BY <1>1 DEF TypeOK
  <2> QED BY <1>1, <1>7, <1>8, <2>1, <2>2, <2>3 DEF Reviewed, code
<1>12. MappedWasReviewed' /\ ReasonWasTrue'
      BY <1>1 DEF MappedWasReviewed, ReasonWasTrue, code
<1> QED BY <1>1, <1>4, <1>6, <1>10, <1>11, <1>12 DEF IInv, code

LEMMA StutterInv == ASSUME IInv, UNCHANGED vars PROVE IInv'
BY DEF IInv, TypeOK, EverOK, Tried, Reviewed, MappedWasReviewed, ReasonWasTrue,
       UsableAllAlong, vars, code, files

LEMMA Inductive == Spec => []IInv
<1>1. IInv /\ [Next]_vars => IInv'
      BY LookInv, ResolveInv, CheckFileInv, CheckDirectoriesInv, OpenInv, OtherInv, ChangeInv,
         StutterInv DEF Next, Load
<1> QED BY InitInv, <1>1, PTL DEF Spec

-----------------------------------------------------------------------------
\* The variables of the loader hold values of their types, and each system call
\* of load() is made only for a candidate that passed the ones before.
THEOREM TypeCorrect == Spec => []TypeOK
<1>1. IInv => TypeOK
      BY DEF IInv
<1> QED BY Inductive, <1>1, PTL

\* Candidates are tried in order and none that fails hides a later one, for any
\* list of candidates: a usable driver is loaded, or one before it.
THEOREM FirstUsable == Spec => []FirstUsableWins
<1>1. IInv => FirstUsableWins
  <2> SUFFICES ASSUME IInv, platform = "linux", at = "returned",
                      NEW c \in Candidates, UsableAllAlong(c)
               PROVE  result = "loaded" /\ candidate <= c
      BY DEF FirstUsableWins
  <2>1. result = "loaded" /\ ~ (c < candidate)
        BY DEF IInv, Tried
  <2>2. c \in Nat /\ candidate \in Nat
        BY CandidatesAssumption DEF IInv, TypeOK, Candidates
  <2> QED BY <2>1, <2>2
<1> QED BY Inductive, <1>1, PTL

\* The image that load() maps passed acceptable() during this load, whatever
\* happened to the files between its system calls.
THEOREM MappedImage == Spec => []MappedWasReviewed
<1>1. IInv => MappedWasReviewed
      BY DEF IInv
<1> QED BY Inductive, <1>1, PTL

\* The reason code of a LoadError was true.
THEOREM TrueReason == Spec => []ReasonWasTrue
<1>1. IInv => ReasonWasTrue
      BY DEF IInv
<1> QED BY Inductive, <1>1, PTL
===============================================================================
