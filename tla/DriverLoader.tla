---------------------------- MODULE DriverLoader ----------------------------
(***************************************************************************)
(* DriverLibrary::load of crates/rextio-cuda-driver-loader.  On Linux the  *)
(* candidate paths are tried in order; each is looked at, resolved,        *)
(* checked and opened in separate system calls, while a driver may be      *)
(* installed, upgraded or removed.  On Windows one call does it all.       *)
(***************************************************************************)
EXTENDS Naturals

CONSTANTS
    NumCandidates,  \* length of CANDIDATES
    Images,         \* canonical paths below ROOTS that candidates may lead to
    Outside,        \* a canonical path that is not below ROOTS
    MaxChanges,     \* bound: changes of the file system during one load
    None            \* no path

ASSUME CandidatesAssumption == NumCandidates \in Nat \ {0}
ASSUME ImagesAssumption == Outside \notin Images /\ None \notin Images /\ None # Outside
ASSUME MaxChangesAssumption == MaxChanges \in Nat

Candidates == 1..NumCandidates

\* An image file: "writable" by its group or by others, "broken" is one that
\* dlopen refuses; and whether a directory above it is writable by them.
Files == {"gone", "writable", "broken", "sound"}
State == [file: Files, exposed: BOOLEAN]
Paths == Images \union {Outside, None}

VARIABLES
    platform,  \* the target the loader is compiled for
    at,        \* the next system call, "returned" at the end
    candidate, \* the candidate being tried
    found,     \* found: a candidate was there
    canonical, \* what the candidate resolved to
    result,    \* "none", "loaded" or the reason of a LoadError
    link,      \* environment: candidate -> where it leads, None if absent
    image,     \* environment: image -> its state
    linkEver, imageEver,  \* history: what they were since load was called
    changes    \* bound's counter

code == <<platform, at, candidate, found, canonical, result>>
files == <<link, image, linkEver, imageEver, changes>>
vars == <<code, files>>

Init ==
    /\ platform \in {"linux", "windows", "other"}
    /\ at = IF platform = "linux" THEN "look" ELSE "open"
    /\ candidate = 1 /\ found = FALSE /\ canonical = None /\ result = "none"
    /\ link \in [Candidates -> Paths]
    /\ image \in [Images -> State]
    /\ linkEver = [c \in Candidates |-> {link[c]}]
    /\ imageEver = [i \in Images |-> {image[i]}]
    /\ changes = 0

Return(r) == at' = "returned" /\ result' = r /\ UNCHANGED candidate
Go(next) == at' = next /\ UNCHANGED <<candidate, result>>

\* Seeded defects: the first failure is final; the loop runs past its end; it
\* begins again, waiting for a driver.
ContinueNot(there) == Return("LIBCUDA_SO_LOAD_FAILED")
ContinuePast(there) == at' = "look" /\ candidate' = candidate + 1 /\ UNCHANGED result
ContinueAround(there) ==
    at' = "look" /\ candidate' = (candidate % NumCandidates) + 1 /\ UNCHANGED result

\* continue: the next candidate, or the end of the loop.
Continue(there) ==
    IF candidate < NumCandidates
    THEN at' = "look" /\ candidate' = candidate + 1 /\ UNCHANGED result
    ELSE Return(IF there THEN "LIBCUDA_SO_LOAD_FAILED" ELSE "LIBCUDA_SO_NOT_FOUND")

\* Seeded defect: a candidate counts as found once it could be resolved.
Unnoted == found
\* symlink_metadata
Noted == TRUE

Look ==
    /\ at = "look"
    /\ IF link[candidate] = None
       THEN Continue(found) /\ UNCHANGED found
       ELSE Go("resolve") /\ found' = Noted
    /\ UNCHANGED <<platform, canonical, files>>

\* canonicalize: the path the later calls use, wherever the candidate leads then.
Resolve ==
    /\ at = "resolve"
    /\ LET path == link[candidate] IN
       IF path = None \/ (path \in Images /\ image[path].file = "gone")
       THEN Continue(found) /\ UNCHANGED canonical
       ELSE Go("file") /\ canonical' = path
    /\ UNCHANGED <<platform, found, files>>

\* acceptable: below ROOTS, a file that only its owner may write; then, one
\* metadata call after another, directories that only theirs may write.
CheckFile ==
    /\ at = "file"
    /\ IF canonical \in Images /\ image[canonical].file \in {"broken", "sound"}
       THEN Go("directories") ELSE Continue(found)
    /\ UNCHANGED <<platform, found, canonical, files>>

\* Seeded defect: only the file is checked.
AnyDirectories(state) == state.file # "gone"
Protected(state) == state.file # "gone" /\ ~ state.exposed

CheckDirectories ==
    /\ at = "directories"
    /\ IF Protected(image[canonical]) THEN Go("open") ELSE Continue(found)
    /\ UNCHANGED <<platform, found, canonical, files>>

Opens(path) == image[path].file \in {"writable", "sound"}

\* dlopen
Open ==
    /\ at = "open" /\ platform = "linux"
    /\ IF Opens(canonical) THEN Return("loaded") ELSE Continue(found)
    /\ UNCHANGED <<platform, found, canonical, files>>

\* LoadLibraryExW looks in System32 only; the first candidate stands for it.
OpenSystem32 ==
    /\ at = "open" /\ platform = "windows"
    /\ IF link[1] \in Images /\ Opens(link[1])
       THEN Return("loaded") ELSE Return("NVCUDA_DLL_NOT_FOUND")
    /\ UNCHANGED <<platform, found, canonical, files>>

Unsupported ==
    /\ at = "open" /\ platform = "other"
    /\ Return("UNSUPPORTED_TARGET")
    /\ UNCHANGED <<platform, found, canonical, files>>

\* A driver is installed, replaced or removed, or its permissions change.
Change ==
    /\ at # "returned" /\ changes < MaxChanges
    /\ \/ \E c \in Candidates: \E path \in Paths \ {link[c]}:
             link' = [link EXCEPT ![c] = path] /\ UNCHANGED image
       \/ \E i \in Images: \E state \in State \ {image[i]}:
             image' = [image EXCEPT ![i] = state] /\ UNCHANGED link
    /\ linkEver' = [c \in Candidates |-> linkEver[c] \union {link'[c]}]
    /\ imageEver' = [i \in Images |-> imageEver[i] \union {image'[i]}]
    /\ changes' = changes + 1
    /\ UNCHANGED code

Load ==
    \/ Look \/ Resolve \/ CheckFile \/ CheckDirectories \/ Open \/ OpenSystem32 \/ Unsupported

Next == Load \/ Change

\* A system call returns.
Spec == Init /\ [][Next]_vars /\ WF_vars(Load)

-----------------------------------------------------------------------------
\* The variables hold values of their types; the later system calls are made
\* only for a candidate that was there, with the path it was resolved to.
TypeOK ==
    /\ platform \in {"linux", "windows", "other"}
    /\ at \in {"look", "resolve", "file", "directories", "open", "returned"}
    /\ candidate \in Candidates
    /\ found \in BOOLEAN
    /\ canonical \in Paths
    /\ at \in {"look", "resolve", "file", "directories"} => platform = "linux"
    /\ at \in {"resolve", "file"} => found
    /\ at = "file" => canonical # None
    /\ at = "directories" \/ (at = "open" /\ platform = "linux") => found /\ canonical \in Images
    /\ result \in {"none", "loaded", "LIBCUDA_SO_LOAD_FAILED", "LIBCUDA_SO_NOT_FOUND",
                   "NVCUDA_DLL_NOT_FOUND", "UNSUPPORTED_TARGET"}
    /\ at = "returned" <=> result # "none"
    /\ link \in [Candidates -> Paths] /\ image \in [Images -> State]
    /\ changes \in 0..MaxChanges

\* The candidate was a sound and protected image since load was called.
UsableAllAlong(c) ==
    \E i \in Images:
        linkEver[c] = {i} /\ imageEver[i] = {[file |-> "sound", exposed |-> FALSE]}

\* Candidates are tried in order and none that fails hides a later one: a driver
\* that is usable all along is loaded, or one that comes before it.
FirstUsableWins ==
    platform = "linux" /\ at = "returned" =>
        \A c \in Candidates: UsableAllAlong(c) => result = "loaded" /\ candidate <= c

\* The image that was mapped is one that, at moments of this load, the candidate
\* led to, only its owner could write, no exposed directory held, and could be
\* opened.  The moments differ: of an image that changes, no more is known.
MappedWasReviewed ==
    platform = "linux" /\ result = "loaded" =>
        /\ canonical \in Images \intersect linkEver[candidate]
        /\ \E s \in imageEver[canonical]: s.file \in {"broken", "sound"}
        /\ \E s \in imageEver[canonical]: ~ s.exposed
        /\ \E s \in imageEver[canonical]: s.file \in {"writable", "sound"}

\* The reason of a failure was true: there was no driver at any of the places,
\* each at the moment it was looked at; or there was one and it was of no use.
ReasonWasTrue ==
    /\ result = "LIBCUDA_SO_NOT_FOUND" => \A c \in Candidates: None \in linkEver[c]
    /\ result = "LIBCUDA_SO_LOAD_FAILED" => \E c \in Candidates: linkEver[c] # {None}
    /\ result = "NVCUDA_DLL_NOT_FOUND" => ~ UsableAllAlong(1)

\* load returns, however the file system changes.
LoadReturns == <>(at = "returned")
=============================================================================
