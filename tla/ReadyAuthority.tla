--------------------------- MODULE ReadyAuthority ---------------------------
(***************************************************************************)
(* What the provider promises about build authority, without threads,      *)
(* probes or locks.  CHANGELOG.md: a repeated preflight first invalidates  *)
(* the ready fingerprint, and only the newest successful preflight of that *)
(* fingerprint may restore contribution authority.                         *)
(***************************************************************************)
EXTENDS Naturals

CONSTANT Fingerprints

VARIABLES
    newest,   \* fingerprint -> number of attempts begun
    passed,   \* the attempts <<fingerprint, number>> whose checks succeeded
    holder    \* fingerprint -> attempt that holds authority, 0 when none does

avars == <<newest, passed, holder>>

AInit ==
    /\ newest = [f \in Fingerprints |-> 0]
    /\ passed = {}
    /\ holder = [f \in Fingerprints |-> 0]

\* A new attempt takes the authority away from every earlier one.
Attempt(f) ==
    /\ newest' = [newest EXCEPT ![f] = @ + 1]
    /\ holder' = [holder EXCEPT ![f] = 0]
    /\ UNCHANGED passed

\* The checks of an attempt, the newest or an older one, succeed.
Pass(f) ==
    \E g \in 1..newest[f]:
        /\ passed' = passed \union {<<f, g>>}
        /\ UNCHANGED <<newest, holder>>

\* Only the newest attempt is ever granted authority, and only once it passed.
Grant(f) ==
    /\ <<f, newest[f]>> \in passed
    /\ holder' = [holder EXCEPT ![f] = newest[f]]
    /\ UNCHANGED <<newest, passed>>

ANext == \E f \in Fingerprints: Attempt(f) \/ Pass(f) \/ Grant(f)

ASpec == AInit /\ [][ANext]_avars
=============================================================================
