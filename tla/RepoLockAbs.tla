---------------------------- MODULE RepoLockAbs ----------------------------
(***************************************************************************)
(* What the repository lock promises to its users: every OstreeRepo is     *)
(* unlocked, shared or exclusive; many may be shared at once; one that is  *)
(* exclusive is alone.  ostree-repo.c:167-204 describes this contract.     *)
(***************************************************************************)
CONSTANT Repos

VARIABLE mode          \* mode[r]: what the users of OstreeRepo r hold

Modes == {"UN", "SH", "EX"}

\* Two OstreeRepo structures may hold modes m and n at the same time.
Compatible(m, n) == m = "UN" \/ n = "UN" \/ (m = "SH" /\ n = "SH")

Init == mode = [r \in Repos |-> "UN"]

\* r goes to a mode that is compatible with what everyone else holds.
Change(r, m) ==
    /\ \A o \in Repos \ {r} : Compatible(m, mode[o])
    /\ mode' = [mode EXCEPT ![r] = m]

Next == \E r \in Repos, m \in Modes : Change(r, m)

Spec == Init /\ [][Next]_mode

\* An exclusive holder excludes every other holder.
Exclusion == \A r, o \in Repos : r # o => Compatible(mode[r], mode[o])
=============================================================================
