--------------------------- MODULE StagingProofs ---------------------------
(***************************************************************************)
(* Staging directories are exclusive, and stay while they are used, for    *)
(* any number of processes and of directories, and whichever lock files    *)
(* grow old, but for the directories whose lock file the cleanup took from *)
(* a holder.                                                               *)
(***************************************************************************)
EXTENDS Staging, TLAPS

\* The names of processes are no marks of a lock file.
StagingConstants ==
  /\ OldDirs \subseteq StageDirs
  /\ None \notin Actors /\ "free" \notin Actors

Steps == {"idle", "reuse", "mkdtemp", "locknew", "txn", "release", "cleanup", "expire", "rmrf", "unlock"}

TmpType == [dir : SUBSET StageDirs, file : [StageDirs -> Actors \cup {None, "free"}],
            old : SUBSET StageDirs, expired : SUBSET StageDirs]
ActorType == [pc : Steps, dir : StageDirs \cup {None}, tried : SUBSET StageDirs,
              lowspace : BOOLEAN, aborts : BOOLEAN]

StagingTypeOK == tmp \in TmpType /\ actor \in [Actors -> ActorType]

\* What a process may rely on where it stands: in a transaction, and where it
\* removes or unlocks a directory, it holds the lock file that has the name now,
\* and a transaction's directory is there, unless the lock file was expired.
ActorInv(a) ==
  LET p == actor[a]
  IN  /\ p.pc \in {"reuse", "locknew", "txn", "release", "expire", "rmrf", "unlock"} => p.dir \in StageDirs
      /\ p.pc \in {"txn", "release", "rmrf", "unlock"} /\ p.dir \notin tmp.expired => tmp.file[p.dir] = a
      /\ p.pc = "txn" /\ p.dir \notin tmp.expired => p.dir \in tmp.dir

IInv == StagingTypeOK /\ \A a \in Actors : ActorInv(a)

-----------------------------------------------------------------------------
\* At the start no process does anything.
LEMMA InitIInv == StagingConstants /\ StagingInit => IInv
  BY DEF StagingConstants, StagingInit, IInv, StagingTypeOK, TmpType, ActorType,
     ActorInv, Resting, Steps

\* A step of process a leaves the lock files the others hold, and the
\* directories they are for, but for the expired ones.
Undisturbed(a) ==
  /\ tmp' \in TmpType /\ tmp.expired \subseteq tmp'.expired
  /\ \A b \in Actors \ {a}, e \in StageDirs \ tmp'.expired : tmp.file[e] = b =>
        tmp'.file[e] = b /\ (e \in tmp.dir => e \in tmp'.dir)

\* A step of one process keeps the invariant when that process may rely on
\* what it needs afterwards and the others are not disturbed.
LEMMA OneActor ==
  ASSUME IInv, NEW a \in Actors, NEW r \in ActorType, actor' = [actor EXCEPT ![a] = r],
         Undisturbed(a), ActorInv(a)'
  PROVE  IInv'
<1>1. StagingTypeOK'
  BY DEF IInv, StagingTypeOK, Undisturbed
<1>2. ASSUME NEW b \in Actors \ {a} PROVE ActorInv(b)'
  <2>1. actor'[b] = actor[b]
    BY DEF IInv, StagingTypeOK
  <2>2. ActorInv(b)
    BY DEF IInv
  <2> QED
    BY <2>1, <2>2 DEF ActorInv, Undisturbed
<1> QED
  BY <1>1, <1>2 DEF IInv, Undisturbed

\* A step that leaves repo/tmp alone.
LEMMA SameTmp == ASSUME IInv, NEW a \in Actors, tmp' = tmp PROVE Undisturbed(a)
  BY DEF IInv, StagingTypeOK, Undisturbed

\* _ostree_repo_try_lock_tmpdir changes nothing but a lock file that nobody
\* holds, and locks it or removes it.
LEMMA TryLock ==
  ASSUME StagingConstants, IInv, NEW a \in Actors, NEW d \in StageDirs, Lockable(d),
         tmp' = Locked(a, d) \/ tmp' = Released(tmp, d)
  PROVE  /\ Undisturbed(a) /\ tmp'.dir = tmp.dir /\ tmp'.expired = tmp.expired
         /\ tmp' = Locked(a, d) => tmp'.file[d] = a
<1> USE DEF StagingConstants, IInv, StagingTypeOK, TmpType, Undisturbed
<1>1. CASE tmp' = Locked(a, d)
  <2>1. tmp' = [dir |-> tmp.dir, file |-> [tmp.file EXCEPT ![d] = a],
                old |-> IF tmp.file[d] = None THEN tmp.old \ {d} ELSE tmp.old,
                expired |-> tmp.expired]
    BY <1>1, Zenon DEF Locked
  <2> QED
    BY <2>1 DEF Lockable
<1>2. CASE tmp' = Released(tmp, d)
  <2>1. tmp' = [dir |-> tmp.dir, file |-> [tmp.file EXCEPT ![d] = None], old |-> tmp.old \ {d},
                expired |-> tmp.expired]
    BY <1>2, Zenon DEF Released
  <2>2. tmp' = Locked(a, d) => tmp'.file[d] = a
    BY DEF Locked
  <2> QED
    BY <2>1, <2>2 DEF Lockable
<1> QED
  BY <1>1, <1>2

\* Removing the lock file of a directory disturbs nobody when it is the
\* process's own, or was expired before.
LEMMA ReleaseOwn ==
  ASSUME StagingConstants, IInv, NEW a \in Actors, NEW d \in StageDirs,
         d \in tmp.expired \/ tmp.file[d] = a, tmp' = Released(tmp, d)
  PROVE  Undisturbed(a)
<1>1. tmp' = [dir |-> tmp.dir, file |-> [tmp.file EXCEPT ![d] = None], old |-> tmp.old \ {d},
                expired |-> tmp.expired]
  BY Zenon DEF Released, IInv, StagingTypeOK, TmpType
<1> QED
  BY <1>1 DEF StagingConstants, IInv, StagingTypeOK, TmpType, Undisturbed

\* So does removing the directory.
LEMMA RemoveOwn ==
  ASSUME StagingConstants, IInv, NEW a \in Actors, NEW d \in StageDirs,
         d \in tmp.expired \/ tmp.file[d] = a, tmp' = [tmp EXCEPT !.dir = @ \ {d}]
  PROVE  Undisturbed(a) /\ tmp'.file = tmp.file /\ tmp'.expired = tmp.expired
  BY DEF StagingConstants, IInv, StagingTypeOK, TmpType, Undisturbed

-----------------------------------------------------------------------------
(* The steps of a process.                                                 *)

\* The process ends up where it relies on nothing.
LEMMA ToRest ==
  ASSUME IInv, NEW a \in Actors, NEW r \in ActorType, r.pc \in {"idle", "mkdtemp", "cleanup"},
         actor' = [actor EXCEPT ![a] = r], Undisturbed(a)
  PROVE  IInv'
<1>1. actor'[a] = r
  BY DEF IInv, StagingTypeOK
<1>2. ActorInv(a)'
  BY <1>1 DEF ActorInv
<1> QED
  BY <1>2, OneActor, Zenon

\* The process tries to lock a directory: it ends up with the lock as y says,
\* or relies on nothing.
LEMMA ToLock ==
  ASSUME StagingConstants, IInv, NEW a \in Actors, NEW d \in StageDirs,
         NEW y \in ActorType, NEW n \in ActorType,
         _ostree_repo_try_lock_tmpdir(a, d, actor' = [actor EXCEPT ![a] = y],
                                            actor' = [actor EXCEPT ![a] = n]),
         y.dir = d, y.pc \in {"txn", "rmrf", "unlock"},
         n.pc \in {"idle", "mkdtemp", "cleanup"}
  PROVE  IInv'
<1>1. CASE Lockable(d) /\ d \in tmp.dir /\ tmp' = Locked(a, d) /\ actor' = [actor EXCEPT ![a] = y]
  <2>1. actor'[a] = y
    BY <1>1 DEF IInv, StagingTypeOK
  <2>2. Undisturbed(a) /\ tmp'.dir = tmp.dir /\ tmp'.expired = tmp.expired /\ tmp'.file[d] = a
    BY <1>1, TryLock
  <2>3. ActorInv(a)'
    BY <1>1, <2>1, <2>2 DEF ActorInv
  <2> QED
    BY <1>1, <2>2, <2>3, OneActor, Zenon
<1>2. CASE Lockable(d) /\ tmp' = Released(tmp, d) /\ actor' = [actor EXCEPT ![a] = n]
  BY <1>2, TryLock, ToRest, Zenon
<1>3. CASE tmp' = tmp /\ actor' = [actor EXCEPT ![a] = n]
  BY <1>3, SameTmp, ToRest, Zenon
<1> QED
  BY <1>1, <1>2, <1>3 DEF _ostree_repo_try_lock_tmpdir

\* Every step of a process keeps the invariant.
LEMMA StepIInv ==
  ASSUME StagingConstants, IInv, NEW a \in Actors, StagingStep(a)
  PROVE  IInv'
<1> DEFINE p == actor[a]
<1>0. /\ p \in ActorType /\ tmp \in TmpType /\ ActorInv(a)
      /\ actor \in [Actors -> ActorType]
  BY DEF IInv, StagingTypeOK
<1>1. CASE FindExisting(a)
  <2>1. CASE actor' = [actor EXCEPT ![a] = [p EXCEPT !.pc = "mkdtemp"]]
    <3>1. /\ [p EXCEPT !.pc = "mkdtemp"] \in ActorType /\ tmp' = tmp
          /\ [p EXCEPT !.pc = "mkdtemp"].pc = "mkdtemp"
      BY <1>0, <1>1, Zenon DEF FindExisting, ActorType, Steps
    <3> QED
      BY <2>1, <3>1, ToRest, SameTmp, Zenon
  <2>2. ASSUME NEW d \in Untried(a), actor' = [actor EXCEPT ![a] = [p EXCEPT !.pc = "reuse", !.dir = d]]
        PROVE  IInv'
    <3>1. /\ [p EXCEPT !.pc = "reuse", !.dir = d] \in ActorType /\ tmp' = tmp
          /\ d \in StageDirs
      BY <1>0, <1>1, Zenon DEF FindExisting, Untried, TmpType, ActorType, Steps
    <3>2. ActorInv(a)'
      BY <1>0, <2>2, <3>1 DEF ActorInv, ActorType
    <3> QED
      BY <2>2, <3>1, <3>2, OneActor, SameTmp, Zenon
  <2> QED
    BY <1>1, <2>1, <2>2, Zenon DEF FindExisting, Go
<1>2. CASE LockExisting(a)
  <2> DEFINE y == [p EXCEPT !.pc = "txn"]
             n == [p EXCEPT !.pc = "idle", !.dir = None, !.tried = @ \cup {p.dir}]
  <2>1. /\ p.dir \in StageDirs /\ y \in ActorType /\ n \in ActorType
        /\ y.dir = p.dir /\ y.pc = "txn" /\ n.pc = "idle"
    BY <1>0, <1>2, Zenon DEF LockExisting, ActorInv, ActorType, Steps
  <2>2. _ostree_repo_try_lock_tmpdir(a, p.dir, actor' = [actor EXCEPT ![a] = y],
                                               actor' = [actor EXCEPT ![a] = n])
    BY <1>2 DEF LockExisting, Go, _ostree_repo_try_lock_tmpdir
  <2> HIDE DEF y, n
  <2> QED
    BY <2>1, <2>2, ToLock
<1>3. CASE MakeNew(a)
  <2>1. PICK d \in StageDirs \ (tmp.dir \cup OldDirs) :
           /\ tmp' = [tmp EXCEPT !.dir = @ \cup {d}]
           /\ actor' = [actor EXCEPT ![a] = [p EXCEPT !.pc = "locknew", !.dir = d]]
    BY <1>3 DEF MakeNew, Go
  <2>2. [p EXCEPT !.pc = "locknew", !.dir = d] \in ActorType
    BY <1>0, Zenon DEF ActorType, Steps
  <2>3. Undisturbed(a)
    BY <1>0, <2>1 DEF Undisturbed, TmpType
  <2>4. ActorInv(a)'
    BY <1>0, <2>1 DEF ActorInv, ActorType
  <2> QED
    BY <2>1, <2>2, <2>3, <2>4, OneActor, Zenon
<1>4. CASE LockNew(a)
  <2> DEFINE y == [p EXCEPT !.pc = "txn"]
             n == [p EXCEPT !.pc = "mkdtemp", !.dir = None]
  <2>1. /\ p.dir \in StageDirs /\ y \in ActorType /\ n \in ActorType
        /\ y.dir = p.dir /\ y.pc = "txn" /\ n.pc = "mkdtemp"
    BY <1>0, <1>4, Zenon DEF LockNew, ActorInv, ActorType, Steps
  <2>2. _ostree_repo_try_lock_tmpdir(a, p.dir, actor' = [actor EXCEPT ![a] = y],
                                               actor' = [actor EXCEPT ![a] = n])
    BY <1>4 DEF LockNew, Go, _ostree_repo_try_lock_tmpdir
  <2> HIDE DEF y, n
  <2> QED
    BY <2>1, <2>2, ToLock
<1>5. CASE OutOfNames(a) \/ EndCleanup(a)
  <2>1. Resting \in ActorType /\ Resting.pc = "idle"
    BY DEF Resting, ActorType, Steps
  <2> QED
    BY <1>5, <2>1, ToRest, SameTmp DEF OutOfNames, EndCleanup, Go
<1>6. CASE RunOutOfSpace(a)
  <2>1. /\ [p EXCEPT !.lowspace = TRUE] \in ActorType /\ tmp' = tmp
        /\ actor' = [actor EXCEPT ![a] = [p EXCEPT !.lowspace = TRUE]]
    BY <1>0, <1>6, Zenon DEF RunOutOfSpace, Go, ActorType
  <2>2. ActorInv(a)'
    BY <1>0, <2>1 DEF ActorInv, ActorType
  <2> QED
    BY <2>1, <2>2, OneActor, SameTmp, Zenon
<1>7. CASE DeleteOwn(a)
  <2>1. /\ [p EXCEPT !.pc = "release"] \in ActorType
        /\ p.dir \in StageDirs /\ (p.dir \in tmp.expired \/ tmp.file[p.dir] = a)
        /\ tmp' = [tmp EXCEPT !.dir = @ \ {p.dir}]
        /\ actor' = [actor EXCEPT ![a] = [p EXCEPT !.pc = "release"]]
    BY <1>0, <1>7 DEF DeleteOwn, Go, ActorType, Steps, ActorInv
  <2>2. Undisturbed(a) /\ tmp'.file = tmp.file /\ tmp'.expired = tmp.expired
    BY <2>1, RemoveOwn
  <2>3. ActorInv(a)'
    BY <1>0, <2>1, <2>2 DEF ActorInv, ActorType
  <2> QED
    BY <2>1, <2>2, <2>3, OneActor, Zenon
<1>8. CASE Abort(a)
  <2>1. /\ [p EXCEPT !.pc = "release", !.aborts = TRUE] \in ActorType /\ tmp' = tmp
        /\ p.dir \in StageDirs /\ (p.dir \in tmp.expired \/ tmp.file[p.dir] = a)
        /\ actor' = [actor EXCEPT ![a] = [p EXCEPT !.pc = "release", !.aborts = TRUE]]
    BY <1>0, <1>8, Zenon DEF Abort, Go, ActorType, Steps, ActorInv
  <2>2. ActorInv(a)'
    BY <1>0, <2>1 DEF ActorInv, ActorType
  <2> QED
    BY <2>1, <2>2, OneActor, SameTmp, Zenon
<1>9. CASE Release(a)
  <2> DEFINE r == [p EXCEPT !.pc = "cleanup", !.dir = None, !.tried = {}]
  <2>1. /\ r \in ActorType /\ r.pc = "cleanup" /\ tmp' = Released(tmp, p.dir)
        /\ p.dir \in StageDirs /\ (p.dir \in tmp.expired \/ tmp.file[p.dir] = a)
        /\ actor' = [actor EXCEPT ![a] = r]
    BY <1>0, <1>9, Zenon DEF Release, Go, ActorType, Steps, ActorInv
  <2> HIDE DEF r
  <2> QED
    BY <2>1, ReleaseOwn, ToRest, Zenon
<1>10. ASSUME NEW d \in StageDirs, cleanup_txn_dir(a, d) PROVE IInv'
  <2> DEFINE y == [p EXCEPT !.tried = @ \cup {d}, !.dir = d,
                            !.pc = IF d \notin OldDirs /\ ~p.lowspace THEN "unlock" ELSE "rmrf"]
             n == [p EXCEPT !.tried = @ \cup {d}]
  <2>1. /\ y \in ActorType /\ n \in ActorType
        /\ y.dir = d /\ y.pc \in {"rmrf", "unlock"} /\ n.pc = "cleanup"
    BY <1>0, <1>10, Zenon DEF cleanup_txn_dir, ActorType, Steps
  <2>2. _ostree_repo_try_lock_tmpdir(a, d, actor' = [actor EXCEPT ![a] = y],
                                           actor' = [actor EXCEPT ![a] = n])
    BY <1>10 DEF cleanup_txn_dir, Go, _ostree_repo_try_lock_tmpdir
  <2> HIDE DEF y, n
  <2> QED
    BY <2>1, <2>2, ToLock
<1>11. ASSUME NEW d \in StageDirs, SeeOld(a, d) PROVE IInv'
  <2> DEFINE r == [p EXCEPT !.pc = "expire", !.dir = d]
  <2>1. /\ r \in ActorType /\ r.pc = "expire" /\ r.dir = d /\ tmp' = tmp
        /\ actor' = [actor EXCEPT ![a] = r]
    BY <1>0, <1>11, Zenon DEF SeeOld, Go, ActorType, Steps
  <2> HIDE DEF r
  <2>2. ActorInv(a)'
    BY <1>0, <2>1 DEF ActorInv
  <2> QED
    BY <2>1, <2>2, OneActor, SameTmp, Zenon
<1>15. CASE ExpireFile(a)
  <2> DEFINE r == [p EXCEPT !.pc = "cleanup", !.dir = None]
             d == p.dir
  <2>1. /\ r \in ActorType /\ r.pc = "cleanup" /\ d \in StageDirs
        /\ actor' = [actor EXCEPT ![a] = r]
    BY <1>0, <1>15, Zenon DEF ExpireFile, Go, ActorType, Steps, ActorInv
  <2>2. tmp' = [dir |-> tmp.dir, file |-> [tmp.file EXCEPT ![d] = None], old |-> tmp.old \ {d},
                expired |-> IF tmp.file[d] \in Actors THEN tmp.expired \cup {d} ELSE tmp.expired]
    BY <1>0, <1>15 DEF ExpireFile, Released, TmpType
  <2> HIDE DEF r, d
  <2>3. Undisturbed(a)
    BY <1>0, <2>1, <2>2 DEF Undisturbed, TmpType, StagingConstants
  <2> QED
    BY <2>1, <2>3, ToRest, Zenon
<1>12. CASE RemoveTree(a)
  <2>1. /\ [p EXCEPT !.pc = "unlock"] \in ActorType
        /\ p.dir \in StageDirs /\ (p.dir \in tmp.expired \/ tmp.file[p.dir] = a)
        /\ tmp' = [tmp EXCEPT !.dir = @ \ {p.dir}]
        /\ actor' = [actor EXCEPT ![a] = [p EXCEPT !.pc = "unlock"]]
    BY <1>0, <1>12 DEF RemoveTree, Go, ActorType, Steps, ActorInv
  <2>2. Undisturbed(a) /\ tmp'.file = tmp.file /\ tmp'.expired = tmp.expired
    BY <2>1, RemoveOwn
  <2>3. ActorInv(a)'
    BY <1>0, <2>1, <2>2 DEF ActorInv, ActorType
  <2> QED
    BY <2>1, <2>2, <2>3, OneActor, Zenon
<1>13. CASE Unlock(a)
  <2> DEFINE r == [p EXCEPT !.pc = "cleanup", !.dir = None]
  <2>1. /\ r \in ActorType /\ r.pc = "cleanup" /\ tmp' = Released(tmp, p.dir)
        /\ p.dir \in StageDirs /\ (p.dir \in tmp.expired \/ tmp.file[p.dir] = a)
        /\ actor' = [actor EXCEPT ![a] = r]
    BY <1>0, <1>13, Zenon DEF Unlock, Go, ActorType, Steps, ActorInv
  <2> HIDE DEF r
  <2> QED
    BY <2>1, ReleaseOwn, ToRest, Zenon
<1>14. CASE Die(a)
  <2>1. Resting \in ActorType /\ Resting.pc = "idle"
    BY DEF Resting, ActorType, Steps
  <2>2. tmp' = [dir |-> tmp.dir, old |-> tmp.old, expired |-> tmp.expired,
                file |-> [d \in StageDirs |-> IF tmp.file[d] = a THEN "free" ELSE tmp.file[d]]]
    BY <1>0, <1>14 DEF Die, TmpType
  <2>3. Undisturbed(a)
    BY <1>0, <2>2 DEF Undisturbed, TmpType
  <2> QED
    BY <1>14, <2>1, <2>3, ToRest, Zenon DEF Die, Go
<1> QED
  BY <1>1, <1>2, <1>3, <1>4, <1>5, <1>6, <1>7, <1>8, <1>9, <1>10, <1>11, <1>12, <1>13, <1>14, <1>15
     DEF StagingStep

-----------------------------------------------------------------------------
\* Every step keeps the invariant; so does the passing of time.
LEMMA NextIInv == StagingConstants /\ IInv /\ [StagingNext]_stagingVars => IInv'
<1> SUFFICES ASSUME StagingConstants, IInv, [StagingNext]_stagingVars PROVE IInv'
  OBVIOUS
<1>1. ASSUME NEW a \in Actors, StagingStep(a) PROVE IInv'
  BY <1>1, StepIInv
<1>2. ASSUME NEW d \in StageDirs, GrowOld(d) PROVE IInv'
  <2>1. /\ tmp' = [dir |-> tmp.dir, file |-> tmp.file, old |-> tmp.old \cup {d},
                   expired |-> tmp.expired]
        /\ actor' = actor /\ d \in StageDirs
    BY <1>2, Zenon DEF GrowOld, StagingConstants, IInv, StagingTypeOK, TmpType
  <2> QED
    BY <2>1 DEF StagingConstants, IInv, StagingTypeOK, TmpType, ActorInv
<1>3. CASE UNCHANGED stagingVars
  BY <1>3 DEF stagingVars, IInv, StagingTypeOK, ActorInv
<1> QED
  BY <1>1, <1>2, <1>3 DEF StagingNext

\* Two transactions never have the same directory, as each holds the lock file
\* that has its name, unless that was expired.
LEMMA IInvExclusive == IInv => StagingExclusive /\ StagingStays
  BY DEF IInv, ActorInv, StagingExclusive, StagingStays, InTxn

\* No two transactions of any number of processes write to one staging
\* directory (_ostree_repo_allocate_tmpdir, _ostree_repo_try_lock_tmpdir,
\* cleanup_txn_dir), unless cleanup_tmpdir expired its lock file while it was
\* held.
THEOREM Exclusive ==
  ASSUME StagingConstants
  PROVE  StagingSpec => []StagingExclusive
<1>1. StagingInit => IInv
  BY InitIInv
<1>2. IInv /\ [StagingNext]_stagingVars => IInv'
  BY NextIInv
<1>3. IInv => StagingExclusive
  BY IInvExclusive
<1> QED
  BY <1>1, <1>2, <1>3, PTL DEF StagingSpec

\* The directory of a running transaction is never taken away by another
\* process, whatever the number of processes that clean up repo/tmp, with the
\* same exception.
THEOREM Stays ==
  ASSUME StagingConstants
  PROVE  StagingSpec => []StagingStays
<1>1. StagingInit => IInv
  BY InitIInv
<1>2. IInv /\ [StagingNext]_stagingVars => IInv'
  BY NextIInv
<1>3. IInv => StagingStays
  BY IInvExclusive
<1> QED
  BY <1>1, <1>2, <1>3, PTL DEF StagingSpec
=============================================================================
