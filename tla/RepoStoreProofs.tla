-------------------------- MODULE RepoStoreProofs ---------------------------
(***************************************************************************)
(* For any processes, commits, trees and workloads: the types of the       *)
(* object store, no process that loses what it has staged, every phase     *)
(* under the lock pushed for it, and a prune, alone with the exclusive     *)
(* lock, that deletes nothing a complete commit with a ref needs.          *)
(***************************************************************************)
EXTENDS RepoStore, TLAPS

USE DEF objectVars, markVars, refVars, stageVars, lockVars, opVars

\* The phases in which an operation has a commit, and those in which it has a
\* staging directory.
Targeting == {"scan", "writecommit", "write", "rename", "ref", "unlock", "unmark", "setref"}
Staging == {"scan", "writecommit", "write", "rename"}

\* Two processes never have the same staging directory.
OneDir == \A p, q \in Procs : p # q /\ dir[p] = dir[q] => dir[p] = NoDir

\* TypeOK alone is not inductive: what deletes a directory must not delete that
\* of another process, and what is staged or renamed must be an object.
Typed ==
    /\ TypeOK /\ OneDir
    /\ \A p \in Procs : pc[p] \in Targeting => target[p] \in Commits
    /\ \A p \in Procs : pc[p] \in Staging => dir[p] \in dirs


\* The constants: what a commit needs, and that no name stands for none.
LEMMA Trees == Tree \in [Commits -> SUBSET Content] /\ Root \in [Commits -> Content]
BY StoreConstants
\* The absent commit and directory are none of the real ones.
LEMMA Nones == NoCommit \notin Commits /\ NoDir \notin Dirs
BY StoreConstants DEF Objects

\* The initial state is typed.
LEMMA InitTyped == Init => Typed
BY DEF Init, Typed, TypeOK, OneDir, Targeting, Staging, Phases, TxnOps, PruneOps, Objects

\* What the end of the operations of S leaves.
Returned(S) ==
    /\ pc' \in [Procs -> Phases] /\ op' \in [Procs -> TxnOps \cup PruneOps]
    /\ target' \in [Procs -> Commits \cup {NoCommit}]
    /\ dir' \in [Procs -> dirs \cup {NoDir}]
    /\ todo' \in [Procs -> SUBSET Objects]
    /\ resume' \in [Procs -> BOOLEAN] /\ in_transaction' \in [Procs -> BOOLEAN]
    /\ \A p \in Procs : pc'[p] \in Targeting => target'[p] \in Commits
    /\ \A p \in Procs : pc'[p] \in Staging => p \notin S /\ dir'[p] = dir[p] /\ dir[p] \in dirs
    /\ OneDir'

\* It keeps the types of what it changes.
LEMMA ReturnTyped ==
    ASSUME Typed, NEW S \in SUBSET Procs, Return(S) PROVE Returned(S)
<1> USE DEF Typed, TypeOK, OneDir, Return
<1>1. pc' \in [Procs -> Phases] BY DEF Phases
<1>2. op' \in [Procs -> TxnOps \cup PruneOps] BY DEF TxnOps
<1>3. target' \in [Procs -> Commits \cup {NoCommit}] OBVIOUS
<1>4. dir' \in [Procs -> dirs \cup {NoDir}] OBVIOUS
<1>5. todo' \in [Procs -> SUBSET Objects] OBVIOUS
<1>6. resume' \in [Procs -> BOOLEAN] /\ in_transaction' \in [Procs -> BOOLEAN] OBVIOUS
<1>7. \A p \in Procs : pc'[p] \in Targeting => target'[p] \in Commits BY DEF Targeting
<1>8. \A p \in Procs : pc'[p] \in Staging => p \notin S /\ dir'[p] = dir[p] /\ dir[p] \in dirs
  BY DEF Staging
<1>9. OneDir' OBVIOUS
<1> QED BY <1>1, <1>2, <1>3, <1>4, <1>5, <1>6, <1>7, <1>8, <1>9 DEF Returned

\* Most steps leave the staging directories to their processes.
LEMMA SameDirs == OneDir /\ dir' = dir => OneDir'
BY DEF OneDir

\* Every step keeps the types.
LEMMA NextTyped == Typed /\ [Next]_vars => Typed'
<1> SUFFICES ASSUME Typed, [Next]_vars PROVE Typed'
  OBVIOUS
<1>0. ASSUME NEW S \in SUBSET Procs, Return(S) PROVE Returned(S)
  BY <1>0, ReturnTyped
<1>00. ASSUME NEW p \in Procs, Return({p}) PROVE Returned({p})
  BY <1>00, <1>0
<1> USE DEF Typed, TypeOK, Goto
<1>1. ASSUME NEW p \in Procs, NEW o \in TxnOps, NEW c \in Commits, Prepare(p, o, c) PROVE Typed'
  <2>1. PICK d \in Dirs : /\ \A q \in Procs : dir[q] # d
                          /\ dir' = [dir EXCEPT ![p] = d] /\ dirs' = dirs \cup {d}
                          /\ resume' = [resume EXCEPT ![p] = d \in dirs /\ o # "commit"]
    <3>1. PICK d \in IF FreeDirs # {} THEN FreeDirs ELSE Dirs \ dirs :
             /\ dir' = [dir EXCEPT ![p] = d] /\ dirs' = dirs \cup {d}
             /\ resume' = [resume EXCEPT ![p] = d \in dirs /\ o # "commit"]
      BY <1>1, Zenon DEF Prepare
    <3>2. d \in Dirs /\ \A q \in Procs : dir[q] # d
      <4>1. CASE d \in FreeDirs BY <4>1 DEF FreeDirs
      <4>2. CASE d \in Dirs \ dirs BY <4>2, Nones
      <4> QED BY <4>1, <4>2
    <3> QED BY <3>1, <3>2, Zenon
  <2>2. todo' \in [Procs -> SUBSET Objects] BY <1>1, Trees, Zenon DEF Prepare, Objects
  <2>3. lock' \in [Procs -> {"UN", "SH", "EX"}] BY <1>1, Zenon DEF Prepare, Lock!Change
  <2>4. resume' \in [Procs -> BOOLEAN] BY <2>1
  <2>5. /\ pc' \in [Procs -> Phases] /\ op' \in [Procs -> TxnOps \cup PruneOps]
        /\ in_transaction' \in [Procs -> BOOLEAN] /\ target' \in [Procs -> Commits \cup {NoCommit}]
    BY <1>1, Zenon DEF Prepare, Phases
  <2>6. dir' \in [Procs -> dirs' \cup {NoDir}] BY <2>1
  <2>7. \A q \in Procs : pc'[q] \in Targeting => target'[q] \in Commits
    BY <1>1, Zenon DEF Prepare, Targeting
  <2>8. \A q \in Procs : pc'[q] \in Staging => dir'[q] \in dirs'
    BY <1>1, <2>1, Zenon DEF Prepare
  <2>9. OneDir' BY <2>1 DEF OneDir
  <2> QED BY <1>1, <2>1, <2>2, <2>3, <2>4, <2>5, <2>6, <2>7, <2>8, <2>9, Zenon DEF Prepare
<1>2. ASSUME NEW p \in Procs, FetchCommit(p) PROVE Typed'
  BY <1>2, SameDirs, Zenon DEF FetchCommit, Targeting, Staging, Phases
<1>3. ASSUME NEW p \in Procs, WriteFetched(p) PROVE Typed'
  BY <1>3, SameDirs DEF WriteFetched, StageObject, Targeting, Staging, Phases, Objects
<1>4. ASSUME NEW p \in Procs, ScanCommit(p) PROVE Typed'
  BY <1>4, SameDirs, Trees DEF ScanCommit, Targeting, Staging, Phases, Objects
<1>5. ASSUME NEW p \in Procs, WriteCommit(p) PROVE Typed'
  BY <1>5, SameDirs DEF WriteCommit, StageObject, Targeting, Staging, Objects
<1>6. ASSUME NEW p \in Procs, CommitSync(p) PROVE Typed'
  BY <1>6, SameDirs, Zenon DEF CommitSync, Targeting, Staging, Phases
<1>7. ASSUME NEW p \in Procs, CommitObjects(p) PROVE Typed'
  <2>1. \A q \in Procs \ {p} : dir[q] # dir[p]
    BY <1>7, Nones, Zenon DEF CommitObjects, Staging, OneDir
  <2>2. dir' \in [Procs -> dirs' \cup {NoDir}] BY <1>7, <2>1, Zenon DEF CommitObjects
  <2>3. OneDir' BY <1>7, Zenon DEF CommitObjects, OneDir
  <2> QED BY <1>7, <2>1, <2>2, <2>3, Zenon DEF CommitObjects, Targeting, Staging, Phases
<1>8. ASSUME NEW p \in Procs, WriteRef(p) PROVE Typed'
  BY <1>8, SameDirs, Zenon DEF WriteRef, Targeting, Staging, Phases
<1>9. ASSUME NEW p \in Procs, CommitUnlock(p) PROVE Typed'
  <2>1. lock' \in [Procs -> {"UN", "SH", "EX"}]
    BY <1>9, Zenon DEF CommitUnlock, Lock!Change, Unlocked
  <2>2. CASE Return({p})
    <3>1. Returned({p}) BY <1>00, <2>2
    <3> QED BY <1>9, <2>1, <3>1, Zenon DEF CommitUnlock, Returned
  <2>3. CASE ~Return({p})
    BY <1>9, <2>1, <2>3, SameDirs, Zenon DEF CommitUnlock, Targeting, Staging, Phases
  <2> QED BY <2>2, <2>3
<1>10. ASSUME NEW p \in Procs, CommitCancelled(p) PROVE Typed'
  <2>1. Returned({p}) BY <1>10, <1>00, Zenon DEF CommitCancelled
  <2> QED BY <1>10, <2>1, Zenon DEF CommitCancelled, Returned
<1>11. ASSUME NEW p \in Procs, Unmark(p) PROVE Typed'
  <2>1. Returned({p}) BY <1>11, <1>00, Zenon DEF Unmark
  <2> QED BY <1>11, <2>1, Zenon DEF Unmark, Returned
<1>12. ASSUME NEW p \in Procs, Abort(p) PROVE Typed'
  <2> DEFINE gone == FreeDirs \cup {dir[p]}
  <2>0. Returned({p}) /\ lock' \in [Procs -> {"UN", "SH", "EX"}]
    BY <1>12, <1>00, Zenon DEF Abort, Lock!Change, Unlocked
  <2>1. CASE UNCHANGED stageVars
    BY <1>12, <2>0, <2>1, Zenon DEF Abort, Returned
  <2>2. CASE /\ stage' = [d \in Dirs |-> IF d \in gone THEN {} ELSE stage[d]]
             /\ dirs' = dirs \ gone /\ unflushed' = unflushed \ gone
    <3>1. \A q \in Procs \ {p} : dir[q] \in dirs' \cup {NoDir}
      BY <2>2, SMTT(30) DEF FreeDirs, OneDir
    <3>2. dir'[p] = NoDir /\ \A q \in Procs \ {p} : dir'[q] = dir[q]
      BY <1>12, Zenon DEF Abort, Return
    <3>3. dir' \in [Procs -> dirs' \cup {NoDir}]
      BY <1>12, <3>1, <3>2, Zenon DEF Abort, Return
    <3>4. \A q \in Procs : pc'[q] \in Staging => dir'[q] \in dirs'
      BY <2>0, <3>1, Nones DEF Returned
    <3>5. stage' \in [Dirs -> SUBSET Objects] /\ dirs' \subseteq Dirs /\ unflushed' \subseteq dirs'
      BY <2>2, SMTT(30)
    <3> QED BY <1>12, <2>0, <3>3, <3>4, <3>5, Zenon DEF Abort, Returned
  <2> QED BY <1>12, <2>1, <2>2, Zenon DEF Abort
<1>13. ASSUME NEW p \in Procs, PruneEnd(p) PROVE Typed'
  <2>1. Returned({p}) /\ lock' \in [Procs -> {"UN", "SH", "EX"}]
    BY <1>13, <1>00, Zenon DEF PruneEnd, Lock!Change, Unlocked
  <2> QED BY <1>13, <2>1, Zenon DEF PruneEnd, Returned
<1>14. ASSUME NEW p \in Procs, Die(p) PROVE Typed'
  <2>1. Returned({p}) BY <1>14, <1>00, Zenon DEF Die, Dead
  <2> QED BY <1>14, <2>1, Zenon DEF Die, Dead, Returned
<1>15. ASSUME NEW p \in Procs, NEW x \in Objects, WriteContent(p, x) PROVE Typed'
  <2>1. stage' \in [Dirs -> SUBSET Objects] /\ unflushed' \subseteq dirs
    BY <1>15 DEF WriteContent, StageObject, Staging
  <2>2. todo' \in [Procs -> SUBSET Objects]
    <3>1. Tree[target[p]] \subseteq Objects
      BY <1>15, Trees, Zenon DEF WriteContent, Targeting, Objects
    <3> QED BY <1>15, <3>1, Zenon DEF WriteContent
  <2> QED BY <1>15, <2>1, <2>2, SameDirs, Zenon DEF WriteContent, StageObject
<1>16. ASSUME NEW p \in Procs, NEW x \in Objects, RenameOne(p, x) PROVE Typed'
  BY <1>16, SameDirs, Zenon DEF RenameOne
<1>17. ASSUME NEW p \in Procs, NEW x \in Objects, PruneUnmark(p, x) PROVE Typed'
  BY <1>17, SameDirs, Zenon DEF PruneUnmark
<1>18. ASSUME NEW p \in Procs, NEW x \in Objects, PruneDelete(p, x) PROVE Typed'
  BY <1>18, SameDirs, Zenon DEF PruneDelete
<1>19. ASSUME NEW p \in Procs, NEW o \in PruneOps, PruneStart(p, o) PROVE Typed'
  BY <1>19, SameDirs, Zenon DEF PruneStart, Lock!Change, Targeting, Staging, Phases
<1>20. ASSUME NEW p \in Procs, NEW r \in Refs, ResolveRev(p, r) PROVE Typed'
  BY <1>20, SameDirs, Zenon DEF ResolveRev, Targeting, Staging, Phases
<1>21. ASSUME NEW p \in Procs, NEW r \in Refs, SetRefImmediate(p, r) PROVE Typed'
  <2>1. Returned({p}) BY <1>21, <1>00, Zenon DEF SetRefImmediate
  <2> QED BY <1>21, <2>1, Zenon DEF SetRefImmediate, Targeting, Returned
<1>22. ASSUME NEW p \in Procs, NEW r \in Refs, DeleteRef(p, r) PROVE Typed'
  BY <1>22, SameDirs, Zenon DEF DeleteRef
<1>23. ASSUME PowerLoss PROVE Typed'
  <2>1. pc' = [p \in Procs |-> "idle"] /\ dir' = [p \in Procs |-> NoDir]
    BY <1>23, Zenon DEF PowerLoss, Dead, Return
  <2>2. objects' \subseteq Objects /\ partial' \subseteq Commits BY <1>23, Zenon DEF PowerLoss
  <2>3. refs' \in [Refs -> Commits \cup {NoCommit}] BY <1>23, Zenon DEF PowerLoss
  <2>4. Returned(Procs) BY <1>23, <1>0, Zenon DEF PowerLoss, Dead
  <2> QED
    BY <1>23, <2>1, <2>2, <2>3, <2>4, Zenon DEF PowerLoss, Dead, Targeting, Staging, Returned
<1>24. CASE UNCHANGED vars
  BY <1>24, SameDirs, Zenon DEF vars
<1> QED
  BY <1>1, <1>2, <1>3, <1>4, <1>5, <1>6, <1>7, <1>8, <1>9, <1>10, <1>11, <1>12, <1>13, <1>14,
     <1>15, <1>16, <1>17, <1>18, <1>19, <1>20, <1>21, <1>22, <1>23, <1>24, Zenon DEF Next

\* The invariant, from the first state on.
LEMMA AlwaysTyped == Spec => []Typed
BY InitTyped, NextTyped, PTL DEF Spec

\* Every variable keeps its type in every behaviour; a process has a staging
\* directory only while it exists (ostree-repo-commit.c:1671-2421).
THEOREM Types == Spec => []TypeOK
<1>1. Typed => TypeOK BY Zenon DEF Typed
<1> QED BY <1>1, AlwaysTyped, PTL

-----------------------------------------------------------------------------
(* What is staged is kept *)

\* What StagedIsKept says of a step.
KeepsStaged ==
    \A p \in Procs : pc[p] # "idle" /\ pc'[p] # "idle" /\ dir[p] # NoDir =>
        /\ stage[dir[p]] \subseteq stage'[dir[p]] \cup objects'
        /\ \A q \in Procs \ {p} : dir'[q] # dir[p]

\* A step that takes nothing out of a staging directory, and gives a process no
\* directory but one that nobody has.
LEMMA NothingTaken ==
    ASSUME Typed,
           \A d \in Dirs : stage[d] \subseteq stage'[d] \cup objects',
           \A q \in Procs : dir'[q] \in {dir[q], NoDir} \/ \A p \in Procs : dir'[q] # dir[p]
    PROVE  KeepsStaged
BY Zenon DEF Typed, TypeOK, OneDir, KeepsStaged

\* The steps that end operations give no directory to anyone.
LEMMA ReturnDirs ==
    ASSUME NEW S \in SUBSET Procs, Return(S)
    PROVE  /\ \A q \in S : dir'[q] = NoDir /\ pc'[q] = "idle"
           /\ \A q \in Procs : dir'[q] \in {dir[q], NoDir}
BY Zenon DEF Return

\* By each action: only the owner of a directory empties it.
LEMMA NextKeepsStaged == Typed /\ [Next]_vars => KeepsStaged
<1> SUFFICES ASSUME Typed, [Next]_vars PROVE KeepsStaged
  OBVIOUS
<1>1. ASSUME NEW p \in Procs, NEW o \in TxnOps, NEW c \in Commits, Prepare(p, o, c)
      PROVE  KeepsStaged
  <2>1. PICK d \in IF FreeDirs # {} THEN FreeDirs ELSE Dirs \ dirs : dir' = [dir EXCEPT ![p] = d]
    BY <1>1, Zenon DEF Prepare
  <2>2. \A q \in Procs : dir[q] # d
    <3>1. CASE d \in FreeDirs BY <3>1 DEF FreeDirs
    <3>2. CASE d \in Dirs \ dirs BY <3>2, Nones, Zenon DEF Typed, TypeOK
    <3> QED BY <3>1, <3>2
  <2>3. \A q \in Procs : dir'[q] = dir[q] \/ dir'[q] = d
    BY <2>1, Zenon DEF Typed, TypeOK
  <2>4. stage' = stage BY <1>1, Zenon DEF Prepare
  <2> QED BY <2>2, <2>3, <2>4, NothingTaken
<1>2. ASSUME NEW p \in Procs, NEW x \in Objects \cup {target[p]}, StageObject(p, x), dir' = dir
      PROVE  KeepsStaged
  <2>1. \A d \in Dirs : stage[d] \subseteq stage'[d]
    BY <1>2 DEF StageObject, Typed, TypeOK
  <2> QED BY <1>2, <2>1, NothingTaken
<1>3. ASSUME stage' = stage, dir' = dir PROVE KeepsStaged
  BY <1>3, NothingTaken
<1>4. ASSUME NEW p \in Procs, CommitObjects(p) PROVE KeepsStaged
  BY <1>4, NothingTaken, Zenon DEF CommitObjects, Typed, TypeOK
<1>5. ASSUME NEW S \in SUBSET Procs, Return(S), stage' = stage PROVE KeepsStaged
  BY <1>5, ReturnDirs, NothingTaken
<1>6. ASSUME NEW p \in Procs, Abort(p) PROVE KeepsStaged
  <2> DEFINE gone == FreeDirs \cup {dir[p]}
  <2>1. CASE stage' = stage BY <1>6, <2>1, <1>5, Zenon DEF Abort
  <2>2. CASE stage' = [d \in Dirs |-> IF d \in gone THEN {} ELSE stage[d]]
    <3>1. \A q \in Procs : dir'[q] \in {dir[q], NoDir} BY <1>6, ReturnDirs, Zenon DEF Abort
    <3>2. ASSUME NEW q \in Procs, pc'[q] # "idle", dir[q] # NoDir
          PROVE  /\ stage'[dir[q]] = stage[dir[q]]
                 /\ \A s \in Procs \ {q} : dir'[s] # dir[q]
      <4>1. q # p BY <1>6, <3>2, ReturnDirs, Zenon DEF Abort
      <4>2. dir[q] \in Dirs \ gone BY <4>1, <3>2, Zenon DEF FreeDirs, Typed, TypeOK, OneDir
      <4>3. \A s \in Procs \ {q} : dir'[s] # dir[q] BY <3>1, <3>2, Zenon DEF Typed, OneDir
      <4> QED BY <2>2, <4>2, <4>3
    <3> QED BY <3>2 DEF KeepsStaged
  <2> QED BY <1>6, <2>1, <2>2, Zenon DEF Abort
<1>7. ASSUME NEW p \in Procs, NEW x \in Objects, RenameOne(p, x) PROVE KeepsStaged
  <2>1. \A d \in Dirs : stage[d] \subseteq stage'[d] \cup objects'
    BY <1>7, Zenon DEF RenameOne, Typed, TypeOK
  <2> QED BY <1>7, <2>1, NothingTaken, Zenon DEF RenameOne
<1>8. ASSUME PowerLoss PROVE KeepsStaged
  BY <1>8, ReturnDirs, Zenon DEF PowerLoss, Dead, KeepsStaged
<1>9. ASSUME NEW p \in Procs, CommitUnlock(p) PROVE KeepsStaged
  BY <1>9, <1>3, <1>5, Zenon DEF CommitUnlock
<1>10. ASSUME NEW p \in Procs,
              FetchCommit(p) \/ WriteFetched(p) \/ ScanCommit(p) \/ WriteCommit(p)
              \/ CommitSync(p) \/ WriteRef(p)
       PROVE  KeepsStaged
  BY <1>10, <1>2, <1>3, Zenon
     DEF FetchCommit, WriteFetched, ScanCommit, WriteCommit, CommitSync, WriteRef
<1>11. ASSUME NEW p \in Procs, CommitCancelled(p) \/ Unmark(p) \/ PruneEnd(p) \/ Die(p)
       PROVE  KeepsStaged
  BY <1>11, <1>5, Zenon DEF CommitCancelled, Unmark, PruneEnd, Die, Dead
<1>12. ASSUME NEW p \in Procs, NEW x \in Objects,
              WriteContent(p, x) \/ PruneUnmark(p, x) \/ PruneDelete(p, x)
       PROVE  KeepsStaged
  BY <1>12, <1>2, <1>3, Zenon DEF WriteContent, PruneUnmark, PruneDelete
<1>13. ASSUME NEW p \in Procs, NEW o \in PruneOps, PruneStart(p, o) PROVE KeepsStaged
  BY <1>13, <1>3, Zenon DEF PruneStart
<1>14. ASSUME NEW p \in Procs, NEW r \in Refs,
              ResolveRev(p, r) \/ SetRefImmediate(p, r) \/ DeleteRef(p, r)
       PROVE  KeepsStaged
  BY <1>14, <1>3, <1>5, Zenon DEF ResolveRev, SetRefImmediate, DeleteRef
<1>15. CASE UNCHANGED vars
  BY <1>15, <1>3, Zenon DEF vars
<1> QED
  BY <1>1, <1>4, <1>6, <1>7, <1>8, <1>9, <1>10, <1>11, <1>12, <1>13, <1>14, <1>15, Zenon DEF Next

\* Whatever the processes do, fail at or die in, no two transactions share a
\* staging directory and nothing a running transaction has staged is taken from
\* it, but for the renames into objects/ (cleanup_txn_dir, the lock files of
\* _ostree_repo_allocate_tmpdir).
THEOREM StagedKept == Spec => StagedIsKept
<1>1. Typed /\ [Next]_vars => [KeepsStaged]_vars
  BY NextKeepsStaged
<1> QED BY <1>1, AlwaysTyped, PTL DEF Spec, StagedIsKept, KeepsStaged

-----------------------------------------------------------------------------
(* Locks *)

\* The phases that run under the shared lock of the transaction.
Sharing == Staging \cup {"ref", "unlock"}

\* Every phase has the lock that the code pushed for it.
LockHeld ==
    /\ \A p, q \in Procs : p # q => Lock!Compatible(lock[p], lock[q])
    /\ \A p \in Procs : pc[p] \in Sharing => lock[p] = "SH"
    /\ \A p \in Procs : pc[p] = "prune" => lock[p] = "EX"

\* Nobody holds a lock before the first operation.
LEMMA InitLockHeld == Init => LockHeld
BY Zenon DEF Init, LockHeld, Sharing, Staging, Lock!Compatible

\* A change of the lock of one process to what its next phase needs.
LEMMA ChangeHeld ==
    ASSUME Typed, LockHeld, NEW p \in Procs, NEW m \in {"UN", "SH", "EX"}, Lock!Change(p, m),
           \A q \in Procs \ {p} : pc'[q] = pc[q],
           pc'[p] \in Sharing => m = "SH",
           pc'[p] = "prune" => m = "EX"
    PROVE  LockHeld'
BY Zenon DEF Typed, TypeOK, LockHeld, Lock!Change, Lock!Compatible

\* A step without the lock, to a phase of the same kind or to none.
LEMMA SameLock ==
    ASSUME Typed, LockHeld, lock' = lock,
           \A q \in Procs : \/ pc'[q] = pc[q]
                            \/ pc'[q] \notin Sharing \cup {"prune"}
                            \/ pc'[q] \in Sharing /\ pc[q] \in Sharing
    PROVE  LockHeld'
BY DEF LockHeld, Sharing, Staging

\* Locks change hands only as ostree_repo_lock_push and _pop let them.
LEMMA NextLockHeld == Typed /\ LockHeld /\ [Next]_vars => LockHeld'
<1> SUFFICES ASSUME Typed, LockHeld, [Next]_vars PROVE LockHeld'
  OBVIOUS
<1> USE DEF Goto, Sharing, Staging
<1>0. pc \in [Procs -> Phases] /\ \A p \in Procs : Unlocked(p) \in {"UN", "SH", "EX"}
  BY Zenon DEF Typed, TypeOK, Unlocked
<1>1. ASSUME NEW p \in Procs, NEW o \in TxnOps, NEW c \in Commits, Prepare(p, o, c)
      PROVE  LockHeld'
  BY <1>0, <1>1, ChangeHeld, Zenon DEF Prepare
<1>2. ASSUME NEW p \in Procs, NEW o \in PruneOps, PruneStart(p, o) PROVE LockHeld'
  BY <1>0, <1>2, ChangeHeld, Zenon DEF PruneStart
<1>3. ASSUME NEW S \in SUBSET Procs, Return(S)
      PROVE  \A q \in Procs : pc'[q] = IF q \in S THEN "idle" ELSE pc[q]
  BY <1>3, Zenon DEF Return
<1>4. ASSUME NEW p \in Procs, Abort(p) \/ PruneEnd(p) PROVE LockHeld'
  BY <1>0, <1>3, <1>4, ChangeHeld DEF Abort, PruneEnd
<1>5. ASSUME NEW p \in Procs, CommitUnlock(p) PROVE LockHeld'
  BY <1>0, <1>3, <1>5, ChangeHeld DEF CommitUnlock
<1>6. ASSUME NEW S \in SUBSET Procs, Dead(S) PROVE LockHeld'
  BY <1>3, <1>6, Zenon DEF Dead, LockHeld, Lock!Compatible, Typed, TypeOK
<1>7. ASSUME NEW p \in Procs, CommitCancelled(p) \/ Unmark(p) PROVE LockHeld'
  BY <1>3, <1>7, SameLock, Zenon DEF CommitCancelled, Unmark
<1>8. ASSUME NEW p \in Procs,
             FetchCommit(p) \/ WriteFetched(p) \/ ScanCommit(p) \/ WriteCommit(p)
             \/ CommitSync(p) \/ CommitObjects(p) \/ WriteRef(p)
      PROVE  LockHeld'
  BY <1>0, <1>8, SameLock, Zenon
     DEF FetchCommit, WriteFetched, ScanCommit, WriteCommit, CommitSync, CommitObjects, WriteRef,
         StageObject
<1>9. ASSUME NEW p \in Procs, NEW x \in Objects,
             WriteContent(p, x) \/ RenameOne(p, x) \/ PruneUnmark(p, x) \/ PruneDelete(p, x)
      PROVE  LockHeld'
  BY <1>9, SameLock, Zenon DEF WriteContent, RenameOne, PruneUnmark, PruneDelete, StageObject
<1>10. ASSUME NEW p \in Procs, NEW r \in Refs,
              ResolveRev(p, r) \/ SetRefImmediate(p, r) \/ DeleteRef(p, r)
       PROVE  LockHeld'
  BY <1>0, <1>3, <1>10, SameLock, Zenon DEF ResolveRev, SetRefImmediate, DeleteRef
<1>11. CASE UNCHANGED vars
  BY <1>11, SameLock, Zenon DEF vars
<1> QED
  BY <1>1, <1>2, <1>4, <1>5, <1>6, <1>7, <1>8, <1>9, <1>10, <1>11, Zenon DEF Next, Die, PowerLoss

-----------------------------------------------------------------------------
(* What each phase is a phase of *)

\* The operation and the commit of a process fit its phase and the workload.
Kind(p) ==
    /\ pc[p] \in Sharing \cup {"unmark"} =>
         /\ op[p] \in TxnOps \cap workload.ops /\ target[p] \in workload.commits
         /\ (op[p] = "commit") = (target[p] \in workload.built)
    /\ pc[p] \in {"scan", "writecommit"} => op[p] # "commit"
    /\ pc[p] = "unmark" => op[p] = "pull"
    /\ pc[p] = "write" => todo[p] \subseteq Content
    /\ pc[p] = "prune" => op[p] \in PruneOps \cap workload.ops
    /\ pc[p] = "setref" => "setref" \in workload.ops

Kinds == \A p \in Procs : Kind(p)

\* A step of the processes S leaves the operations of the others alone.
Others(S) ==
    /\ workload' = workload
    /\ \A q \in Procs \ S : /\ pc'[q] = pc[q] /\ op'[q] = op[q] /\ target'[q] = target[q]
                            /\ dir'[q] = dir[q] /\ todo'[q] = todo[q]

\* Leaving an operation changes only what its own process has.
LEMMA ReturnFrame ==
    ASSUME NEW S \in SUBSET Procs, Return(S), workload' = workload
    PROVE  Others(S) /\ \A p \in S : pc'[p] = "idle" /\ dir'[p] = NoDir
BY Zenon DEF Return, Others

\* The steps of one process.
StepOf(p) ==
    \/ \E o \in TxnOps, c \in Commits : Prepare(p, o, c)
    \/ FetchCommit(p) \/ WriteFetched(p) \/ ScanCommit(p) \/ WriteCommit(p)
    \/ CommitSync(p) \/ CommitObjects(p) \/ WriteRef(p) \/ CommitUnlock(p)
    \/ CommitCancelled(p) \/ Unmark(p) \/ Abort(p) \/ PruneEnd(p) \/ Die(p)
    \/ \E x \in Objects :
          WriteContent(p, x) \/ RenameOne(p, x) \/ PruneUnmark(p, x) \/ PruneDelete(p, x)
    \/ \E o \in PruneOps : PruneStart(p, o)
    \/ \E r \in Refs : ResolveRev(p, r) \/ SetRefImmediate(p, r) \/ DeleteRef(p, r)

\* They change the state of no other.
LEMMA Frames == ASSUME Typed, NEW p \in Procs, StepOf(p) PROVE Others({p})
<1>0. /\ pc \in [Procs -> Phases] /\ op \in [Procs -> TxnOps \cup PruneOps]
      /\ target \in [Procs -> Commits \cup {NoCommit}] /\ dir \in [Procs -> dirs \cup {NoDir}]
      /\ todo \in [Procs -> SUBSET Objects]
  BY Zenon DEF Typed, TypeOK
<1>1. ASSUME Return({p}), workload' = workload PROVE Others({p})
  BY <1>1, ReturnFrame, Zenon
<1>2. ASSUME NEW o \in TxnOps, NEW c \in Commits, Prepare(p, o, c) PROVE Others({p})
  <2>1. PICK d : dir' = [dir EXCEPT ![p] = d] BY <1>2, Zenon DEF Prepare
  <2> QED BY <1>0, <1>2, <2>1, Zenon DEF Prepare, Others, Goto
<1>3. ASSUME FetchCommit(p) \/ WriteFetched(p) \/ ScanCommit(p) \/ WriteCommit(p)
      PROVE  Others({p})
  BY <1>0, <1>3, Zenon DEF FetchCommit, WriteFetched, ScanCommit, WriteCommit, Others, Goto
<1>4. ASSUME CommitSync(p) \/ CommitObjects(p) \/ WriteRef(p) PROVE Others({p})
  BY <1>0, <1>4, Zenon DEF CommitSync, CommitObjects, WriteRef, Others, Goto
<1>5. ASSUME CommitUnlock(p) PROVE Others({p})
  BY <1>0, <1>1, <1>5, Zenon DEF CommitUnlock, Others, Goto
<1>6. ASSUME CommitCancelled(p) \/ Unmark(p) \/ Abort(p) \/ PruneEnd(p) \/ Die(p)
      PROVE  Others({p})
  BY <1>1, <1>6, Zenon DEF CommitCancelled, Unmark, Abort, PruneEnd, Die, Dead
<1>7. ASSUME NEW x \in Objects,
             WriteContent(p, x) \/ RenameOne(p, x) \/ PruneUnmark(p, x) \/ PruneDelete(p, x)
      PROVE  Others({p})
  BY <1>0, <1>7, Zenon DEF WriteContent, RenameOne, PruneUnmark, PruneDelete, Others
<1>8. ASSUME NEW o \in PruneOps, PruneStart(p, o) PROVE Others({p})
  BY <1>0, <1>8, Zenon DEF PruneStart, Others, Goto
<1>9. ASSUME NEW r \in Refs, ResolveRev(p, r) \/ DeleteRef(p, r) PROVE Others({p})
  BY <1>0, <1>9, Zenon DEF ResolveRev, DeleteRef, Others, Goto
<1>10. ASSUME NEW r \in Refs, SetRefImmediate(p, r) PROVE Others({p})
  BY <1>1, <1>10, Zenon DEF SetRefImmediate
<1> QED BY <1>2, <1>3, <1>4, <1>5, <1>6, <1>7, <1>8, <1>9, <1>10, Zenon DEF StepOf

\* Which steps change the names in objects/, the refs, the markers and the
\* staging directories.
Changes(p) ==
    /\ objects' = objects \/ \E x \in Objects : RenameOne(p, x) \/ PruneDelete(p, x)
    /\ refs' = refs \/ WriteRef(p) \/ \E r \in Refs : SetRefImmediate(p, r) \/ DeleteRef(p, r)
    /\ partial' = partial \/ FetchCommit(p) \/ Unmark(p) \/ \E x \in Objects : PruneUnmark(p, x)
    /\ \/ stage' = stage \/ WriteFetched(p) \/ WriteCommit(p) \/ Abort(p)
       \/ \E x \in Objects : WriteContent(p, x) \/ RenameOne(p, x)

\* By the definitions of the actions.
LEMMA StepChanges == ASSUME NEW p \in Procs, StepOf(p) PROVE Changes(p)
<1>1. ASSUME NEW o \in TxnOps, NEW c \in Commits, Prepare(p, o, c) PROVE Changes(p)
  BY <1>1, Zenon DEF Prepare, Changes
<1>2. CASE FetchCommit(p) \/ WriteFetched(p) \/ WriteCommit(p) \/ ScanCommit(p)
  BY <1>2, Zenon DEF FetchCommit, WriteFetched, WriteCommit, StageObject, ScanCommit, Changes
<1>3. CASE CommitSync(p) \/ CommitObjects(p) \/ WriteRef(p) \/ CommitUnlock(p) \/ CommitCancelled(p)
  BY <1>3, Zenon DEF CommitSync, CommitObjects, WriteRef, CommitUnlock, CommitCancelled, Changes
<1>4. CASE Unmark(p) \/ Abort(p) \/ PruneEnd(p) \/ Die(p)
  BY <1>4, Zenon DEF Unmark, Abort, PruneEnd, Die, Changes
<1>5. ASSUME NEW x \in Objects,
             WriteContent(p, x) \/ RenameOne(p, x) \/ PruneUnmark(p, x) \/ PruneDelete(p, x)
      PROVE  Changes(p)
  BY <1>5, Zenon DEF WriteContent, StageObject, RenameOne, PruneUnmark, PruneDelete, Changes
<1>6. ASSUME NEW o \in PruneOps, PruneStart(p, o) PROVE Changes(p)
  BY <1>6, Zenon DEF PruneStart, Changes
<1>7. ASSUME NEW r \in Refs, ResolveRev(p, r) \/ SetRefImmediate(p, r) \/ DeleteRef(p, r)
      PROVE  Changes(p)
  BY <1>7, Zenon DEF ResolveRev, SetRefImmediate, DeleteRef, Changes
<1> QED BY <1>1, <1>2, <1>3, <1>4, <1>5, <1>6, <1>7, Zenon DEF StepOf

\* A step is one of a process, or takes all of them away.
LEMMA NextSteps == [Next]_vars => (\E p \in Procs : StepOf(p)) \/ PowerLoss \/ UNCHANGED vars
BY Zenon DEF Next, StepOf

\* No operation has begun.
LEMMA InitKinds == Init => Kinds
BY Zenon DEF Init, Kinds, Kind, Sharing, Staging

\* What a process does says nothing of the kinds of the others.
LEMMA OthersKinds ==
    ASSUME Kinds, NEW S \in SUBSET Procs, Others(S), \A p \in S : Kind(p)' PROVE Kinds'
BY Zenon DEF Kinds, Kind, Others

\* A step of p keeps what the phase of p says of its operation.
LEMMA StepKind == ASSUME Typed, NEW p \in Procs, Kind(p), StepOf(p), Others({p}) PROVE Kind(p)'
<1>0. /\ pc \in [Procs -> Phases] /\ op \in [Procs -> TxnOps \cup PruneOps]
      /\ target \in [Procs -> Commits \cup {NoCommit}] /\ todo \in [Procs -> SUBSET Objects]
      /\ pc[p] \in Targeting => target[p] \in Commits
      /\ workload' = workload
  BY Zenon DEF Typed, TypeOK, Others
<1>1. ASSUME NEW o \in TxnOps, NEW c \in Commits, Prepare(p, o, c) PROVE Kind(p)'
  <2>1. Tree[c] \subseteq Content BY Trees
  <2> QED BY <1>0, <1>1, <2>1, Zenon DEF Prepare, Goto, Kind, Sharing, Staging
<1>2. CASE FetchCommit(p) \/ WriteFetched(p) \/ WriteCommit(p)
  BY <1>0, <1>2, Zenon DEF FetchCommit, WriteFetched, WriteCommit, Goto, Kind, Sharing, Staging
<1>3. CASE ScanCommit(p)
  <2>1. Root[target[p]] \in Content BY <1>0, <1>3, Trees, Zenon DEF ScanCommit, Targeting
  <2> QED BY <1>0, <1>3, <2>1, Zenon DEF ScanCommit, Goto, Kind, Sharing, Staging
<1>4. CASE CommitSync(p) \/ CommitObjects(p) \/ WriteRef(p)
  BY <1>0, <1>4, Zenon DEF CommitSync, CommitObjects, WriteRef, Goto, Kind, Sharing, Staging
<1>5. CASE Return({p})
  <2>1. pc'[p] = "idle" BY <1>5, Zenon DEF Return
  <2> QED BY <2>1, Zenon DEF Kind, Sharing, Staging
<1>6. CASE CommitUnlock(p)
  <2>1. CASE op[p] = "pull" /\ pc' = [pc EXCEPT ![p] = "unmark"] /\ UNCHANGED opVars
    BY <1>0, <1>6, <2>1, Zenon DEF CommitUnlock, Kind, Sharing, Staging
  <2> QED BY <1>5, <1>6, <2>1, Zenon DEF CommitUnlock, Goto
<1>7. CASE CommitCancelled(p) \/ Unmark(p) \/ Abort(p) \/ PruneEnd(p) \/ Die(p)
  BY <1>5, <1>7, Zenon DEF CommitCancelled, Unmark, Abort, PruneEnd, Die, Dead
<1>8. ASSUME NEW x \in Objects, WriteContent(p, x) PROVE Kind(p)'
  <2>1. Tree[target[p]] \subseteq Content
    BY <1>0, <1>8, Trees, Zenon DEF WriteContent, Targeting
  <2> QED BY <1>0, <1>8, <2>1, Zenon DEF WriteContent, Kind, Sharing, Staging
<1>9. ASSUME NEW x \in Objects, RenameOne(p, x) \/ PruneUnmark(p, x) \/ PruneDelete(p, x)
      PROVE  Kind(p)'
  BY <1>0, <1>9, Zenon DEF RenameOne, PruneUnmark, PruneDelete, Kind, Sharing, Staging
<1>10. ASSUME NEW o \in PruneOps, PruneStart(p, o) PROVE Kind(p)'
  BY <1>0, <1>10, Zenon DEF PruneStart, Goto, Kind, Sharing, Staging
<1>11. ASSUME NEW r \in Refs, ResolveRev(p, r) \/ DeleteRef(p, r) PROVE Kind(p)'
  BY <1>0, <1>11, Zenon DEF ResolveRev, DeleteRef, Goto, Kind, Sharing, Staging
<1>12. ASSUME NEW r \in Refs, SetRefImmediate(p, r) PROVE Kind(p)'
  BY <1>5, <1>12, Zenon DEF SetRefImmediate
<1> QED
  BY <1>1, <1>2, <1>3, <1>4, <1>6, <1>7, <1>8, <1>9, <1>10, <1>11, <1>12, Zenon DEF StepOf

\* For p by StepKind, for the others by OthersKinds.
LEMMA NextKinds == Typed /\ Kinds /\ [Next]_vars => Kinds'
<1> SUFFICES ASSUME Typed, Kinds, [Next]_vars PROVE Kinds'
  OBVIOUS
<1>1. ASSUME NEW p \in Procs, StepOf(p) PROVE Kinds'
  <2>1. Others({p}) BY <1>1, Frames
  <2>2. Kind(p)' BY <1>1, <2>1, StepKind DEF Kinds
  <2> QED BY <2>1, <2>2, OthersKinds
<1>2. CASE PowerLoss
  <2>1. \A q \in Procs : pc'[q] = "idle" BY <1>2, Zenon DEF PowerLoss, Dead, Return
  <2> QED BY <2>1, Zenon DEF Kinds, Kind, Sharing, Staging
<1>3. CASE UNCHANGED vars
  <2>1. Others({}) BY <1>3, Zenon DEF vars, Others
  <2> QED BY <2>1, OthersKinds
<1> QED BY <1>1, <1>2, <1>3, NextSteps

-----------------------------------------------------------------------------
(* The list of a prune *)

\* The list that a prune made at its start stays right.  A commit that is not on
\* it keeps its tree, if the traversal could enter the tree; a commit with a ref
\* is not on it; and without REFS_ONLY no commit is.
List(p) ==
    pc[p] = "prune" =>
        /\ \A c \in Commits : c \in objects \ todo[p] /\ Root[c] \in objects
                                 => Tree[c] \cap todo[p] = {}
        /\ \A r \in Refs : refs[r] # NoCommit => refs[r] \notin todo[p]
        /\ op[p] = "pruneorphans" => todo[p] \cap Commits = {}

Lists == \A p \in Procs : List(p)

\* No ref is set without a lock (ostree_repo_set_ref_immediate) next to a prune
\* that deletes commits.
RefsUnderLock(w) == ~({"setref", "prune"} \subseteq w.ops)

\* Whoever runs under a shared lock, nobody prunes.
LEMMA SharedNoPrune ==
    ASSUME LockHeld, NEW p \in Procs, pc[p] \in Sharing PROVE \A q \in Procs : pc[q] # "prune"
BY DEF LockHeld, Sharing, Staging, Lock!Compatible

\* A list that only shrinks, next to refs and objects that only go.
LEMMA ListShrinks ==
    ASSUME Lists, objects' \subseteq objects,
           \A r \in Refs : refs'[r] \in {refs[r], NoCommit},
           \A q \in Procs : pc'[q] = "prune" =>
               /\ pc[q] = "prune" /\ op'[q] = op[q] /\ todo'[q] \subseteq todo[q]
               /\ objects' \ todo'[q] \subseteq objects \ todo[q]
    PROVE  Lists'
BY DEF Lists, List

\* What the list of a prune is made from.
LEMMA StartList ==
    ASSUME Typed, LockHeld, NEW p \in Procs, NEW o \in PruneOps, PruneStart(p, o)
    PROVE  Lists'
<1>1. \A q \in Procs \ {p} : pc[q] # "prune" /\ pc'[q] = pc[q]
  BY Zenon DEF PruneStart, Lock!Change, Lock!Compatible, LockHeld, Goto, Typed, TypeOK
<1>2. /\ todo'[p] = objects \ Reachable(o) /\ refs' = refs /\ objects' = objects /\ op'[p] = o
      /\ \A r \in Refs : refs[r] # NoCommit => refs[r] \in Commits
  BY Zenon DEF PruneStart, Typed, TypeOK
<1>3. ASSUME NEW c \in Commits, c \in objects \ todo'[p], Root[c] \in objects
      PROVE  Tree[c] \cap todo'[p] = {}
  <2>1. c \in Reachable(o) BY <1>2, <1>3
  <2>2. c \notin Content /\ \A e \in Commits : Root[e] \in Content /\ Tree[e] \subseteq Content
    BY StoreConstants
  <2>3. Roots(o) \subseteq Commits
    BY StoreConstants DEF Roots, Typed, TypeOK
  <2>4. c \in Roots(o) BY <2>1, <2>2, <2>3 DEF Reachable
  <2> QED BY <1>2, <1>3, <2>4 DEF Reachable
<1>4. ASSUME NEW r \in Refs, refs[r] # NoCommit PROVE refs[r] \notin todo'[p]
  BY <1>2, <1>4 DEF Reachable, Roots
<1>5. o = "pruneorphans" => todo'[p] \cap Commits = {} BY <1>2 DEF Reachable, Roots
<1> QED BY <1>1, <1>2, <1>3, <1>4, <1>5 DEF Lists, List

\* A step of a process keeps the lists right.
LEMMA StepLists ==
    ASSUME Typed, LockHeld, Kinds, Lists, RefsUnderLock(workload),
           NEW p \in Procs, StepOf(p), Others({p})
    PROVE  Lists'
<1>0. /\ pc \in [Procs -> Phases] /\ op \in [Procs -> TxnOps \cup PruneOps]
      /\ todo \in [Procs -> SUBSET Objects] /\ refs \in [Refs -> Commits \cup {NoCommit}]
  BY Zenon DEF Typed, TypeOK
<1>1. CASE pc[p] \in Sharing /\ pc'[p] # "prune"
  BY <1>1, SharedNoPrune, Zenon DEF Others, Lists, List
<1>2. CASE /\ objects' = objects /\ \A r \in Refs : refs'[r] \in {refs[r], NoCommit}
           /\ pc'[p] = "prune" => pc[p] = "prune" /\ op'[p] = op[p] /\ todo'[p] = todo[p]
  <2>1. \A q \in Procs : pc'[q] = "prune" => pc[q] = "prune" /\ op'[q] = op[q] /\ todo'[q] = todo[q]
    BY <1>2, Zenon DEF Others
  <2> QED BY <1>2, <2>1, ListShrinks, Zenon
<1>3. ASSUME NEW o \in TxnOps, NEW c \in Commits, Prepare(p, o, c) PROVE Lists'
  <2>1. pc'[p] # "prune" /\ objects' = objects /\ refs' = refs
    BY <1>0, <1>3, Zenon DEF Prepare, Goto
  <2> QED BY <1>2, <2>1
<1>4. CASE FetchCommit(p) \/ WriteFetched(p) \/ ScanCommit(p) \/ WriteCommit(p)
  BY <1>0, <1>1, <1>4, Zenon
     DEF FetchCommit, WriteFetched, ScanCommit, WriteCommit, Goto, Sharing, Staging
<1>5. CASE CommitSync(p) \/ CommitObjects(p) \/ WriteRef(p) \/ CommitUnlock(p)
  <2>1. pc[p] \in Sharing /\ pc'[p] # "prune"
    BY <1>0, <1>5, Zenon DEF CommitSync, CommitObjects, WriteRef, CommitUnlock, Return, Goto, Sharing, Staging
  <2> QED BY <1>1, <2>1
<1>6. CASE CommitCancelled(p) \/ Unmark(p) \/ Abort(p) \/ PruneEnd(p) \/ Die(p)
  <2>1. Return({p}) /\ objects' = objects /\ refs' = refs
    BY <1>6, Zenon DEF CommitCancelled, Unmark, Abort, PruneEnd, Die, Dead
  <2>2. pc'[p] = "idle" BY <2>1, Zenon DEF Return
  <2> QED BY <1>2, <2>1, <2>2
<1>7. ASSUME NEW x \in Objects, WriteContent(p, x) \/ RenameOne(p, x) PROVE Lists'
  BY <1>1, <1>7, Zenon DEF WriteContent, RenameOne, Sharing, Staging
<1>8. ASSUME NEW x \in Objects, PruneUnmark(p, x) PROVE Lists'
  BY <1>2, <1>8, Zenon DEF PruneUnmark
<1>9. ASSUME NEW x \in Objects, PruneDelete(p, x) PROVE Lists'
  <2>1. /\ pc' = pc /\ refs' = refs /\ op' = op /\ objects' = objects \ {x}
        /\ todo'[p] = todo[p] \ {x}
    BY <1>0, <1>9, Zenon DEF PruneDelete
  <2>2. \A q \in Procs \ {p} : pc[q] # "prune"
    BY <1>9, Zenon DEF PruneDelete, LockHeld, Lock!Compatible
  <2> QED BY <2>1, <2>2, ListShrinks
<1>10. ASSUME NEW o \in PruneOps, PruneStart(p, o) PROVE Lists'
  BY <1>10, StartList
<1>11. ASSUME NEW r \in Refs, ResolveRev(p, r) \/ DeleteRef(p, r) PROVE Lists'
  BY <1>0, <1>2, <1>11, Zenon DEF ResolveRev, DeleteRef, Goto
<1>12. ASSUME NEW r \in Refs, SetRefImmediate(p, r) PROVE Lists'
  <2>1. "setref" \in workload.ops /\ target[p] \in Commits
    BY <1>12, Zenon DEF SetRefImmediate, Kinds, Kind, Typed, Targeting
  <2>2. \A q \in Procs : pc[q] = "prune" => op[q] = "pruneorphans"
    BY <2>1, Zenon DEF Kinds, Kind, RefsUnderLock, PruneOps
  <2>3. /\ objects' = objects /\ pc'[p] = "idle"
        /\ \A s \in Refs : refs'[s] = IF s = r THEN target[p] ELSE refs[s]
    BY <1>0, <1>12, Zenon DEF SetRefImmediate, Return
  <2>4. ASSUME NEW q \in Procs PROVE List(q)'
    BY <2>1, <2>2, <2>3, Zenon DEF Others, Lists, List
  <2> QED BY <2>4 DEF Lists
<1> QED
  BY <1>3, <1>4, <1>5, <1>6, <1>7, <1>8, <1>9, <1>10, <1>11, <1>12, Zenon DEF StepOf

\* The invariant that the proofs share: types, locks, kinds and lists.
Control == Typed /\ LockHeld /\ Kinds /\ Lists

\* The invariant holds before the first operation...
LEMMA InitControl == Init => Control
BY InitTyped, InitLockHeld, InitKinds, Zenon DEF Control, Init, Lists, List

\* ...and every step keeps it.
LEMMA NextControl == RefsUnderLock(workload) /\ Control /\ [Next]_vars => Control'
<1> SUFFICES ASSUME RefsUnderLock(workload), Control, [Next]_vars PROVE Control'
  OBVIOUS
<1>1. Typed /\ LockHeld /\ Kinds /\ Lists BY Zenon DEF Control
<1>2. Typed' /\ LockHeld' /\ Kinds' BY <1>1, NextTyped, NextLockHeld, NextKinds
<1> SUFFICES Lists' BY <1>2, Zenon DEF Control
<1>3. ASSUME NEW p \in Procs, StepOf(p) PROVE Lists'
  BY <1>1, <1>3, Frames, StepLists, Zenon
<1>4. CASE PowerLoss
  <2>1. \A q \in Procs : pc'[q] = "idle" BY <1>4, Zenon DEF PowerLoss, Dead, Return
  <2> QED BY <2>1 DEF Lists, List
<1>5. CASE UNCHANGED vars BY <1>1, <1>5, ListShrinks, Zenon DEF vars
<1> QED BY <1>3, <1>4, <1>5, NextSteps

\* What RefedIsKept says of a step.
KeepsRefed ==
    \A r \in Refs :
        refs[r] \notin partial \cup {NoCommit} /\ refs'[r] = refs[r] /\
        {refs[r]} \cup Tree[refs[r]] \subseteq objects
            => {refs[r]} \cup Tree[refs[r]] \subseteq objects'

\* Objects only go by a prune, whose list spares what a ref needs.
LEMMA NextKeepsRefed ==
    ASSUME Control, [Next]_vars, ~PowerLoss PROVE KeepsRefed
<1>1. ASSUME objects \subseteq objects' PROVE KeepsRefed BY <1>1 DEF KeepsRefed
<1>2. ASSUME NEW p \in Procs, NEW x \in Objects, PruneDelete(p, x) PROVE KeepsRefed
  <2>1. pc[p] = "prune" /\ x \in todo[p] /\ objects' = objects \ {x}
    BY <1>2, Zenon DEF PruneDelete
  <2>2. List(p) BY Zenon DEF Control, Lists
  <2>3. ASSUME NEW r \in Refs, refs[r] # NoCommit, {refs[r]} \cup Tree[refs[r]] \subseteq objects
        PROVE  x \notin {refs[r]} \cup Tree[refs[r]]
    <3>1. refs[r] \in Commits BY <2>3, Zenon DEF Control, Typed, TypeOK
    <3>2. Root[refs[r]] \in objects BY <2>3, <3>1, StoreConstants
    <3> QED BY <2>1, <2>2, <2>3, <3>1, <3>2 DEF List
  <2> QED BY <2>1, <2>3 DEF KeepsRefed
<1>3. ASSUME NEW p \in Procs, StepOf(p) PROVE KeepsRefed
  <2>1. objects' = objects \/ \E x \in Objects : RenameOne(p, x) \/ PruneDelete(p, x)
    BY <1>3, StepChanges, Zenon DEF Changes
  <2>2. \A x \in Objects : RenameOne(p, x) => objects \subseteq objects' BY Zenon DEF RenameOne
  <2> QED BY <1>1, <1>2, <2>1, <2>2
<1>4. CASE UNCHANGED vars BY <1>1, <1>4, Zenon DEF vars
<1> QED BY <1>3, <1>4, NextSteps

(***************************************************************************)
(* What is in the store is complete, as a step of one process leaves it:   *)
(* commits are whole or marked, transactions have what they go on from,    *)
(* and refs point to what is readable.                                     *)
(***************************************************************************)
-----------------------------------------------------------------------------
(* The workloads *)

\* Outside these workloads completeness does not hold, as the runs of the prune
\* that meets a crash show: a prune may delete a marker while the directory of a
\* transaction that died still has its commit, and a ref that moves elsewhere
\* lets a prune delete a commit that is about to be unmarked.

\* Nothing is pruned: the power may fail, refs may be set and deleted by anyone.
NoPrune(w) == w.ops \cap PruneOps = {}

\* Prunes delete no commit, only content that no commit needs.
OrphansOnly(w) == w.ops \cap {"prune", "powerloss"} = {}

\* Nothing is pulled, every commit is built here.
Local(w) == w.ops \cap {"pull", "pullmeta", "setref", "powerloss"} = {}

\* Pulls next to prunes, where a ref stays with its commit and a process that
\* dies leaves nothing staged.
Careful(w) ==
    /\ w.ops \cap {"setref", "delref", "powerloss"} = {}
    /\ w.interruptible \subseteq {"idle", "ref", "unlock", "unmark"}
    /\ \A c, e \in w.commits : w.branch[c] = w.branch[e] => c = e

\* What the theorems on completeness are about.
Orderly(w) == NoPrune(w) \/ OrphansOnly(w) \/ Local(w) \/ Careful(w)

\* Orderly workloads set no ref without a lock next to a prune of refs.
LEMMA OrderlyRefs == ASSUME NEW w, Orderly(w) PROVE RefsUnderLock(w)
BY DEF Orderly, NoPrune, OrphansOnly, Local, Careful, RefsUnderLock, PruneOps

-----------------------------------------------------------------------------
(* The invariant *)

\* Commits that are pulled, not built here.
Pulled == Commits \ workload.built

\* c and its tree are in objects/.
Whole(c) == {c} \cup Tree[c] \subseteq objects

\* Whoever finds c knows what is missing: nothing, or it is marked.
Live(c) == c \in partial \/ Whole(c)

\* A prune is about to delete c.
Doomed(c) == \E p \in Procs : pc[p] = "prune" /\ c \in todo[p]

\* c is stored, staged by someone, or about to be.
Present(c) ==
    \/ c \in objects
    \/ \E d \in Dirs : c \in stage[d]
    \/ \E p \in Procs : pc[p] = "writecommit" /\ target[p] = c

\* A pulled commit that may be found is marked or whole; where nothing is pulled
\* there is none.
Marked(c) == Present(c) => ~Local(workload) /\ (Live(c) \/ Doomed(c))
AllMarked == \A c \in Pulled : Marked(c)

\* What the transaction of p finds of its own commit.
Seen(p) == objects \cup stage[dir[p]]

\* How far the transaction of p is: what is not yet stored is still to be written.
Progress(p) ==
    /\ pc[p] = "write" /\ op[p] = "commit" => Tree[target[p]] \subseteq todo[p] \cup Seen(p)
    /\ pc[p] = "write" /\ op[p] = "pull" =>
         Root[target[p]] \in todo[p] \/ Tree[target[p]] \subseteq todo[p] \cup Seen(p)
    /\ pc[p] = "rename" =>
         target[p] \in Seen(p) /\ (op[p] # "pullmeta" => Tree[target[p]] \subseteq Seen(p))
    /\ pc[p] \in {"ref", "unlock"} =>
         target[p] \in objects /\ (op[p] # "pullmeta" => Tree[target[p]] \subseteq objects)
AllProgress == \A p \in Procs : Progress(p)

\* What a ref may point to.
Readable(c) == c \in objects /\ (c \in partial \/ Tree[c] \subseteq objects)
\* Refs, and a ref about to be set, point to what is readable.
Named ==
    /\ \A r \in Refs : refs[r] # NoCommit => Readable(refs[r])
    /\ \A p \in Procs : pc[p] = "setref" => Readable(target[p])

\* What is unmarked has become complete.
Unmarking == \A p \in Procs : pc[p] = "unmark" => Whole(target[p])

\* In a careful workload a ref stays with its commit, and no staging directory
\* is left behind with anything in it.
Sticks ==
    Careful(workload) =>
        \A p \in Procs :
            pc[p] \in {"unlock", "unmark"} => refs[workload.branch[target[p]]] = target[p]
Tidy ==
    Careful(workload) =>
        \A d \in Dirs : stage[d] # {} => \E p \in Procs : pc[p] \in Staging /\ dir[p] = d

\* What a step of one process has to keep.
Complete == AllMarked /\ AllProgress /\ Named /\ Unmarking /\ Sticks /\ Tidy

-----------------------------------------------------------------------------
(* Progress *)

\* Under the shared lock of q, steps of the others take nothing from what it sees.
LEMMA SeenGrows ==
    ASSUME Control, [Next]_vars, NEW p \in Procs, NEW q \in Procs \ {p}, StepOf(p), Others({p}),
           pc[q] \in Sharing
    PROVE  objects \subseteq objects' /\ (pc[q] \in Staging => Seen(q) \subseteq Seen(q)')
<1>1. objects' = objects \/ \E x \in Objects : RenameOne(p, x) \/ PruneDelete(p, x)
  BY StepChanges, Zenon DEF Changes
<1>2. \A x \in Objects : RenameOne(p, x) => objects \subseteq objects' BY Zenon DEF RenameOne
<1>3. pc[p] # "prune" BY SharedNoPrune, Zenon DEF Control
<1>4. \A x \in Objects : ~PruneDelete(p, x) BY <1>3, Zenon DEF PruneDelete
<1>5. objects \subseteq objects' BY <1>1, <1>2, <1>4
<1>6. ASSUME pc[q] \in Staging PROVE stage[dir[q]] \subseteq stage'[dir[q]] \cup objects'
  <2>1. KeepsStaged BY NextKeepsStaged, Zenon DEF Control
  <2>2. dir[q] # NoDir BY <1>6, Nones, Zenon DEF Control, Typed, TypeOK
  <2>3. pc[q] # "idle" /\ pc'[q] # "idle" BY <1>6, Zenon DEF Others, Staging
  <2> QED BY <2>1, <2>2, <2>3 DEF KeepsStaged
<1> QED BY <1>5, <1>6, Zenon DEF Seen, Others

\* ...so a step of p leaves the others where they are.
LEMMA OtherProgress ==
    ASSUME Control, [Next]_vars, NEW p \in Procs, NEW q \in Procs \ {p}, StepOf(p), Others({p}),
           Progress(q)
    PROVE  Progress(q)'
<1>1. /\ pc'[q] = pc[q] /\ op'[q] = op[q] /\ target'[q] = target[q] /\ todo'[q] = todo[q]
  BY Zenon DEF Others
<1>2. CASE pc[q] \in Staging
  <2>1. Seen(q) \subseteq Seen(q)' BY <1>2, SeenGrows DEF Sharing
  <2> QED BY <1>1, <1>2, <2>1, Zenon DEF Progress, Staging
<1>3. CASE pc[q] \in {"ref", "unlock"}
  <2>1. objects \subseteq objects' BY <1>3, SeenGrows DEF Sharing
  <2> QED BY <1>1, <1>3, <2>1, Zenon DEF Progress
<1> QED BY <1>1, <1>2, <1>3, Zenon DEF Progress, Staging

\* Nothing that a transaction sees is on the list of a prune.
LEMMA NotDoomed ==
    ASSUME Control, NEW p \in Procs, pc[p] \in Sharing, NEW c, Marked(c), Present(c) PROVE Live(c)
BY SharedNoPrune, Zenon DEF Control, Marked, Doomed

\* A staged object is one the transaction finds.
LEMMA StageSeen ==
    ASSUME Typed, NEW p \in Procs, NEW x, pc[p] \in Staging, StageObject(p, x), dir' = dir
    PROVE  Seen(p)' = Seen(p) \cup {x} /\ objects' = objects
BY DEF StageObject, HasObject, Seen, Typed, TypeOK

\* The transaction of a process gets on.
LEMMA StepProgress ==
    ASSUME Control, AllMarked, NEW p \in Procs, Progress(p), StepOf(p), Others({p})
    PROVE  Progress(p)'
<1>0. /\ pc \in [Procs -> Phases] /\ op \in [Procs -> TxnOps \cup PruneOps]
      /\ target \in [Procs -> Commits \cup {NoCommit}] /\ todo \in [Procs -> SUBSET Objects]
      /\ dir \in [Procs -> dirs \cup {NoDir}] /\ stage \in [Dirs -> SUBSET Objects]
  BY Zenon DEF Control, Typed, TypeOK
<1>1. /\ Typed /\ Kind(p)
      /\ pc[p] \in Targeting => target[p] \in Commits
      /\ pc[p] \in Staging => dir[p] \in Dirs
  BY Zenon DEF Control, Kinds, Typed, TypeOK
<1>2. ASSUME pc'[p] \notin {"write", "rename", "ref", "unlock"} PROVE Progress(p)'
  BY <1>2, Zenon DEF Progress
<1>3. ASSUME NEW o \in TxnOps, NEW c \in Commits, Prepare(p, o, c) PROVE Progress(p)'
  <2>1. /\ pc'[p] = IF o = "commit" THEN "write" ELSE "scan"
        /\ op'[p] = o /\ target'[p] = c /\ todo'[p] = IF o = "commit" THEN Tree[c] ELSE {}
    BY <1>0, <1>3, Zenon DEF Prepare, Goto
  <2> QED BY <2>1, Zenon DEF Progress
<1>4. CASE FetchCommit(p) \/ WriteFetched(p)
  <2>1. pc'[p] \in {"writecommit", "scan"}
    BY <1>0, <1>4, Zenon DEF FetchCommit, WriteFetched, Goto
  <2> QED BY <1>2, <2>1
<1>5. CASE ScanCommit(p)
  <2>1. /\ pc[p] = "scan" /\ pc'[p] = "write" /\ op' = op /\ target' = target
        /\ todo'[p] = IF (resume[p] \/ target[p] \in partial) /\ op[p] = "pull"
                      THEN {Root[target[p]]} ELSE {}
        /\ objects' = objects /\ HasObject(p, target[p])
    BY <1>0, <1>5, Zenon DEF ScanCommit, Goto
  <2>2. op[p] # "commit" /\ target[p] \in Pulled /\ dir[p] \in Dirs
    BY <1>1, <2>1, Zenon DEF Kind, Sharing, Staging, Targeting, Pulled
  <2>3. Present(target[p]) BY <2>1, <2>2 DEF HasObject, Present
  <2>4. Live(target[p]) BY <2>1, <2>2, <2>3, NotDoomed DEF AllMarked, Sharing, Staging
  <2>5. CASE target[p] \in partial BY <2>1, <2>2, <2>5, Zenon DEF Progress
  <2>6. CASE Whole(target[p]) BY <2>1, <2>2, <2>6, Zenon DEF Progress, Whole, Seen
  <2> QED BY <2>4, <2>5, <2>6 DEF Live
<1>6. ASSUME NEW x \in Objects, WriteContent(p, x) PROVE Progress(p)'
  <2>1. /\ pc[p] = "write" /\ pc' = pc /\ op' = op /\ target' = target /\ x \in todo[p]
        /\ todo'[p] = IF op[p] = "pull" /\ x = Root[target[p]]
                      THEN Tree[target[p]] \ {x} ELSE todo[p] \ {x}
    BY <1>0, <1>6, Zenon DEF WriteContent
  <2>2. Seen(p)' = Seen(p) \cup {x} BY <1>1, <1>6, <2>1, StageSeen DEF WriteContent, Staging
  <2>3. CASE op[p] = "commit" BY <2>1, <2>2, <2>3, Zenon DEF Progress
  <2>4. CASE op[p] = "pull" BY <2>1, <2>2, <2>4, Zenon DEF Progress
  <2> QED BY <2>1, <2>3, <2>4, Zenon DEF Progress
<1>7. CASE WriteCommit(p)
  <2>1. pc[p] = "write" /\ pc' = pc /\ op' = op /\ target' = target /\ todo' = todo
    BY <1>7, Zenon DEF WriteCommit
  <2>2. Seen(p)' = Seen(p) \cup {target[p]}
    BY <1>1, <1>7, <2>1, StageSeen DEF WriteCommit, Staging
  <2> QED BY <2>1, <2>2, Zenon DEF Progress
<1>8. CASE CommitSync(p)
  <2>1. /\ pc[p] = "write" /\ pc'[p] = "rename" /\ op' = op /\ target' = target /\ todo[p] = {}
        /\ objects' = objects /\ stage' = stage /\ dir' = dir /\ target[p] \in Seen(p)
    BY <1>0, <1>8, Zenon DEF CommitSync, Goto, HasObject, Seen
  <2>2. op[p] \in TxnOps BY <1>1, <2>1, Zenon DEF Kind, Sharing, Staging
  <2> QED BY <2>1, <2>2, Zenon DEF Progress, Seen, TxnOps
<1>9. ASSUME NEW x \in Objects, RenameOne(p, x) PROVE Progress(p)'
  <2>1. pc[p] = "rename" /\ pc' = pc /\ op' = op /\ target' = target
    BY <1>9, Zenon DEF RenameOne
  <2>2. Seen(p)' = Seen(p) BY <1>0, <1>1, <1>9, <2>1, Zenon DEF RenameOne, Seen, Staging
  <2> QED BY <2>1, <2>2, Zenon DEF Progress
<1>10. CASE CommitObjects(p) \/ WriteRef(p)
  <2>1. /\ op' = op /\ target' = target /\ objects' = objects /\ pc'[p] \in {"ref", "unlock"}
        /\ \/ pc[p] = "rename" /\ stage[dir[p]] = {}
           \/ pc[p] = "ref"
    BY <1>0, <1>10, Zenon DEF CommitObjects, WriteRef, Goto
  <2> QED BY <2>1, Zenon DEF Progress, Seen
<1>11. CASE CommitUnlock(p) \/ CommitCancelled(p) \/ Unmark(p) \/ Abort(p) \/ PruneEnd(p) \/ Die(p)
  <2>1. Return({p}) \/ pc' = [pc EXCEPT ![p] = "unmark"]
    BY <1>11, Zenon DEF CommitUnlock, CommitCancelled, Unmark, Abort, PruneEnd, Die, Dead, Goto
  <2>2. pc'[p] \in {"idle", "unmark"} BY <1>0, <2>1, Zenon DEF Return
  <2> QED BY <1>2, <2>2
<1>12. ASSUME NEW x \in Objects, PruneUnmark(p, x) \/ PruneDelete(p, x) PROVE Progress(p)'
  BY <1>2, <1>12, Zenon DEF PruneUnmark, PruneDelete
<1>13. ASSUME NEW o \in PruneOps, PruneStart(p, o) PROVE Progress(p)'
  BY <1>0, <1>2, <1>13, Zenon DEF PruneStart, Goto
<1>14. ASSUME NEW r \in Refs, ResolveRev(p, r) \/ SetRefImmediate(p, r) \/ DeleteRef(p, r)
       PROVE  Progress(p)'
  BY <1>0, <1>2, <1>14, Zenon DEF ResolveRev, SetRefImmediate, DeleteRef, Goto, Return
<1> QED
  BY <1>3, <1>4, <1>5, <1>6, <1>7, <1>8, <1>9, <1>10, <1>11, <1>12, <1>13, <1>14, Zenon DEF StepOf

-----------------------------------------------------------------------------
(* Markers *)

\* A prune spares the trees of the commits that are not on its list.
LEMMA Spares ==
    ASSUME Control, NEW p \in Procs, NEW x, PruneDelete(p, x),
           NEW c \in Commits, c \notin todo[p], Whole(c)
    PROVE  Whole(c)'
<1>1. pc[p] = "prune" /\ x \in todo[p] /\ objects' = objects \ {x} BY Zenon DEF PruneDelete
<1>2. Root[c] \in objects BY StoreConstants DEF Whole
<1>3. Tree[c] \cap todo[p] = {} BY <1>1, <1>2, Zenon DEF Control, Lists, List, Whole
<1> QED BY <1>1, <1>3 DEF Whole

\* What a prune has on its list: with NoPrune there is none, without REFS_ONLY no commits.
LEMMA ListKinds ==
    ASSUME Control, NEW p \in Procs, pc[p] = "prune", NEW c \in Commits, c \in todo[p],
           NoPrune(workload) \/ OrphansOnly(workload)
    PROVE  FALSE
BY Zenon DEF Control, Kinds, Kind, Lists, List, NoPrune, OrphansOnly, PruneOps

\* A prune that ends leaves nothing half deleted.
LEMMA EndsClean ==
    ASSUME Control, Orderly(workload), ~Local(workload), NEW p \in Procs, pc[p] = "prune",
           todo[p] = {} \/ "prune" \in workload.interruptible, NEW c \in Commits
    PROVE  c \notin todo[p]
BY ListKinds DEF Orderly, Careful

\* A commit whose objects and marker stay remains marked or whole.
LEMMA MarkedKept ==
    ASSUME NEW c, Marked(c), workload' = workload, Present(c)' => Present(c),
           ~Local(workload) /\ Live(c) => Live(c)',
           ~Local(workload) /\ Doomed(c) => Live(c)' \/ Doomed(c)'
    PROVE  Marked(c)'
BY DEF Marked

\* Steps that neither mark nor unmark, add no commit and end no prune.
LEMMA QuietMarked ==
    ASSUME NEW p \in Procs, Others({p}), NEW c, Marked(c),
           objects \subseteq objects', partial' = partial, Present(c)' => Present(c),
           pc[p] = "prune" => pc'[p] = "prune" /\ todo'[p] = todo[p]
    PROVE  Marked(c)'
<1>1. workload' = workload /\ \A q \in Procs \ {p} : pc'[q] = pc[q] /\ todo'[q] = todo[q]
  BY Zenon DEF Others
<1>2. Live(c) => Live(c)' BY DEF Live, Whole
<1>3. Doomed(c) => Doomed(c)' BY <1>1 DEF Doomed
<1> QED BY <1>1, <1>2, <1>3, MarkedKept

\* A commit that is nowhere new.
LEMMA NoNewPresent ==
    ASSUME NEW p \in Procs, Others({p}), NEW c, c \in objects' => Present(c),
           \A d \in Dirs : c \in stage'[d] => Present(c),
           pc'[p] = "writecommit" => pc[p] = "writecommit" /\ target'[p] = target[p]
    PROVE  Present(c)' => Present(c)
<1>1. \A q \in Procs \ {p} : pc'[q] = pc[q] /\ target'[q] = target[q] BY Zenon DEF Others
<1> QED BY <1>1 DEF Present

\* A pulled commit that is not whole stays marked.
LEMMA StepMarked ==
    ASSUME Control, Complete, Orderly(workload), NEW p \in Procs, StepOf(p), Others({p}),
           NEW c \in Pulled
    PROVE  Marked(c)'
<1>0. /\ pc \in [Procs -> Phases] /\ target \in [Procs -> Commits \cup {NoCommit}]
      /\ todo \in [Procs -> SUBSET Objects] /\ stage \in [Dirs -> SUBSET Objects]
  BY Zenon DEF Control, Typed, TypeOK
<1>1. /\ Typed /\ Kind(p) /\ Marked(c) /\ c \in Commits \ Content
      /\ pc[p] \in Targeting => target[p] \in Commits
      /\ pc[p] \in Staging => dir[p] \in Dirs
  BY StoreConstants, Zenon DEF Control, Kinds, Typed, TypeOK, Complete, AllMarked, Pulled
<1>2. workload' = workload BY Zenon DEF Others
<1>3. ASSUME objects' = objects, partial' = partial, stage' = stage,
             pc'[p] = "writecommit" => pc[p] = "writecommit" /\ target'[p] = target[p],
             pc[p] = "prune" => pc'[p] = "prune" /\ todo'[p] = todo[p]
      PROVE  Marked(c)'
  <2>1. Present(c)' => Present(c) BY <1>3, NoNewPresent DEF Present
  <2> QED BY <1>1, <1>3, <2>1, QuietMarked
<1>4. ASSUME NEW o \in TxnOps, NEW e \in Commits, Prepare(p, o, e) PROVE Marked(c)'
  <2>1. /\ pc[p] = "idle" /\ pc'[p] \in {"write", "scan"}
        /\ objects' = objects /\ partial' = partial /\ stage' = stage
    BY <1>0, <1>4, Zenon DEF Prepare, Goto
  <2> QED BY <1>3, <2>1
<1>5. CASE FetchCommit(p)
  <2>1. /\ objects' = objects /\ partial' = partial \cup {target[p]} /\ stage' = stage /\ target' = target
        /\ pc[p] = "scan" /\ pc'[p] = "writecommit"
    BY <1>0, <1>5, Zenon DEF FetchCommit, Goto
  <2>2. ~Local(workload) BY <1>1, <2>1, Zenon DEF Kind, Sharing, Staging, TxnOps, Local
  <2>3. CASE c = target[p] BY <1>2, <2>1, <2>2, <2>3 DEF Marked, Live
  <2>4. CASE c # target[p]
    <3>1. Present(c)' => Present(c) BY <2>1, <2>4, Zenon DEF Present, Others
    <3>2. Live(c) => Live(c)' BY <2>1 DEF Live, Whole
    <3>3. Doomed(c) => Doomed(c)' BY <2>1, Zenon DEF Doomed, Others
    <3> QED BY <1>1, <1>2, <3>1, <3>2, <3>3, MarkedKept
  <2> QED BY <2>3, <2>4
<1>6. ASSUME NEW x \in Objects, StageObject(p, x), partial' = partial,
             pc[p] \in Staging, pc'[p] \in {"scan", "write"},
             c # x \/ (pc[p] = "writecommit" /\ x = target[p])
      PROVE  Marked(c)'
  <2>1. objects' = objects BY <1>6, Zenon DEF StageObject
  <2>2. \A d \in Dirs : stage'[d] \subseteq stage[d] \cup {x}
    BY <1>0, <1>6, Zenon DEF StageObject
  <2>3. \A d \in Dirs : c \in stage'[d] => Present(c) BY <1>6, <2>2 DEF Present
  <2>4. Present(c)' => Present(c) BY <1>6, <2>1, <2>3, NoNewPresent DEF Present
  <2> QED BY <1>1, <1>6, <2>1, <2>4, QuietMarked DEF Staging
<1>7. CASE WriteFetched(p)
  BY <1>0, <1>1, <1>6, <1>7, Zenon DEF WriteFetched, Goto, Staging, Targeting, Objects
<1>8. CASE WriteCommit(p)
  <2>1. c # target[p] BY <1>1, <1>8, Zenon DEF WriteCommit, Kind, Sharing, Staging, Pulled
  <2> QED BY <1>1, <1>6, <1>8, <2>1, Zenon DEF WriteCommit, Staging, Targeting, Objects
<1>9. ASSUME NEW x \in Objects, WriteContent(p, x) PROVE Marked(c)'
  <2>1. c # x BY <1>1, <1>9, Zenon DEF WriteContent, Kind
  <2>2. StageObject(p, x) /\ partial' = partial /\ pc[p] = "write" /\ pc'[p] = "write"
    BY <1>9, Zenon DEF WriteContent
  <2> QED BY <1>6, <2>1, <2>2 DEF Staging
<1>10. CASE ScanCommit(p) \/ CommitSync(p) \/ CommitObjects(p) \/ WriteRef(p)
  BY <1>0, <1>3, <1>10, Zenon DEF ScanCommit, CommitSync, CommitObjects, WriteRef, Goto
<1>11. ASSUME NEW x \in Objects, RenameOne(p, x) PROVE Marked(c)'
  <2>1. /\ pc[p] = "rename" /\ pc' = pc /\ x \in stage[dir[p]] /\ objects' = objects \cup {x}
        /\ partial' = partial /\ \A d \in Dirs : stage'[d] \subseteq stage[d]
    BY <1>0, <1>11, Zenon DEF RenameOne
  <2>2. c \in objects' => Present(c) BY <1>1, <2>1 DEF Present, Staging
  <2>3. Present(c)' => Present(c) BY <2>1, <2>2, NoNewPresent DEF Present
  <2> QED BY <1>1, <2>1, <2>3, QuietMarked
<1>12. CASE CommitUnlock(p) \/ CommitCancelled(p)
  <2>1. /\ pc[p] = "unlock" /\ objects' = objects /\ partial' = partial /\ stage' = stage
        /\ Return({p}) \/ pc' = [pc EXCEPT ![p] = "unmark"]
    BY <1>12, Zenon DEF CommitUnlock, CommitCancelled, Goto
  <2>2. pc'[p] \in {"idle", "unmark"} BY <1>0, <2>1, Zenon DEF Return
  <2> QED BY <1>3, <2>1, <2>2
<1>13. CASE Unmark(p)
  <2>1. /\ pc[p] = "unmark" /\ objects' = objects /\ partial' = partial \ {target[p]} /\ stage' = stage
        /\ Return({p})
    BY <1>13, Zenon DEF Unmark
  <2>2. pc'[p] = "idle" BY <2>1, Zenon DEF Return
  <2>3. Present(c)' => Present(c) BY <2>1, <2>2, NoNewPresent DEF Present
  <2>4. Live(c) => Live(c)' BY <2>1, Zenon DEF Complete, Unmarking, Live, Whole
  <2>5. Doomed(c) => Doomed(c)' BY <2>1, Zenon DEF Doomed, Others
  <2> QED BY <1>1, <1>2, <2>3, <2>4, <2>5, MarkedKept
<1>14. ASSUME Return({p}), objects' = objects, partial' = partial,
              \A d \in Dirs : stage'[d] \subseteq stage[d],
              pc[p] = "prune" => todo[p] = {} \/ "prune" \in workload.interruptible
       PROVE  Marked(c)'
  <2>1. pc'[p] = "idle" BY <1>14, Zenon DEF Return
  <2>2. Present(c)' => Present(c) BY <1>14, <2>1, NoNewPresent DEF Present
  <2>3. Live(c) => Live(c)' BY <1>14 DEF Live, Whole
  <2>4. ~Local(workload) /\ Doomed(c) => Doomed(c)'
    <3> SUFFICES ASSUME ~Local(workload), NEW q \in Procs, pc[q] = "prune", c \in todo[q]
                 PROVE  Doomed(c)'
      BY DEF Doomed
    <3>1. q # p BY <1>1, <1>14, EndsClean
    <3> QED BY <3>1, Zenon DEF Doomed, Others
  <2> QED BY <1>1, <1>2, <2>2, <2>3, <2>4, MarkedKept
<1>15. CASE Abort(p)
  <2>1. \A d \in Dirs : stage'[d] \subseteq stage[d] BY <1>0, <1>15, Zenon DEF Abort
  <2> QED BY <1>14, <1>15, <2>1, Zenon DEF Abort
<1>16. CASE PruneEnd(p) \/ Die(p)
  BY <1>14, <1>16, Zenon DEF PruneEnd, Die, Dead
<1>17. ASSUME NEW x \in Objects, PruneUnmark(p, x) PROVE Marked(c)'
  <2>1. /\ pc[p] = "prune" /\ x \in todo[p] /\ pc' = pc /\ todo' = todo /\ objects' = objects
        /\ partial' = partial \ {x} /\ stage' = stage
    BY <1>17, Zenon DEF PruneUnmark
  <2>2. Present(c)' => Present(c) BY <2>1, NoNewPresent DEF Present
  <2>3. Live(c) => Live(c)' \/ Doomed(c)' BY <2>1 DEF Live, Whole, Doomed
  <2>4. Doomed(c) => Doomed(c)' BY <2>1 DEF Doomed
  <2> QED BY <1>1, <1>2, <2>2, <2>3, <2>4 DEF Marked
<1>18. ASSUME NEW x \in Objects, PruneDelete(p, x) PROVE Marked(c)'
  <2>1. /\ pc[p] = "prune" /\ x \in todo[p] /\ pc' = pc /\ todo'[p] = todo[p] \ {x}
        /\ objects' = objects \ {x} /\ partial' = partial /\ stage' = stage
    BY <1>0, <1>18, Zenon DEF PruneDelete
  <2>2. Present(c)' => Present(c) BY <2>1, NoNewPresent DEF Present
  <2>3. CASE c = x
    <3>1. \A q \in Procs : pc[q] \notin Sharing BY <2>1, SharedNoPrune, Zenon DEF Control
    <3>2. ASSUME NEW d \in Dirs, c \in stage[d] PROVE FALSE
      <4>1. ~Local(workload) BY <1>1, <3>2 DEF Marked, Present
      <4>2. ~Careful(workload) BY <3>1, <3>2, Zenon DEF Complete, Tidy, Sharing
      <4> QED BY <1>1, <2>1, <2>3, <4>1, <4>2, ListKinds DEF Orderly
    <3>3. ~Present(c)' BY <2>1, <2>3, <3>1, <3>2, Zenon DEF Present, Others, Sharing, Staging
    <3> QED BY <3>3 DEF Marked
  <2>4. CASE c # x
    <3>1. Doomed(c) => Doomed(c)' BY <2>1, <2>4, Zenon DEF Doomed, Others
    <3>2. CASE c \in todo[p]
      <4>1. Doomed(c)' BY <2>1, <2>4, <3>2 DEF Doomed
      <4> QED BY <1>1, <1>2, <2>2, <4>1 DEF Marked
    <3>3. CASE c \notin todo[p]
      <4>1. Live(c) => Live(c)' BY <1>1, <1>18, <2>1, <3>3, Spares DEF Live
      <4> QED BY <1>1, <1>2, <2>2, <3>1, <4>1, MarkedKept
    <3> QED BY <3>2, <3>3
  <2> QED BY <2>3, <2>4
<1>19. ASSUME NEW o \in PruneOps, PruneStart(p, o) PROVE Marked(c)'
  BY <1>0, <1>3, <1>19, Zenon DEF PruneStart, Goto
<1>20. ASSUME NEW r \in Refs, ResolveRev(p, r) \/ DeleteRef(p, r) PROVE Marked(c)'
  BY <1>0, <1>3, <1>20, Zenon DEF ResolveRev, DeleteRef, Goto
<1>21. ASSUME NEW r \in Refs, SetRefImmediate(p, r) PROVE Marked(c)'
  BY <1>14, <1>21, Zenon DEF SetRefImmediate
<1> QED
  BY <1>4, <1>5, <1>7, <1>8, <1>9, <1>10, <1>11, <1>12, <1>13, <1>15, <1>16, <1>17, <1>18, <1>19,
     <1>20, <1>21, Zenon DEF StepOf

-----------------------------------------------------------------------------
(* Refs *)

\* How a process comes to the phases that matter here.
Arrives(p) ==
    /\ pc'[p] = "setref" => \E r \in Refs : ResolveRev(p, r)
    /\ pc'[p] = "unmark" => CommitUnlock(p)
    /\ pc'[p] = "unlock" => WriteRef(p)
    /\ pc'[p] = "ref" => CommitObjects(p)
    /\ pc'[p] = "rename" => CommitSync(p) \/ \E x \in Objects : RenameOne(p, x)

\* By the definitions of the actions.
LEMMA StepArrives == ASSUME Typed, NEW p \in Procs, StepOf(p) PROVE Arrives(p)
<1>0. pc \in [Procs -> Phases] BY Zenon DEF Typed, TypeOK
<1>1. CASE pc'[p] = "idle" BY <1>1, Zenon DEF Arrives
<1>2. CASE Return({p})
  <2>1. pc'[p] = "idle" BY <1>2, Zenon DEF Return
  <2> QED BY <1>1, <2>1
<1>3. ASSUME NEW o \in TxnOps, NEW c \in Commits, Prepare(p, o, c) PROVE Arrives(p)
  <2>1. pc'[p] \in {"write", "scan"} BY <1>0, <1>3, Zenon DEF Prepare, Goto
  <2> QED BY <2>1, Zenon DEF Arrives
<1>4. CASE FetchCommit(p) \/ WriteFetched(p) \/ ScanCommit(p) \/ WriteCommit(p)
  <2>1. pc'[p] \in {"write", "scan", "writecommit"}
    BY <1>0, <1>4, Zenon DEF FetchCommit, WriteFetched, ScanCommit, WriteCommit, Goto
  <2> QED BY <2>1, Zenon DEF Arrives
<1>5. CASE CommitSync(p)
  <2>1. pc'[p] = "rename" BY <1>0, <1>5, Zenon DEF CommitSync, Goto
  <2> QED BY <1>5, <2>1, Zenon DEF Arrives
<1>6. CASE CommitObjects(p)
  <2>1. pc'[p] = "ref" BY <1>0, <1>6, Zenon DEF CommitObjects, Goto
  <2> QED BY <1>6, <2>1, Zenon DEF Arrives
<1>7. CASE WriteRef(p)
  <2>1. pc'[p] = "unlock" BY <1>0, <1>7, Zenon DEF WriteRef, Goto
  <2> QED BY <1>7, <2>1, Zenon DEF Arrives
<1>8. CASE CommitUnlock(p) \/ CommitCancelled(p) \/ Unmark(p) \/ Abort(p) \/ PruneEnd(p) \/ Die(p)
  <2>1. Return({p}) \/ (CommitUnlock(p) /\ pc' = [pc EXCEPT ![p] = "unmark"])
    BY <1>8, Zenon DEF CommitUnlock, CommitCancelled, Unmark, Abort, PruneEnd, Die, Dead, Goto
  <2>2. CASE pc' = [pc EXCEPT ![p] = "unmark"]
    <3>1. pc'[p] = "unmark" BY <1>0, <2>2
    <3> QED BY <1>2, <2>1, <3>1, Zenon DEF Arrives
  <2> QED BY <1>2, <2>1, <2>2
<1>9. ASSUME NEW x \in Objects,
             WriteContent(p, x) \/ RenameOne(p, x) \/ PruneUnmark(p, x) \/ PruneDelete(p, x)
      PROVE  Arrives(p)
  <2>1. pc'[p] = pc[p] /\ (pc[p] \in {"write", "prune"} \/ (pc[p] = "rename" /\ RenameOne(p, x)))
    BY <1>9, Zenon DEF WriteContent, RenameOne, PruneUnmark, PruneDelete
  <2> QED BY <2>1, Zenon DEF Arrives
<1>10. ASSUME NEW o \in PruneOps, PruneStart(p, o) PROVE Arrives(p)
  <2>1. pc'[p] = "prune" BY <1>0, <1>10, Zenon DEF PruneStart, Goto
  <2> QED BY <2>1, Zenon DEF Arrives
<1>11. ASSUME NEW r \in Refs, ResolveRev(p, r) PROVE Arrives(p)
  <2>1. pc'[p] = "setref" BY <1>0, <1>11, Zenon DEF ResolveRev, Goto
  <2> QED BY <1>11, <2>1, Zenon DEF Arrives
<1>12. ASSUME NEW r \in Refs, SetRefImmediate(p, r) \/ DeleteRef(p, r) PROVE Arrives(p)
  BY <1>1, <1>2, <1>12, Zenon DEF SetRefImmediate, DeleteRef
<1> QED
  BY <1>3, <1>4, <1>5, <1>6, <1>7, <1>8, <1>9, <1>10, <1>11, <1>12, Zenon DEF StepOf

\* What a prune does not delete stays as it is.
LEMMA WholeKept ==
    ASSUME Control, NEW p \in Procs, StepOf(p), NEW c \in Commits, Whole(c),
           pc[p] = "prune" => c \notin todo[p]
    PROVE  Whole(c)'
<1>1. objects' = objects \/ \E x \in Objects : RenameOne(p, x) \/ PruneDelete(p, x)
  BY StepChanges, Zenon DEF Changes
<1>2. ASSUME NEW x \in Objects, PruneDelete(p, x) PROVE Whole(c)'
  BY <1>2, Spares, Zenon DEF PruneDelete
<1>3. ASSUME NEW x \in Objects, RenameOne(p, x) PROVE Whole(c)'
  BY <1>3, Zenon DEF RenameOne, Whole
<1> QED BY <1>1, <1>2, <1>3 DEF Whole

\* What a ref points to stays readable through a step of any process.
LEMMA ReadableKept ==
    ASSUME Control, Unmarking, NEW p \in Procs, StepOf(p), NEW c \in Commits, Readable(c),
           pc[p] = "prune" => c \notin todo[p]
    PROVE  Readable(c)'
<1>1. CASE Whole(c)
  <2>1. Whole(c)' BY <1>1, WholeKept
  <2> QED BY <2>1, Zenon DEF Whole, Readable
<1>2. CASE c \in partial /\ ~Whole(c)
  <2>1. objects' = objects \/ \E x \in Objects : RenameOne(p, x) \/ PruneDelete(p, x)
    BY StepChanges, Zenon DEF Changes
  <2>2. c \in objects' BY <2>1, Zenon DEF RenameOne, PruneDelete, Readable
  <2>3. partial' = partial \/ FetchCommit(p) \/ Unmark(p) \/ \E x \in Objects : PruneUnmark(p, x)
    BY StepChanges, Zenon DEF Changes
  <2>4. FetchCommit(p) => partial \subseteq partial' BY Zenon DEF FetchCommit
  <2>5. Unmark(p) => partial' = partial \ {target[p]} /\ target[p] # c
    BY <1>2, Zenon DEF Unmark, Unmarking
  <2>6. \A x \in Objects : PruneUnmark(p, x) => partial' = partial \ {x} /\ x # c
    BY Zenon DEF PruneUnmark
  <2> QED BY <1>2, <2>2, <2>3, <2>4, <2>5, <2>6, Zenon DEF Readable
<1> QED BY <1>1, <1>2, Zenon DEF Readable, Whole

\* What a transaction is about to give a ref to.
LEMMA TargetReadable ==
    ASSUME Control, AllMarked, NEW p \in Procs, Progress(p), pc[p] \in {"ref", "unlock"}
    PROVE  target[p] \in Commits /\ Readable(target[p])
<1>1. target[p] \in Commits BY Zenon DEF Control, Typed, Targeting
<1>2. target[p] \in objects /\ (op[p] # "pullmeta" => Tree[target[p]] \subseteq objects)
  BY Zenon DEF Progress
<1>3. CASE op[p] = "pullmeta"
  <2>1. target[p] \in Pulled BY <1>1, <1>3, Zenon DEF Control, Kinds, Kind, Sharing, Pulled
  <2>2. Live(target[p]) BY <1>2, <2>1, NotDoomed DEF AllMarked, Present, Sharing
  <2> QED BY <1>1, <1>2, <2>2, Zenon DEF Live, Whole, Readable
<1> QED BY <1>1, <1>2, <1>3, Zenon DEF Readable

\* Refs are set to what has been committed or resolved, and a prune spares it.
LEMMA StepNamed ==
    ASSUME Control, Complete, RefsUnderLock(workload), NEW p \in Procs, StepOf(p), Others({p})
    PROVE  Named'
<1>0. /\ refs \in [Refs -> Commits \cup {NoCommit}] /\ target \in [Procs -> Commits \cup {NoCommit}]
      /\ Typed /\ Unmarking /\ Named /\ AllMarked /\ Progress(p) /\ Kind(p)
  BY Zenon DEF Control, Kinds, Typed, TypeOK, Complete, AllProgress
<1>1. ASSUME NEW c \in Commits, Readable(c), pc[p] = "prune" => c \notin todo[p] PROVE Readable(c)'
  BY <1>0, <1>1, ReadableKept
<1>2. ASSUME NEW q \in Procs, pc'[q] = "setref" PROVE Readable(target[q])'
  <2>1. CASE q = p
    <3>1. PICK r \in Refs : ResolveRev(p, r) BY <1>0, <1>2, <2>1, StepArrives, Zenon DEF Arrives
    <3>2. target'[p] = refs[r] /\ refs[r] # NoCommit /\ objects' = objects /\ partial' = partial
      BY <1>0, <3>1, Zenon DEF ResolveRev
    <3> QED BY <1>0, <2>1, <3>2, Zenon DEF Named, Readable
  <2>2. CASE q # p
    <3>1. pc[q] = "setref" /\ target'[q] = target[q] BY <1>2, <2>2, Zenon DEF Others
    <3>2. PICK c \in Commits : c = target[q] /\ "setref" \in workload.ops
      BY <3>1, Zenon DEF Control, Typed, Targeting, Kinds, Kind
    <3>3. pc[p] = "prune" => op[p] = "pruneorphans"
      BY <1>0, <3>2, Zenon DEF Kind, RefsUnderLock, PruneOps
    <3>4. pc[p] = "prune" => c \notin todo[p] BY <3>3, Zenon DEF Control, Lists, List
    <3>5. Readable(c) BY <1>0, <3>1, <3>2, Zenon DEF Named
    <3>6. Readable(c)' BY <1>1, <3>4, <3>5
    <3> QED BY <3>1, <3>2, <3>6, Zenon DEF Readable
  <2> QED BY <2>1, <2>2
<1>3. ASSUME NEW r \in Refs, refs'[r] # NoCommit PROVE Readable(refs[r])'
  <2>1. CASE refs'[r] = refs[r]
    <3>1. PICK c \in Commits : c = refs[r] BY <1>0, <1>3, <2>1
    <3>2. Readable(c) BY <1>0, <1>3, <2>1, <3>1, Zenon DEF Named
    <3>3. pc[p] = "prune" => c \notin todo[p]
      BY <1>3, <2>1, <3>1, Zenon DEF Control, Lists, List
    <3>4. Readable(c)' BY <1>1, <3>2, <3>3
    <3> QED BY <2>1, <3>1, <3>4, Zenon DEF Readable
  <2>2. CASE refs'[r] # refs[r]
    <3>1. WriteRef(p) \/ \E s \in Refs : SetRefImmediate(p, s) \/ DeleteRef(p, s)
      BY <2>2, StepChanges, Zenon DEF Changes
    <3>2. refs'[r] = target[p] /\ pc[p] \in {"ref", "setref"} /\ objects' = objects /\ partial' = partial
      BY <1>0, <1>3, <2>2, <3>1, Zenon DEF WriteRef, SetRefImmediate, DeleteRef
    <3>3. Readable(target[p]) BY <1>0, <3>2, TargetReadable, Zenon DEF Named
    <3> QED BY <3>2, <3>3, Zenon DEF Readable
  <2> QED BY <2>1, <2>2
<1> QED BY <1>2, <1>3, Zenon DEF Named

\* A prune leaves alone what is about to be unmarked.
LEMMA StepUnmarking ==
    ASSUME Control, Complete, Orderly(workload), NEW p \in Procs, StepOf(p), Others({p})
    PROVE  Unmarking'
<1>0. Typed /\ Unmarking /\ Progress(p) BY Zenon DEF Control, Complete, AllProgress
<1> SUFFICES ASSUME NEW q \in Procs, pc'[q] = "unmark" PROVE Whole(target[q])'
  BY DEF Unmarking
<1>1. CASE q = p
  <2>1. CommitUnlock(p) BY <1>0, <1>1, StepArrives, Zenon DEF Arrives
  <2>2. pc[p] = "unlock" /\ objects' = objects BY <2>1, Zenon DEF CommitUnlock
  <2>3. op[p] = "pull" /\ target' = target BY <1>1, <2>1, Zenon DEF CommitUnlock, Return
  <2> QED BY <1>0, <1>1, <2>2, <2>3, Zenon DEF Progress, Whole
<1>2. CASE q # p
  <2>1. pc[q] = "unmark" /\ target'[q] = target[q] BY <1>2, Zenon DEF Others
  <2>2. PICK c \in Commits : c = target[q] /\ op[q] = "pull" /\ "pull" \in workload.ops
    BY <2>1, Zenon DEF Control, Typed, Targeting, Kinds, Kind
  <2>3. ~Local(workload) BY <2>2 DEF Local
  <2>4. Careful(workload) => \E r \in Refs : refs[r] = c
    <3>1. workload.branch \in [Commits -> Refs]
      BY StoreConstants, Zenon DEF Control, Typed, TypeOK
    <3> QED BY <2>1, <2>2, <3>1, Zenon DEF Complete, Sticks
  <2>5. pc[p] = "prune" /\ Careful(workload) => c \notin todo[p]
    BY <2>2, <2>4, Nones, Zenon DEF Control, Lists, List
  <2>6. pc[p] = "prune" => c \notin todo[p]
    BY <2>2, <2>3, <2>5, ListKinds DEF Orderly
  <2>7. Whole(c) BY <1>0, <2>1, <2>2 DEF Unmarking
  <2>8. Whole(c)' BY <2>6, <2>7, WholeKept
  <2> QED BY <2>1, <2>2, <2>8 DEF Whole
<1> QED BY <1>1, <1>2

\* Only a commit of the same branch moves a ref, and there is one per branch.
LEMMA StepSticks ==
    ASSUME Control, Sticks, NEW p \in Procs, StepOf(p), Others({p})
    PROVE  Sticks'
<1>0. /\ pc \in [Procs -> Phases] /\ refs \in [Refs -> Commits \cup {NoCommit}]
      /\ target \in [Procs -> Commits \cup {NoCommit}] /\ workload' = workload
      /\ workload.branch \in [Commits -> Refs] /\ Typed /\ Kinds /\ Kind(p)
      /\ \A q \in Procs : pc[q] \in Targeting => target[q] \in Commits
  BY StoreConstants, Zenon DEF Control, Typed, TypeOK, Others, Kinds
<1> SUFFICES ASSUME Careful(workload), NEW q \in Procs, pc'[q] \in {"unlock", "unmark"}
             PROVE  refs'[workload.branch[target'[q]]] = target'[q]
  BY <1>0, Zenon DEF Sticks
<1>1. \A r \in Refs : ~SetRefImmediate(p, r) /\ ~DeleteRef(p, r)
  BY <1>0, Zenon DEF SetRefImmediate, DeleteRef, Careful, Kind
<1>2. refs' = refs \/ WriteRef(p) BY <1>1, StepChanges, Zenon DEF Changes
<1>3. CASE q = p
  <2>1. CASE pc'[p] = "unlock"
    <3>1. WriteRef(p) BY <1>0, <2>1, StepArrives, Zenon DEF Arrives
    <3>2. pc[p] = "ref" /\ target' = target
          /\ refs' = [refs EXCEPT ![workload.branch[target[p]]] = target[p]]
      BY <3>1, Zenon DEF WriteRef
    <3> QED BY <1>0, <1>3, <3>2 DEF Targeting
  <2>2. CASE pc'[p] = "unmark"
    <3>1. CommitUnlock(p) BY <1>0, <2>2, StepArrives, Zenon DEF Arrives
    <3>2. pc[p] = "unlock" /\ refs' = refs BY <3>1, Zenon DEF CommitUnlock
    <3>3. target' = target BY <2>2, <3>1, Zenon DEF CommitUnlock, Return
    <3> QED BY <1>3, <3>2, <3>3, Zenon DEF Sticks
  <2> QED BY <1>3, <2>1, <2>2
<1>4. CASE q # p
  <2>1. pc[q] \in {"unlock", "unmark"} /\ target'[q] = target[q] BY <1>4, Zenon DEF Others
  <2>2. refs[workload.branch[target[q]]] = target[q] BY <2>1, Zenon DEF Sticks
  <2>3. CASE WriteRef(p)
    <3>1. pc[p] = "ref" /\ refs' = [refs EXCEPT ![workload.branch[target[p]]] = target[p]]
      BY <2>3, Zenon DEF WriteRef
    <3>2. target[p] \in workload.commits /\ target[q] \in workload.commits
      BY <1>0, <2>1, <3>1, Zenon DEF Kinds, Kind, Sharing
    <3>3. workload.branch[target[p]] = workload.branch[target[q]] => target[p] = target[q]
      BY <3>2 DEF Careful
    <3>4. workload.branch[target[q]] \in Refs BY <1>0, <2>1 DEF Targeting
    <3> QED BY <1>0, <2>1, <2>2, <3>1, <3>3, <3>4
  <2> QED BY <1>2, <2>1, <2>2, <2>3
<1> QED BY <1>3, <1>4

\* A staging directory is filled by its owner only, ...
LEMMA StageOwner ==
    ASSUME Typed, NEW p \in Procs, StepOf(p), NEW d \in Dirs
    PROVE  stage'[d] \subseteq stage[d] \/ (pc[p] \in Staging /\ dir[p] = d)
<1>0. stage \in [Dirs -> SUBSET Objects] BY Zenon DEF Typed, TypeOK
<1>1. \/ stage' = stage \/ WriteFetched(p) \/ WriteCommit(p) \/ Abort(p)
      \/ \E x \in Objects : WriteContent(p, x) \/ RenameOne(p, x)
  BY StepChanges, Zenon DEF Changes
<1>2. CASE WriteFetched(p) \/ WriteCommit(p)
  BY <1>0, <1>2, Zenon DEF WriteFetched, WriteCommit, StageObject, Staging
<1>3. ASSUME NEW x \in Objects, WriteContent(p, x) \/ RenameOne(p, x)
      PROVE  stage'[d] \subseteq stage[d] \/ (pc[p] \in Staging /\ dir[p] = d)
  BY <1>0, <1>3, Zenon DEF WriteContent, RenameOne, StageObject, Staging
<1>4. CASE Abort(p) BY <1>0, <1>4, Zenon DEF Abort
<1> QED BY <1>1, <1>2, <1>3, <1>4

\* ... who leaves it empty, if nothing fails before the renames are done.
LEMMA StageLeft ==
    ASSUME Typed, NEW p \in Procs, StepOf(p), pc[p] \in Staging, pc[p] \notin workload.interruptible
    PROVE  (pc'[p] \in Staging /\ dir'[p] = dir[p]) \/ stage'[dir[p]] = {}
<1>0. pc \in [Procs -> Phases] BY Zenon DEF Typed, TypeOK
<1> USE DEF Staging
<1>1. CASE FetchCommit(p) \/ WriteFetched(p) \/ ScanCommit(p) \/ WriteCommit(p)
  BY <1>0, <1>1, Zenon DEF FetchCommit, WriteFetched, ScanCommit, WriteCommit, Goto
<1>2. CASE CommitSync(p) \/ CommitObjects(p)
  BY <1>0, <1>2, Zenon DEF CommitSync, CommitObjects, Goto
<1>3. ~WriteRef(p) /\ ~CommitUnlock(p) /\ ~CommitCancelled(p) /\ ~Unmark(p) /\ ~PruneEnd(p)
  BY Zenon DEF WriteRef, CommitUnlock, CommitCancelled, Unmark, PruneEnd
<1>4. ~Abort(p) /\ ~Die(p) BY Zenon DEF Abort, Die
<1>5. ASSUME NEW x \in Objects, WriteContent(p, x) \/ RenameOne(p, x)
      PROVE  (pc'[p] \in Staging /\ dir'[p] = dir[p]) \/ stage'[dir[p]] = {}
  BY <1>5, Zenon DEF WriteContent, RenameOne
<1>6. ASSUME NEW x \in Objects PROVE ~PruneUnmark(p, x) /\ ~PruneDelete(p, x)
  BY Zenon DEF PruneUnmark, PruneDelete
<1>7. \A r \in Refs : ~ResolveRev(p, r) /\ ~SetRefImmediate(p, r) /\ ~DeleteRef(p, r)
  BY Zenon DEF ResolveRev, SetRefImmediate, DeleteRef
<1>8. (\A o \in TxnOps, c \in Commits : ~Prepare(p, o, c)) /\ \A o \in PruneOps : ~PruneStart(p, o)
  BY Zenon DEF Prepare, PruneStart
<1> QED BY <1>1, <1>2, <1>3, <1>4, <1>5, <1>6, <1>7, <1>8, Zenon DEF StepOf

\* A directory is emptied, or its commit renamed, before it is left.
LEMMA StepTidy ==
    ASSUME Typed, Tidy, NEW p \in Procs, StepOf(p), Others({p})
    PROVE  Tidy'
<1> SUFFICES ASSUME Careful(workload), NEW d \in Dirs, stage'[d] # {}
             PROVE  \E q \in Procs : pc'[q] \in Staging /\ dir'[q] = d
  BY Zenon DEF Tidy, Others
<1>1. PICK q \in Procs : pc[q] \in Staging /\ dir[q] = d
  <2>1. CASE stage'[d] \subseteq stage[d]
    <3>1. stage[d] # {} BY <2>1
    <3> QED BY <3>1, Zenon DEF Tidy
  <2> QED BY <2>1, StageOwner
<1>2. CASE q = p
  <2>1. pc[p] \notin workload.interruptible BY <1>1, <1>2 DEF Careful, Staging
  <2> QED BY <1>1, <1>2, <2>1, StageLeft
<1>3. CASE q # p BY <1>1, <1>3, Zenon DEF Others
<1> QED BY <1>2, <1>3

(***************************************************************************)
(* In every orderly workload, through any interleaving, failure and power  *)
(* loss: what a ref points to is complete and readable, and so is a pulled *)
(* commit without a .commitpartial marker; and no step, power loss         *)
(* included, takes an object that a complete commit with a ref needs.      *)
(***************************************************************************)
-----------------------------------------------------------------------------
(* What is on disk *)

\* No name in objects/ is ahead of its contents: whoever renames has had its
\* staging directory flushed.
Flushed ==
    /\ dirty = {}
    /\ \A p \in Procs : pc[p] = "rename" => dir[p] \notin unflushed

\* A power loss leaves c marked, or all of it.
Safe(c) == c \in partial \cap partialDurable \/ {c} \cup Tree[c] \subseteq durable
SafeRef(c) == c \in durable /\ Safe(c)

\* What a process relies on the disk for.
Synced(p) ==
    /\ pc[p] = "rename" => \A c \in Pulled \cap stage[dir[p]] : Safe(c)
    /\ pc[p] \in {"ref", "unlock"} =>
         target[p] \in durable /\ (op[p] # "pullmeta" => Tree[target[p]] \subseteq durable)
    /\ pc[p] = "unmark" => {target[p]} \cup Tree[target[p]] \subseteq durable
    /\ pc[p] = "setref" => SafeRef(target[p])

\* Pulled commits, refs and processes have on disk what they rely on.
OnDisk ==
    /\ durable \subseteq objects
    /\ \A c \in Pulled \cap objects : Safe(c)
    /\ \A p \in Procs : Synced(p)
    /\ \A r \in Refs : refs[r] # NoCommit => SafeRef(refs[r])
    /\ \A r \in Refs : refsDurable[r] # NoCommit => SafeRef(refsDurable[r])

\* Power is lost in workloads without prune only.
Durable == Flushed /\ (NoPrune(workload) => OnDisk)

\* Which steps touch what is on disk.
Flushes(p) ==
    /\ dirty' = dirty \/ CommitSync(p) \/ \E x \in Objects : RenameOne(p, x) \/ PruneDelete(p, x)
    /\ \/ unflushed' \subseteq unflushed \/ WriteFetched(p) \/ WriteCommit(p)
       \/ \E x \in Objects : WriteContent(p, x)
    /\ durable' = durable \/ CommitSync(p) \/ CommitObjects(p)
    /\ UNCHANGED <<partialDurable, refsDurable>> \/ CommitSync(p)

\* By the definitions of the actions.
LEMMA StepFlushes == ASSUME NEW p \in Procs, StepOf(p) PROVE Flushes(p)
<1>1. ASSUME NEW o \in TxnOps, NEW c \in Commits, Prepare(p, o, c) PROVE Flushes(p)
  BY <1>1, Zenon DEF Prepare, Flushes
<1>2. CASE FetchCommit(p) \/ WriteFetched(p) \/ WriteCommit(p) \/ ScanCommit(p)
  BY <1>2, Zenon DEF FetchCommit, WriteFetched, WriteCommit, StageObject, ScanCommit, Flushes
<1>3. CASE CommitSync(p) \/ CommitObjects(p) \/ WriteRef(p)
  BY <1>3, Zenon DEF CommitSync, CommitObjects, WriteRef, Flushes
<1>4. CASE CommitUnlock(p) \/ CommitCancelled(p) \/ Unmark(p) \/ PruneEnd(p) \/ Die(p)
  <2>1. UNCHANGED <<objectVars, partialDurable, refVars, unflushed>>
    BY <1>4, Zenon DEF CommitUnlock, CommitCancelled, Unmark, PruneEnd, Die
  <2> QED BY <2>1 DEF Flushes
<1>5. CASE Abort(p)
  BY <1>5, Zenon DEF Abort, Flushes
<1>6. ASSUME NEW x \in Objects,
             WriteContent(p, x) \/ RenameOne(p, x) \/ PruneUnmark(p, x) \/ PruneDelete(p, x)
      PROVE  Flushes(p)
  BY <1>6, Zenon DEF WriteContent, StageObject, RenameOne, PruneUnmark, PruneDelete, Flushes
<1>7. ASSUME NEW o \in PruneOps, PruneStart(p, o) PROVE Flushes(p)
  BY <1>7, Zenon DEF PruneStart, Flushes
<1>8. ASSUME NEW r \in Refs, ResolveRev(p, r) \/ SetRefImmediate(p, r) \/ DeleteRef(p, r)
      PROVE  Flushes(p)
  BY <1>8, Zenon DEF ResolveRev, SetRefImmediate, DeleteRef, Flushes
<1> QED BY <1>1, <1>2, <1>3, <1>4, <1>5, <1>6, <1>7, <1>8, Zenon DEF StepOf

\* The syncfs of a transaction comes before its first rename.
LEMMA StepFlushed ==
    ASSUME Typed, Flushed, NEW p \in Procs, StepOf(p), Others({p})
    PROVE  Flushed'
<1>1. dirty' = {}
  <2>1. dirty' = dirty \/ CommitSync(p) \/ \E x \in Objects : RenameOne(p, x) \/ PruneDelete(p, x)
    BY StepFlushes, Zenon DEF Flushes
  <2>2. CASE CommitSync(p) BY <2>2, Zenon DEF CommitSync
  <2>3. ASSUME NEW x \in Objects, RenameOne(p, x) \/ PruneDelete(p, x) PROVE dirty' = {}
    BY <2>3, Zenon DEF Flushed, RenameOne, PruneDelete
  <2> QED BY <2>1, <2>2, <2>3 DEF Flushed
<1>2. ASSUME NEW q \in Procs, pc'[q] = "rename" PROVE dir'[q] \notin unflushed'
  <2>1. \/ unflushed' \subseteq unflushed \/ WriteFetched(p) \/ WriteCommit(p)
        \/ \E x \in Objects : WriteContent(p, x)
    BY StepFlushes, Zenon DEF Flushes
  <2>2. CASE q = p
    <3>1. CommitSync(p) \/ \E x \in Objects : RenameOne(p, x)
      BY <1>2, <2>2, StepArrives, Zenon DEF Arrives
    <3>2. CASE CommitSync(p) BY <3>2, Zenon DEF CommitSync
    <3>3. ASSUME NEW x \in Objects, RenameOne(p, x) PROVE dir'[p] \notin unflushed'
      BY <3>3, Zenon DEF RenameOne, Flushed
    <3> QED BY <2>2, <3>1, <3>2, <3>3
  <2>3. CASE q # p
    <3>1. pc[q] = "rename" /\ dir'[q] = dir[q] BY <1>2, <2>3, Zenon DEF Others
    <3>2. dir[q] \notin unflushed BY <3>1 DEF Flushed
    <3>3. dir[p] # dir[q] BY <2>3, <3>1, Nones, Zenon DEF Typed, TypeOK, OneDir, Staging
    <3>4. unflushed' \subseteq unflushed \cup {dir[p]}
      BY <2>1, Zenon DEF WriteFetched, WriteCommit, WriteContent, StageObject
    <3> QED BY <3>1, <3>2, <3>3, <3>4
  <2> QED BY <2>2, <2>3
<1> QED BY <1>1, <1>2 DEF Flushed

-----------------------------------------------------------------------------
(* Without prune the disk only gains *)

\* Names stay, and markers go from what is on disk whole.
LEMMA DiskGrows ==
    ASSUME Control, OnDisk, NoPrune(workload), NEW p \in Procs, StepOf(p)
    PROVE  /\ objects \subseteq objects' /\ durable \subseteq durable' /\ durable' \subseteq objects'
           /\ \A c \in Commits : Safe(c) => Safe(c)'
<1>0. durable \subseteq objects /\ Synced(p) /\ partial \subseteq Commits
  BY Zenon DEF OnDisk, Control, Typed, TypeOK
<1>1. pc[p] # "prune" BY Zenon DEF Control, Kinds, Kind, NoPrune
<1>2. objects \subseteq objects'
  <2>1. objects' = objects \/ \E x \in Objects : RenameOne(p, x) \/ PruneDelete(p, x)
    BY StepChanges, Zenon DEF Changes
  <2> QED BY <1>1, <2>1, Zenon DEF RenameOne, PruneDelete
<1>3. durable' = durable \/ (durable' = objects /\ objects' = objects)
  <2>1. durable' = durable \/ CommitSync(p) \/ CommitObjects(p)
    BY StepFlushes, Zenon DEF Flushes
  <2> QED BY <2>1, Zenon DEF CommitSync, CommitObjects
<1>4. durable \subseteq durable' /\ durable' \subseteq objects' BY <1>0, <1>2, <1>3
<1>5. ASSUME NEW c \in Commits, Safe(c) PROVE Safe(c)'
  <2>1. CASE {c} \cup Tree[c] \subseteq durable BY <1>4, <2>1, Zenon DEF Safe
  <2>2. CASE c \in partial /\ c \in partialDurable
    <3>1. partial' = partial \/ FetchCommit(p) \/ Unmark(p) \/ \E x \in Objects : PruneUnmark(p, x)
      BY StepChanges, Zenon DEF Changes
    <3>2. c \in partial' \/ (pc[p] = "unmark" /\ c = target[p])
      BY <1>1, <2>2, <3>1, Zenon DEF FetchCommit, Unmark, PruneUnmark
    <3>3. c \in partialDurable'
      <4>1. partialDurable' = partialDurable \/ CommitSync(p) BY StepFlushes, Zenon DEF Flushes
      <4> QED BY <2>2, <4>1, Zenon DEF CommitSync
    <3>4. CASE pc[p] = "unmark" /\ c = target[p] BY <1>0, <2>1, <3>4, Zenon DEF Synced
    <3> QED BY <3>2, <3>3, <3>4, Zenon DEF Safe
  <2> QED BY <1>5, <2>1, <2>2, Zenon DEF Safe
<1> QED BY <1>2, <1>4, <1>5

\* A syncfs makes safe whatever is marked or whole.
LEMMA SyncSafe ==
    ASSUME NEW p \in Procs, CommitSync(p), NEW c, Live(c) PROVE Safe(c)'
BY Zenon DEF CommitSync, Live, Whole, Safe

\* What a process relies on is still there after its step...
LEMMA StepSynced ==
    ASSUME Control, Complete, OnDisk, NoPrune(workload), NEW p \in Procs, StepOf(p), Others({p})
    PROVE  Synced(p)'
<1>0. /\ pc \in [Procs -> Phases] /\ target \in [Procs -> Commits \cup {NoCommit}]
      /\ refs \in [Refs -> Commits \cup {NoCommit}]
      /\ Typed /\ Kind(p) /\ Progress(p) /\ Synced(p) /\ workload' = workload
      /\ Arrives(p) /\ durable \subseteq durable'
      /\ \A c \in Commits : Safe(c) => Safe(c)'
  BY StepArrives, DiskGrows, Zenon DEF Control, Kinds, Typed, TypeOK, Complete, AllProgress, OnDisk, Others
<1>1. ASSUME pc'[p] = "rename", NEW c \in Pulled, c \in stage'[dir'[p]] PROVE Safe(c)'
  <2>1. CommitSync(p) \/ \E x \in Objects : RenameOne(p, x) BY <1>0, <1>1, Zenon DEF Arrives
  <2>2. CASE CommitSync(p)
    <3>1. pc[p] = "write" /\ dir' = dir /\ stage' = stage BY <2>2, Zenon DEF CommitSync
    <3>2. dir[p] \in Dirs BY <1>0, <3>1, Zenon DEF Typed, TypeOK, Staging
    <3>3. Present(c) BY <1>1, <3>1, <3>2 DEF Present
    <3>4. Live(c) BY <3>1, <3>3, NotDoomed, Zenon DEF Complete, AllMarked, Sharing, Staging
    <3> QED BY <2>2, <3>4, SyncSafe
  <2>3. ASSUME NEW x \in Objects, RenameOne(p, x) PROVE Safe(c)'
    <3>1. pc[p] = "rename" /\ dir' = dir /\ dir[p] \in Dirs /\ stage \in [Dirs -> SUBSET Objects]
      BY <1>0, <2>3, Zenon DEF RenameOne, Typed, TypeOK, Staging
    <3>2. c \in stage[dir[p]] BY <1>1, <2>3, <3>1, Zenon DEF RenameOne
    <3> QED BY <1>0, <3>1, <3>2, Zenon DEF Synced, Pulled
  <2> QED BY <2>1, <2>2, <2>3
<1>2. ASSUME pc'[p] \in {"ref", "unlock"}
      PROVE  target'[p] \in durable' /\ (op'[p] # "pullmeta" => Tree[target'[p]] \subseteq durable')
  <2>1. CASE CommitObjects(p)
    BY <1>0, <2>1, Zenon DEF CommitObjects, Progress, Seen
  <2>2. CASE WriteRef(p)
    BY <1>0, <2>2, Zenon DEF WriteRef, Synced
  <2> QED BY <1>0, <1>2, <2>1, <2>2, Zenon DEF Arrives
<1>3. ASSUME pc'[p] = "unmark" PROVE {target'[p]} \cup Tree[target'[p]] \subseteq durable'
  <2>1. CommitUnlock(p) BY <1>0, <1>3, Zenon DEF Arrives
  <2>2. op[p] = "pull" /\ target' = target BY <1>3, <2>1, Zenon DEF CommitUnlock, Return
  <2> QED BY <1>0, <2>1, <2>2, Zenon DEF CommitUnlock, Synced
<1>4. ASSUME pc'[p] = "setref" PROVE SafeRef(target[p])'
  <2>1. PICK r \in Refs : ResolveRev(p, r) BY <1>0, <1>4, Zenon DEF Arrives
  <2>2. PICK c \in Commits : c = refs[r] /\ target'[p] = c /\ SafeRef(c)
    BY <1>0, <2>1, Zenon DEF ResolveRev, OnDisk
  <2>3. SafeRef(c)' BY <1>0, <2>2, Zenon DEF SafeRef
  <2> QED BY <2>2, <2>3, Zenon DEF SafeRef, Safe
<1> QED BY <1>0, <1>1, <1>2, <1>3, <1>4, Zenon DEF Synced, Pulled

\* ... and after a step of another.
LEMMA OtherSynced ==
    ASSUME Control, OnDisk, NoPrune(workload), NEW p \in Procs, StepOf(p), Others({p}),
           NEW q \in Procs \ {p}
    PROVE  Synced(q)'
<1>0. /\ Typed /\ Synced(q) /\ durable \subseteq durable' /\ \A c \in Commits : Safe(c) => Safe(c)'
      /\ pc'[q] = pc[q] /\ op'[q] = op[q] /\ target'[q] = target[q] /\ dir'[q] = dir[q]
      /\ workload' = workload
  BY DiskGrows, Zenon DEF Control, OnDisk, Others
<1>1. ASSUME pc[q] = "rename" PROVE stage'[dir[q]] \subseteq stage[dir[q]]
  <2>1. dir[q] \in Dirs /\ dir[p] # dir[q]
    BY <1>0, <1>1, Nones, Zenon DEF Typed, TypeOK, OneDir, Staging
  <2> QED BY <1>0, <2>1, StageOwner
<1>2. ASSUME pc[q] = "setref" PROVE SafeRef(target[q])'
  <2>1. PICK c \in Commits : c = target[q] /\ SafeRef(c)
    BY <1>0, <1>2, Zenon DEF Typed, Targeting, Synced
  <2>2. SafeRef(c)' BY <1>0, <2>1, Zenon DEF SafeRef
  <2> QED BY <1>0, <2>1, <2>2, Zenon DEF SafeRef, Safe
<1>3. ASSUME pc[q] = "rename", NEW c \in Pulled, c \in stage'[dir[q]] PROVE Safe(c)'
  BY <1>0, <1>1, <1>3, Zenon DEF Synced, Pulled
<1> QED BY <1>0, <1>2, <1>3, Zenon DEF Synced, Pulled

\* What is on disk stays safe, and refs are set to what is safe.
LEMMA StepOnDisk ==
    ASSUME Control, Complete, OnDisk, NoPrune(workload), NEW p \in Procs, StepOf(p), Others({p})
    PROVE  OnDisk'
<1>0. /\ refs \in [Refs -> Commits \cup {NoCommit}]
      /\ refsDurable \in [Refs -> Commits \cup {NoCommit}]
      /\ target \in [Procs -> Commits \cup {NoCommit}] /\ workload' = workload /\ Kind(p)
      /\ Typed /\ Synced(p) /\ durable \subseteq objects
  BY Zenon DEF Control, Kinds, Typed, TypeOK, OnDisk, Others
<1>1. /\ durable \subseteq durable' /\ durable' \subseteq objects'
      /\ \A c \in Commits : Safe(c) => Safe(c)'
  BY DiskGrows
<1>2. ASSUME NEW c \in Pulled, c \in objects' PROVE Safe(c)'
  <2>1. objects' = objects \/ \E x \in Objects : RenameOne(p, x) \/ PruneDelete(p, x)
    BY StepChanges, Zenon DEF Changes
  <2>2. c \in objects \/ (pc[p] = "rename" /\ c \in stage[dir[p]])
    BY <1>2, <2>1, Zenon DEF RenameOne, PruneDelete
  <2>3. Safe(c) BY <1>0, <2>2, Zenon DEF OnDisk, Synced
  <2> QED BY <1>1, <2>3 DEF Pulled
<1>3. ASSUME NEW c \in Commits, SafeRef(c) PROVE SafeRef(c)' BY <1>1, <1>3, Zenon DEF SafeRef
<1>4. ASSUME NEW q \in Procs PROVE Synced(q)'
  <2>1. CASE q = p BY <2>1, StepSynced
  <2>2. CASE q # p BY <2>2, OtherSynced
  <2> QED BY <2>1, <2>2
<1>5. ASSUME NEW r \in Refs, refs'[r] # NoCommit PROVE SafeRef(refs[r])'
  <2>1. CASE refs'[r] = refs[r]
    <3>1. PICK c \in Commits : c = refs[r] /\ SafeRef(c) BY <1>0, <1>5, <2>1, Zenon DEF OnDisk
    <3>2. SafeRef(c)' BY <1>3, <3>1
    <3> QED BY <2>1, <3>1, <3>2, Zenon DEF SafeRef, Safe
  <2>2. CASE refs'[r] # refs[r]
    <3>1. WriteRef(p) \/ \E s \in Refs : SetRefImmediate(p, s) \/ DeleteRef(p, s)
      BY <2>2, StepChanges, Zenon DEF Changes
    <3>2. refs'[r] = target[p] /\ pc[p] \in {"ref", "setref"}
      BY <1>0, <1>5, <2>2, <3>1, Zenon DEF WriteRef, SetRefImmediate, DeleteRef
    <3>3. PICK c \in Commits : c = target[p] BY <1>0, <3>2, Zenon DEF Typed, Targeting
    <3>4. SafeRef(c)
      <4>1. CASE pc[p] = "setref" BY <1>0, <3>3, <4>1, Zenon DEF Synced
      <4>2. CASE pc[p] = "ref" /\ op[p] # "pullmeta"
        BY <1>0, <3>3, <4>2, Zenon DEF Synced, SafeRef, Safe
      <4>3. CASE pc[p] = "ref" /\ op[p] = "pullmeta"
        <5>1. c \in Pulled /\ c \in durable
          BY <1>0, <3>3, <4>3, Zenon DEF Kind, Sharing, Pulled, Synced
        <5> QED BY <1>0, <5>1, Zenon DEF OnDisk, SafeRef
      <4> QED BY <3>2, <4>1, <4>2, <4>3
    <3>5. SafeRef(c)' BY <1>3, <3>4
    <3> QED BY <3>2, <3>3, <3>5, Zenon DEF SafeRef, Safe
  <2> QED BY <2>1, <2>2
<1>6. ASSUME NEW r \in Refs, refsDurable'[r] # NoCommit PROVE SafeRef(refsDurable[r])'
  <2>1. refsDurable' = refsDurable \/ CommitSync(p) BY StepFlushes, Zenon DEF Flushes
  <2>2. CASE refsDurable' = refsDurable
    <3>1. PICK c \in Commits : c = refsDurable[r] /\ SafeRef(c)
      BY <1>0, <1>6, <2>2, Zenon DEF OnDisk
    <3>2. SafeRef(c)' BY <1>3, <3>1
    <3> QED BY <2>2, <3>1, <3>2, Zenon DEF SafeRef, Safe
  <2>3. CASE CommitSync(p)
    <3>1. refsDurable'[r] = refs'[r] BY <2>3, Zenon DEF CommitSync
    <3>2. SafeRef(refs[r])' BY <1>5, <1>6, <3>1
    <3> QED BY <3>1, <3>2, Zenon DEF SafeRef, Safe
  <2> QED BY <2>1, <2>2, <2>3
<1> QED BY <1>0, <1>1, <1>2, <1>4, <1>5, <1>6, Zenon DEF OnDisk, Pulled

-----------------------------------------------------------------------------
(* The invariant *)

\* The inductive invariant: control, completeness, and what is on disk.
StoreInv == Control /\ Complete /\ Durable

\* An empty repository.
LEMMA InitStore == Init => StoreInv
<1> SUFFICES ASSUME Init PROVE StoreInv
  OBVIOUS
<1>1. Control BY InitControl
<1>2. /\ objects = {} /\ durable = {} /\ dirty = {} /\ refs = [r \in Refs |-> NoCommit]
      /\ refsDurable = refs /\ \A d \in Dirs : stage[d] = {}
      /\ \A p \in Procs : pc[p] = "idle"
  BY Zenon DEF Init
<1>3. AllMarked BY <1>2 DEF AllMarked, Marked, Present
<1>4. AllProgress /\ Named /\ Unmarking
  BY <1>2, Zenon DEF AllProgress, Progress, Named, Unmarking
<1>5. Sticks /\ Tidy BY <1>2, Zenon DEF Sticks, Tidy
<1>6. Durable BY <1>2, Zenon DEF Durable, Flushed, OnDisk, Synced
<1> QED BY <1>1, <1>3, <1>4, <1>5, <1>6, Zenon DEF StoreInv, Complete

\* A power loss finds every commit whole or marked, because it was so on disk.
LEMMA LossStore ==
    ASSUME Control, Complete, Durable, Orderly(workload), PowerLoss PROVE Complete' /\ Durable'
<1>0. /\ NoPrune(workload) /\ workload' = workload /\ OnDisk /\ dirty = {}
      /\ refs \in [Refs -> Commits \cup {NoCommit}]
      /\ refsDurable \in [Refs -> Commits \cup {NoCommit}]
  BY Zenon DEF PowerLoss, Orderly, OrphansOnly, Local, Careful, Durable, Flushed, Control, Typed, TypeOK
<1>1. \A p \in Procs : pc'[p] = "idle" BY Zenon DEF PowerLoss, Dead, Return
<1>2. /\ durable \subseteq objects' /\ objects' \subseteq objects
      /\ partial \cap partialDurable \subseteq partial'
      /\ durable' = objects' /\ partialDurable' = partial' /\ refsDurable' = refs' /\ dirty' = {}
      /\ \A d \in Dirs : stage'[d] = {}
  BY <1>0, Zenon DEF PowerLoss, OnDisk
<1>3. \A r \in Refs : refs'[r] \in {refs[r], refsDurable[r]} BY Zenon DEF PowerLoss
<1>4. ASSUME NEW c, Safe(c) PROVE Live(c)' /\ Safe(c)'
  BY <1>2, <1>4, Zenon DEF Safe, Live, Whole
<1>5. ASSUME NEW r \in Refs, refs'[r] # NoCommit PROVE Readable(refs[r])' /\ SafeRef(refs[r])'
  <2>1. PICK c \in Commits : c = refs'[r] /\ SafeRef(c) BY <1>0, <1>3, <1>5, Zenon DEF OnDisk
  <2>2. Safe(c)' /\ Live(c)' BY <1>4, <2>1, Zenon DEF SafeRef
  <2> QED BY <1>2, <2>1, <2>2, Zenon DEF SafeRef, Safe, Live, Whole, Readable
<1>6. AllMarked'
  <2> SUFFICES ASSUME NEW c \in Pulled, Present(c)' PROVE ~Local(workload) /\ Live(c)'
    BY <1>0 DEF AllMarked, Marked, Pulled
  <2>1. c \in objects BY <1>1, <1>2 DEF Present
  <2>2. ~Local(workload) BY <2>1, Zenon DEF Complete, AllMarked, Marked, Present
  <2>3. Safe(c) BY <1>0, <2>1, Zenon DEF OnDisk
  <2> QED BY <1>4, <2>2, <2>3
<1>7. AllProgress' /\ Unmarking' BY <1>1, Zenon DEF AllProgress, Progress, Unmarking
<1>8. Named' BY <1>1, <1>5, Zenon DEF Named
<1>9. Sticks' /\ Tidy' BY <1>1, <1>2, Zenon DEF Sticks, Tidy
<1>10. OnDisk'
  <2>1. \A c \in Pulled' \cap objects' : Safe(c)' BY <1>0, <1>2, <1>4, Zenon DEF OnDisk, Pulled
  <2>2. \A p \in Procs : Synced(p)' BY <1>1, Zenon DEF Synced
  <2> QED BY <1>2, <1>5, <2>1, <2>2, Zenon DEF OnDisk
<1> QED BY <1>1, <1>2, <1>6, <1>7, <1>8, <1>9, <1>10, Zenon DEF Complete, Durable, Flushed

\* A step of one process, conjunct by conjunct.
LEMMA StepStore ==
    ASSUME StoreInv, Orderly(workload), [Next]_vars, NEW p \in Procs, StepOf(p)
    PROVE  Complete' /\ Durable'
<1>0. /\ Control /\ Complete /\ Durable /\ Typed /\ RefsUnderLock(workload)
      /\ AllMarked /\ AllProgress /\ Sticks /\ Tidy /\ Flushed
      /\ Others({p}) /\ workload' = workload
  BY OrderlyRefs, Frames, Zenon DEF StoreInv, Complete, Control, Durable, Others
<1>1. AllMarked' BY <1>0, StepMarked DEF AllMarked, Pulled
<1>2. AllProgress'
  <2> SUFFICES ASSUME NEW q \in Procs PROVE Progress(q)' BY DEF AllProgress
  <2>0. Progress(q) BY <1>0 DEF AllProgress
  <2>1. CASE q = p BY <1>0, <2>0, <2>1, StepProgress
  <2>2. CASE q # p BY <1>0, <2>0, <2>2, OtherProgress
  <2> QED BY <2>1, <2>2
<1>3. Named' /\ Unmarking' BY <1>0, StepNamed, StepUnmarking
<1>4. Sticks' /\ Tidy' BY <1>0, StepSticks, StepTidy
<1>5. Flushed' BY <1>0, StepFlushed
<1>6. NoPrune(workload) => OnDisk' BY <1>0, StepOnDisk DEF Durable
<1> QED BY <1>0, <1>1, <1>2, <1>3, <1>4, <1>5, <1>6, Zenon DEF Complete, Durable

\* Nothing changes.
LEMMA StutterStore == ASSUME Complete, Durable, UNCHANGED vars PROVE Complete' /\ Durable'
<1>1. AllMarked'
  BY Zenon DEF vars, Complete, AllMarked, Marked, Present, Live, Whole, Doomed, Pulled
<1>2. AllProgress' BY Zenon DEF vars, Complete, AllProgress, Progress, Seen
<1>3. Named' /\ Unmarking' BY Zenon DEF vars, Complete, Named, Readable, Unmarking, Whole
<1>4. Sticks' /\ Tidy' BY Zenon DEF vars, Complete, Sticks, Tidy
<1>5. Durable' BY Zenon DEF vars, Durable, Flushed, OnDisk, Synced, Safe, SafeRef, Pulled
<1> QED BY <1>1, <1>2, <1>3, <1>4, <1>5, Zenon DEF Complete

\* A step of a process, a power loss, or a stutter.
LEMMA NextStore == StoreInv /\ Orderly(workload) /\ [Next]_vars => StoreInv'
<1> SUFFICES ASSUME StoreInv, Orderly(workload), [Next]_vars PROVE StoreInv'
  OBVIOUS
<1>1. Control' BY NextControl, OrderlyRefs, Zenon DEF StoreInv
<1> SUFFICES Complete' /\ Durable' BY <1>1, Zenon DEF StoreInv
<1>2. ASSUME NEW p \in Procs, StepOf(p) PROVE Complete' /\ Durable' BY <1>2, StepStore
<1>3. CASE PowerLoss BY <1>3, LossStore, Zenon DEF StoreInv
<1>4. CASE UNCHANGED vars BY <1>4, StutterStore, Zenon DEF StoreInv
<1> QED BY <1>2, <1>3, <1>4, NextSteps

\* The invariant holds throughout when every workload is orderly.
LEMMA AlwaysStore == ASSUME \A w \in Workloads : Orderly(w) PROVE Spec => []StoreInv
<1>1. StoreInv => Orderly(workload) BY Zenon DEF StoreInv, Control, Typed, TypeOK
<1> QED BY <1>1, InitStore, NextStore, PTL DEF Spec

\* In an orderly workload what a ref points to is there, whole or marked partial,
\* and flushed: through pulls, commits and prunes of any processes, failures and
\* deaths between any two steps, and power loss (ostree_repo_commit_transaction,
\* ostree_repo_prune, ostree_repo_pull_with_options).
THEOREM Completeness ==
    ASSUME \A w \in Workloads : Orderly(w) PROVE Spec => []RefsComplete
<1>1. StoreInv => RefsComplete
  BY Zenon DEF StoreInv, Complete, Durable, Flushed, Named, Readable, RefsComplete
<1> QED BY <1>1, AlwaysStore, PTL

\* In an orderly workload, outside of a prune, a pulled commit without a
\* .commitpartial marker has its whole tree: what the next pull, which scans
\* partial commits only (scan_commit_object), relies on.
THEOREM Normality ==
    ASSUME \A w \in Workloads : Orderly(w) PROVE Spec => []NormalIsComplete
<1>1. ASSUME StoreInv, \A p \in Procs : lock[p] # "EX",
             NEW c \in (objects \cap Commits) \ (workload.built \cup partial)
      PROVE  Tree[c] \subseteq objects
  <2>1. \A p \in Procs : pc[p] # "prune" BY <1>1, Zenon DEF StoreInv, Control, LockHeld
  <2>2. Marked(c) /\ Present(c)
    BY <1>1, Zenon DEF StoreInv, Complete, AllMarked, Pulled, Present
  <2> QED BY <1>1, <2>1, <2>2 DEF Marked, Doomed, Live, Whole
<1>2. StoreInv => NormalIsComplete BY <1>1 DEF NormalIsComplete
<1> QED BY <1>2, AlwaysStore, PTL

-----------------------------------------------------------------------------
(* What a prune and a power loss leave of commits with a ref *)

\* With power loss there are no prunes, and what is safe comes back.
RefedInv == Control /\ (NoPrune(workload) => StoreInv)

\* A step keeps it, since workloads without prune are orderly.
LEMMA NextRefed == RefsUnderLock(workload) /\ RefedInv /\ [Next]_vars => RefedInv'
<1> SUFFICES ASSUME RefsUnderLock(workload), RefedInv, [Next]_vars PROVE RefedInv'
  OBVIOUS
<1>1. Control' BY NextControl, Zenon DEF RefedInv
<1>2. workload' = workload
  <2>1. ASSUME NEW p \in Procs, StepOf(p) PROVE workload' = workload
    BY <2>1, Frames, Zenon DEF Others, RefedInv, Control
  <2>2. CASE PowerLoss BY <2>2, Zenon DEF PowerLoss
  <2>3. CASE UNCHANGED vars BY <2>3, Zenon DEF vars
  <2> QED BY <2>1, <2>2, <2>3, NextSteps
<1>3. NoPrune(workload) => StoreInv' BY NextStore, Zenon DEF RefedInv, Orderly
<1> QED BY <1>1, <1>2, <1>3, Zenon DEF RefedInv

\* A power loss keeps what a ref that is still set points to, unless it is marked.
LEMMA LossKeepsRefed ==
    ASSUME StoreInv, NoPrune(workload), PowerLoss PROVE KeepsRefed
<1>1. OnDisk /\ dirty = {} BY Zenon DEF StoreInv, Durable, Flushed
<1>2. durable \subseteq objects' BY <1>1, Zenon DEF PowerLoss, OnDisk
<1>3. ASSUME NEW r \in Refs, refs[r] \notin partial \cup {NoCommit}
      PROVE  {refs[r]} \cup Tree[refs[r]] \subseteq durable
  BY <1>1, <1>3, Zenon DEF OnDisk, SafeRef, Safe
<1> QED BY <1>2, <1>3 DEF KeepsRefed

\* Among any number of transactions, prunes and changes of refs, failing or
\* dying anywhere, no step deletes an object that a complete commit with a ref
\* needs (ostree_repo_prune under the exclusive lock,
\* ostree_repo_prepare_transaction under the shared one), nor does a power loss
\* where nothing is pruned.  No ref is set without a lock next to a prune with
\* REFS_ONLY.
THEOREM RefedKept ==
    ASSUME \A w \in Workloads : RefsUnderLock(w) /\ ("powerloss" \in w.ops => NoPrune(w))
    PROVE  Spec => RefedIsKept
<1>1. RefedInv => RefsUnderLock(workload) /\ ("powerloss" \in workload.ops => NoPrune(workload))
  BY Zenon DEF RefedInv, Control, Typed, TypeOK
<1>2. Init => RefedInv BY InitStore, Zenon DEF RefedInv, StoreInv
<1>3. RefedInv /\ [Next]_vars => RefedInv' BY <1>1, NextRefed
<1>4. RefedInv /\ [Next]_vars => [KeepsRefed]_vars
  <2> SUFFICES ASSUME RefedInv, [Next]_vars PROVE KeepsRefed
    OBVIOUS
  <2>1. CASE PowerLoss
    <3>1. NoPrune(workload) BY <1>1, <2>1, Zenon DEF PowerLoss
    <3> QED BY <2>1, <3>1, LossKeepsRefed, Zenon DEF RefedInv
  <2>2. CASE ~PowerLoss BY <2>2, NextKeepsRefed, Zenon DEF RefedInv
  <2> QED BY <2>1, <2>2
<1> QED BY <1>2, <1>3, <1>4, PTL DEF Spec, RefedIsKept, KeepsRefed
=============================================================================
