------------------------------ MODULE Staging ------------------------------
(***************************************************************************)
(* The staging directories of transactions: how                            *)
(* ostree_repo_prepare_transaction finds or makes one                      *)
(* (_ostree_repo_allocate_tmpdir, ostree-repo.c), and how a commit, an     *)
(* abort and the cleanup of repo/tmp (ostree-repo-commit.c) dispose of it. *)
(*                                                                         *)
(* Processes share repo/tmp; each step that touches a name there is an     *)
(* action.  A directory is locked by a lock file next to it, named after   *)
(* it.  What counts is which lock file has the name now: locks.file[d] is  *)
(* None when there is no file, else the process that locked that file      *)
(* ("free" after it died).  A process that locked a file which lost its    *)
(* name still believes that it holds the lock.  The cleanup expires a lock *)
(* file by its age, whoever holds it: tmp.expired records the directories  *)
(* whose lock file was taken from a holder in this way.                    *)
(***************************************************************************)
EXTENDS Integers, FiniteSets

CONSTANTS Actors,      \* processes of this boot
          StageDirs,   \* names that mkdtemp may come up with
          OldDirs,     \* those of StageDirs left by an earlier boot
          None

VARIABLES tmp,    \* [dir, file, old, expired]: directories, lock files by name, files past
                  \* the expiry, names whose lock file was removed under a holder
          actor   \* what every process is doing

stagingVars == <<tmp, actor>>

Resting == [pc |-> "idle", dir |-> None, tried |-> {}, lowspace |-> FALSE, aborts |-> FALSE]

StagingInit ==
  /\ \E present \in SUBSET OldDirs :
       tmp = [dir |-> present, file |-> [d \in StageDirs |-> IF d \in present THEN "free" ELSE None],
              old |-> {}, expired |-> {}]
  /\ actor = [a \in Actors |-> Resting]

Go(a, r) == actor' = [actor EXCEPT ![a] = r]

-----------------------------------------------------------------------------
(* glnx_make_lock_file and glnx_release_lock_file, which open, lock and    *)
(* remove the file that has the name.                                      *)
Lockable(d) == tmp.file[d] \in {None, "free"}
Locked(a, d) == [tmp EXCEPT !.file[d] = a, !.old = IF tmp.file[d] = None THEN @ \ {d} ELSE @]
Released(t, d) == [t EXCEPT !.file[d] = None, !.old = @ \ {d}]

\* Any lock will do, whether the directory is still there or not.
MutTryLock(a, d, yes, no) ==
  \/ Lockable(d) /\ tmp' = Locked(a, d) /\ yes
  \/ ~Lockable(d) /\ tmp' = tmp /\ no

\* _ostree_repo_try_lock_tmpdir: the lock counts only if the directory is
\* still there once it is held.
_ostree_repo_try_lock_tmpdir(a, d, yes, no) ==
  \/ Lockable(d) /\ d \in tmp.dir /\ tmp' = Locked(a, d) /\ yes
  \/ Lockable(d) /\ d \notin tmp.dir /\ tmp' = Released(tmp, d) /\ no
  \/ ~Lockable(d) /\ tmp' = tmp /\ no

-----------------------------------------------------------------------------
(* _ostree_repo_allocate_tmpdir: directories of this boot first.           *)

Untried(a) == (tmp.dir \ OldDirs) \ actor[a].tried

FindExisting(a) ==
  /\ actor[a].pc = "idle"
  /\ \/ \E d \in Untried(a) : Go(a, [actor[a] EXCEPT !.pc = "reuse", !.dir = d])
     \/ Untried(a) = {} /\ Go(a, [actor[a] EXCEPT !.pc = "mkdtemp"])
  /\ UNCHANGED tmp

LockExisting(a) ==
  LET d == actor[a].dir
  IN  /\ actor[a].pc = "reuse"
      /\ _ostree_repo_try_lock_tmpdir(a, d,
           Go(a, [actor[a] EXCEPT !.pc = "txn"]),
           Go(a, [actor[a] EXCEPT !.pc = "idle", !.dir = None, !.tried = @ \cup {d}]))

MakeNew(a) ==
  /\ actor[a].pc = "mkdtemp"
  /\ \E d \in StageDirs \ (tmp.dir \cup OldDirs) :
       /\ tmp' = [tmp EXCEPT !.dir = @ \cup {d}]
       /\ Go(a, [actor[a] EXCEPT !.pc = "locknew", !.dir = d])

\* Another process may have found the new directory first; then make one more.
LockNew(a) ==
  /\ actor[a].pc = "locknew"
  /\ _ostree_repo_try_lock_tmpdir(a, actor[a].dir,
       Go(a, [actor[a] EXCEPT !.pc = "txn"]),
       Go(a, [actor[a] EXCEPT !.pc = "mkdtemp", !.dir = None]))

-----------------------------------------------------------------------------
(* The transaction ends.                                                   *)

\* A content object does not fit: its writer sets cleanup_stagedir.
RunOutOfSpace(a) ==
  /\ actor[a].pc = "txn" /\ ~actor[a].lowspace
  /\ Go(a, [actor[a] EXCEPT !.lowspace = TRUE])
  /\ UNCHANGED tmp

\* A commit deletes the (now empty) directory before it lets go of the lock.
DeleteOwn(a) ==
  /\ actor[a].pc = "txn" /\ ~actor[a].lowspace
  /\ tmp' = [tmp EXCEPT !.dir = @ \ {actor[a].dir}]
  /\ Go(a, [actor[a] EXCEPT !.pc = "release"])

\* An abort keeps the directory, for the next transaction to resume.
Abort(a) ==
  /\ actor[a].pc = "txn"
  /\ UNCHANGED tmp
  /\ Go(a, [actor[a] EXCEPT !.pc = "release", !.aborts = TRUE])

Release(a) ==
  /\ actor[a].pc = "release"
  /\ tmp' = Released(tmp, actor[a].dir)
  /\ Go(a, [actor[a] EXCEPT !.pc = "cleanup", !.dir = None, !.tried = {}])

-----------------------------------------------------------------------------
(* cleanup_tmpdir: every name in repo/tmp is looked at once.               *)

\* A directory of this boot is taken for nobody's, and no lock is sought.
MutCleanupTxn(a, d) ==
  /\ actor[a].pc = "cleanup" /\ d \in tmp.dir \ actor[a].tried
  /\ Go(a, [actor[a] EXCEPT !.tried = @ \cup {d}, !.dir = d,
            !.pc = IF d \notin OldDirs /\ ~actor[a].lowspace THEN "unlock" ELSE "rmrf"])
  /\ UNCHANGED tmp

\* cleanup_txn_dir, up to the lock and the decision to keep the directory.
cleanup_txn_dir(a, d) ==
  /\ actor[a].pc = "cleanup" /\ d \in tmp.dir \ actor[a].tried
  /\ _ostree_repo_try_lock_tmpdir(a, d,
       Go(a, [actor[a] EXCEPT !.tried = @ \cup {d}, !.dir = d,
              !.pc = IF d \notin OldDirs /\ ~actor[a].lowspace THEN "unlock" ELSE "rmrf"]),
       Go(a, [actor[a] EXCEPT !.tried = @ \cup {d}]))

RemoveTree(a) ==
  /\ actor[a].pc = "rmrf"
  /\ tmp' = [tmp EXCEPT !.dir = @ \ {actor[a].dir}]
  /\ Go(a, [actor[a] EXCEPT !.pc = "unlock"])

Unlock(a) ==
  /\ actor[a].pc = "unlock"
  /\ tmp' = Released(tmp, actor[a].dir)
  /\ Go(a, [actor[a] EXCEPT !.pc = "cleanup", !.dir = None])

\* Anything that is not a directory with the prefix goes when it is older than
\* the expiry; a lock file is such a thing.  The name is looked up for its age
\* first and removed then, whatever file has it by that time.
SeeOld(a, d) ==
  /\ actor[a].pc = "cleanup" /\ d \in tmp.old
  /\ Go(a, [actor[a] EXCEPT !.pc = "expire", !.dir = d])
  /\ UNCHANGED tmp

ExpireFile(a) ==
  LET d == actor[a].dir
  IN  /\ actor[a].pc = "expire"
      /\ tmp' = [Released(tmp, d) EXCEPT !.expired = IF tmp.file[d] \in Actors THEN @ \cup {d} ELSE @]
      /\ Go(a, [actor[a] EXCEPT !.pc = "cleanup", !.dir = None])

EndCleanup(a) ==
  /\ actor[a].pc = "cleanup" /\ tmp.dir \subseteq actor[a].tried
  /\ Go(a, Resting)
  /\ UNCHANGED tmp

\* The process dies: what it locked is free, the files stay.
Die(a) ==
  /\ actor[a].pc # "idle"
  /\ tmp' = [tmp EXCEPT !.file = [d \in StageDirs |-> IF @[d] = a THEN "free" ELSE @[d]]]
  /\ Go(a, Resting)

\* The modification time of a lock file, held or not, falls behind the expiry
\* (tmp-expiry-secs, a day); locking it again does not change it.
GrowOld(d) ==
  /\ tmp.file[d] # None /\ d \notin tmp.old
  /\ tmp' = [tmp EXCEPT !.old = @ \cup {d}]
  /\ UNCHANGED actor

\* mkdtemp has run out of the names of the model.
OutOfNames(a) ==
  /\ actor[a].pc = "mkdtemp" /\ StageDirs \subseteq tmp.dir \cup OldDirs
  /\ Go(a, Resting)
  /\ UNCHANGED tmp

StagingStep(a) ==
  \/ FindExisting(a) \/ LockExisting(a) \/ MakeNew(a) \/ LockNew(a) \/ OutOfNames(a)
  \/ RunOutOfSpace(a) \/ DeleteOwn(a) \/ Abort(a) \/ Release(a)
  \/ (\E d \in StageDirs : cleanup_txn_dir(a, d) \/ SeeOld(a, d))
  \/ ExpireFile(a) \/ RemoveTree(a) \/ Unlock(a) \/ EndCleanup(a) \/ Die(a)

StagingNext == \/ \E a \in Actors : StagingStep(a)
               \/ \E d \in StageDirs : GrowOld(d)

StagingSpec == StagingInit /\ [][StagingNext]_stagingVars

-----------------------------------------------------------------------------
InTxn(a) == actor[a].pc = "txn"

(* No two transactions write to one staging directory, whatever the order  *)
(* of finding, making, locking, deleting and cleaning up, unless a cleanup *)
(* took the lock file of that directory from its holder by its age.        *)
StagingExclusive ==
  \A a, b \in Actors :
     a # b /\ InTxn(a) /\ InTxn(b) /\ actor[a].dir = actor[b].dir => actor[a].dir \in tmp.expired

(* The directory of a running transaction is there until the transaction   *)
(* itself deletes it, with the same exception: no cleanup of another       *)
(* process takes it away.                                                  *)
StagingStays ==
  \A a \in Actors : InTxn(a) => actor[a].dir \in tmp.dir \cup tmp.expired

(* A transaction has its staging directory to itself, and the directory    *)
(* stays until the transaction itself disposes of it; only the expiry of   *)
(* a lock file that is held undoes this.                                   *)
StagingSafe ==
  /\ StagingExclusive
  /\ StagingStays
=============================================================================
