------------------------------ MODULE RepoStore ------------------------------
(***************************************************************************)
(* The object store of one repository used by several processes: commit    *)
(* and pull transactions (ostree-repo-commit.c, ostree-repo-pull.c), prune *)
(* (ostree-repo-prune.c), refs and .commitpartial markers, with processes  *)
(* that fail or die between any two steps, and with power loss.            *)
(*                                                                         *)
(* Every process has its own OstreeRepo and one operation at a time.  The  *)
(* repository lock is used through its contract, RepoLockAbs, which        *)
(* RepoLock implements.  A commit stands for its commit object; it names a *)
(* root dirtree, which names the rest of the tree.                         *)
(***************************************************************************)

CONSTANTS
    Procs,           \* processes, each with one OstreeRepo
    Commits, Content,\* object names
    Root, Tree,      \* Root[c]: c's root dirtree; Tree[c]: all c needs, Root[c] included
    Refs,            \* branches
    Dirs,            \* names for staging directories under tmp/
    Workloads,       \* what the processes do: a set of records, see StoreConstants
    NoCommit, NoDir

Objects == Commits \cup Content

\* "pull" is a full pull, "pullmeta" one of commit metadata only; "prune" is
\* ostree_repo_prune with REFS_ONLY, "pruneorphans" without.
TxnOps == {"commit", "pull", "pullmeta"}
PruneOps == {"prune", "pruneorphans"}
AllOps == TxnOps \cup PruneOps \cup {"setref", "delref", "nospace", "cancel", "powerloss"}

Phases == {"idle", "scan", "writecommit", "write", "rename", "ref", "unlock",
           "unmark", "prune", "setref"}

\* A workload says which commits and operations there are, which commits are
\* built here rather than pulled, the branch of each commit, and the phases in
\* which an operation may fail or its process die.
ASSUME StoreConstants ==
    /\ Commits \cap Content = {}
    /\ Tree \in [Commits -> SUBSET Content] /\ Root \in [Commits -> Content]
    /\ \A c \in Commits : Root[c] \in Tree[c]
    /\ \A c, e \in Commits : Root[c] \in Tree[e] => Tree[c] = Tree[e]
    /\ Workloads \subseteq [commits : SUBSET Commits, built : SUBSET Commits,
                            branch : [Commits -> Refs], ops : SUBSET AllOps,
                            interruptible : SUBSET Phases]
    /\ NoCommit \notin Objects /\ NoDir \notin Dirs

VARIABLES
    workload,       \* one of Workloads
    objects,        \* names in objects/
    durable,        \* the names in objects/ on disk
    dirty,          \* names in objects/ whose contents are not on disk
    partial,        \* commits with a state/<checksum>.commitpartial file
    partialDurable, \* the markers on disk
    refs,           \* refs/heads and refs/remotes
    refsDurable,    \* the refs on disk
    stage,          \* staging directory -> names in it
    dirs,           \* the staging directories of this boot
    unflushed,      \* staging directories written to since the last syncfs
    lock,           \* the mode in which each process holds the repository lock
    leaked,         \* a process holds a shared lock no operation will pop
    pc, op, target, dir, todo, resume, in_transaction

objectVars == <<objects, durable, dirty>>
markVars == <<partial, partialDurable>>
refVars == <<refs, refsDurable>>
stageVars == <<stage, dirs, unflushed>>
lockVars == <<lock, leaked>>
opVars == <<op, target, dir, todo, resume, in_transaction>>
vars == <<workload, objectVars, markVars, refVars, stageVars, lockVars, pc, opVars>>

Lock == INSTANCE RepoLockAbs WITH Repos <- Procs, mode <- lock

Init ==
    /\ workload \in Workloads
    /\ objects = {} /\ durable = {} /\ dirty = {}
    /\ partial = {} /\ partialDurable = {}
    /\ refs = [r \in Refs |-> NoCommit] /\ refsDurable = refs
    /\ stage = [d \in Dirs |-> {}] /\ dirs = {} /\ unflushed = {}
    /\ lock = [p \in Procs |-> "UN"] /\ leaked = [p \in Procs |-> FALSE]
    /\ pc = [p \in Procs |-> "idle"]
    /\ op = [p \in Procs |-> "commit"]
    /\ target = [p \in Procs |-> NoCommit]
    /\ dir = [p \in Procs |-> NoDir]
    /\ todo = [p \in Procs |-> {}]
    /\ resume = [p \in Procs |-> FALSE]
    /\ in_transaction = [p \in Procs |-> FALSE]

Goto(p, phase) == pc' = [pc EXCEPT ![p] = phase]

\* The operations of the processes S are over; their locals go.
Return(S) ==
    /\ pc' = [p \in Procs |-> IF p \in S THEN "idle" ELSE pc[p]]
    /\ op' = [p \in Procs |-> IF p \in S THEN "commit" ELSE op[p]]
    /\ target' = [p \in Procs |-> IF p \in S THEN NoCommit ELSE target[p]]
    /\ dir' = [p \in Procs |-> IF p \in S THEN NoDir ELSE dir[p]]
    /\ todo' = [p \in Procs |-> IF p \in S THEN {} ELSE todo[p]]
    /\ resume' = [p \in Procs |-> resume[p] /\ p \notin S]
    /\ in_transaction' = [p \in Procs |-> in_transaction[p] /\ p \notin S]

\* Popping a lock returns to what is still pushed.
Unlocked(p) == IF leaked[p] THEN "SH" ELSE "UN"

\* The staging directories nobody holds the lock file of.
FreeDirs == dirs \ {dir[p] : p \in Procs}

\* ostree_repo_has_object in a transaction: the staging directory counts.
HasObject(p, x) == x \in objects \cup stage[dir[p]]

-----------------------------------------------------------------------------
(* Transactions: writing a commit, and pulling one *)

\* ostree_repo_prepare_transaction: take the shared lock, then go on in a
\* staging directory left over from this boot or make a new one.
Prepare(p, o, c) ==
    /\ pc[p] = "idle" /\ o \in TxnOps \cap workload.ops
    /\ c \in workload.commits /\ (o = "commit") = (c \in workload.built)
    /\ Lock!Change(p, "SH")
    /\ in_transaction' = [in_transaction EXCEPT ![p] = TRUE]
    /\ \E d \in IF FreeDirs # {} THEN FreeDirs ELSE Dirs \ dirs :
          /\ dir' = [dir EXCEPT ![p] = d]
          /\ dirs' = dirs \cup {d}
          /\ resume' = [resume EXCEPT ![p] = d \in dirs /\ o # "commit"]
    /\ op' = [op EXCEPT ![p] = o]
    /\ target' = [target EXCEPT ![p] = c]
    /\ todo' = [todo EXCEPT ![p] = IF o = "commit" THEN Tree[c] ELSE {}]
    /\ Goto(p, IF o = "commit" THEN "write" ELSE "scan")
    /\ UNCHANGED <<workload, objectVars, markVars, refVars, stage, unflushed, leaked>>

\* Write x to the staging directory, unless the repository has it.
StageObject(p, x) ==
    /\ IF HasObject(p, x)
       THEN UNCHANGED <<stage, unflushed>>
       ELSE /\ stage' = [stage EXCEPT ![dir[p]] = @ \cup {x}]
            /\ unflushed' = unflushed \cup {dir[p]}
    /\ UNCHANGED <<objectVars, refVars, dirs, lockVars>>

\* Mutant: the marker is forgotten.
MutFetchCommit(p) ==
    /\ pc[p] = "scan" /\ ~HasObject(p, target[p])
    /\ Goto(p, "writecommit")
    /\ UNCHANGED <<workload, objectVars, markVars, refVars, stageVars, lockVars, opVars>>

\* A fetched commit is marked partial; then its write is queued.
FetchCommit(p) ==
    /\ pc[p] = "scan" /\ ~HasObject(p, target[p])
    /\ partial' = partial \cup {target[p]}
    /\ Goto(p, "writecommit")
    /\ UNCHANGED <<workload, objectVars, partialDurable, refVars, stageVars, lockVars, opVars>>

\* The commit object is written; then the commit is scanned.
WriteFetched(p) ==
    /\ pc[p] = "writecommit"
    /\ StageObject(p, target[p])
    /\ Goto(p, "scan")
    /\ UNCHANGED <<workload, markVars, opVars>>

\* Only a commit that is partial has its tree looked at.
ScanCommit(p) ==
    /\ pc[p] = "scan" /\ HasObject(p, target[p])
    /\ todo' = [todo EXCEPT ![p] =
                  IF (resume[p] \/ target[p] \in partial) /\ op[p] = "pull"
                  THEN {Root[target[p]]} ELSE {}]
    /\ resume' = [resume EXCEPT ![p] = FALSE]
    /\ Goto(p, "write")
    /\ UNCHANGED <<workload, objectVars, markVars, refVars, stageVars, lockVars,
                   op, target, dir, in_transaction>>

\* Write or fetch one object of the tree.  A pull finds the tree by reading
\* the root, which it does whether the root was stored already or not; a
\* commit writes the files of a directory before the directory.
WriteContent(p, x) ==
    LET c == target[p] IN
    /\ pc[p] = "write" /\ x \in todo[p]
    /\ (op[p] = "commit" /\ x = Root[c]) => todo[p] = {x}
    /\ StageObject(p, x)
    /\ todo' = [todo EXCEPT ![p] = IF op[p] = "pull" /\ x = Root[c]
                                   THEN Tree[c] \ {x} ELSE @ \ {x}]
    /\ UNCHANGED <<workload, markVars, pc, op, target, dir, resume, in_transaction>>

\* ostree_repo_write_commit, after the tree.
WriteCommit(p) ==
    /\ pc[p] = "write" /\ todo[p] = {} /\ op[p] = "commit"
    /\ ~HasObject(p, target[p])
    /\ StageObject(p, target[p])
    /\ UNCHANGED <<workload, markVars, pc, opVars>>

\* Mutant: no syncfs before the renames.
MutCommitSync(p) ==
    /\ pc[p] = "write" /\ todo[p] = {} /\ HasObject(p, target[p])
    /\ Goto(p, "rename")
    /\ UNCHANGED <<workload, objectVars, markVars, refVars, stageVars, lockVars, opVars>>

\* ostree_repo_commit_transaction begins with a syncfs: everything anyone has
\* written so far goes to disk.
CommitSync(p) ==
    /\ pc[p] = "write" /\ todo[p] = {} /\ HasObject(p, target[p])
    /\ durable' = objects /\ dirty' = {}
    /\ partialDurable' = partial
    /\ refsDurable' = refs
    /\ unflushed' = {}
    /\ Goto(p, "rename")
    /\ UNCHANGED <<workload, objects, partial, refs, stage, dirs, lockVars, opVars>>

\* rename_pending_loose_objects: one directory entry, in no particular order;
\* an object that exists keeps its inode.
RenameOne(p, x) ==
    LET d == dir[p] IN
    /\ pc[p] = "rename" /\ x \in stage[d]
    /\ objects' = objects \cup {x}
    /\ dirty' = IF d \in unflushed /\ x \notin objects THEN dirty \cup {x} ELSE dirty
    /\ stage' = [stage EXCEPT ![d] = @ \ {x}]
    /\ UNCHANGED <<workload, durable, markVars, refVars, dirs, unflushed, lockVars, pc, opVars>>

\* fsync_object_dirs; then the staging directory is deleted and unlocked.
CommitObjects(p) ==
    /\ pc[p] = "rename" /\ stage[dir[p]] = {}
    /\ durable' = objects
    /\ dirs' = dirs \ {dir[p]}
    /\ unflushed' = unflushed \ {dir[p]}
    /\ dir' = [dir EXCEPT ![p] = NoDir]
    /\ Goto(p, "ref")
    /\ UNCHANGED <<workload, objects, dirty, markVars, refVars, stage, lockVars,
                   op, target, todo, resume, in_transaction>>

\* _ostree_repo_update_refs; with it the transaction is over.
WriteRef(p) ==
    /\ pc[p] = "ref"
    /\ refs' = [refs EXCEPT ![workload.branch[target[p]]] = target[p]]
    /\ in_transaction' = [in_transaction EXCEPT ![p] = FALSE]
    /\ Goto(p, "unlock")
    /\ UNCHANGED <<workload, objectVars, markVars, refsDurable, stageVars, lockVars,
                   op, target, dir, todo, resume>>

\* Pop the shared lock.  A full pull goes on to unmark the commit.
CommitUnlock(p) ==
    /\ pc[p] = "unlock"
    /\ Lock!Change(p, Unlocked(p))
    /\ IF op[p] = "pull" THEN Goto(p, "unmark") /\ UNCHANGED opVars ELSE Return({p})
    /\ UNCHANGED <<workload, objectVars, markVars, refVars, stageVars, leaked>>

\* The pop sees the cancellable and fails.  The caller's abort then finds no
\* transaction in progress and returns.
CommitCancelled(p) ==
    /\ pc[p] = "unlock" /\ "cancel" \in workload.ops
    /\ leaked' = [leaked EXCEPT ![p] = TRUE]
    /\ Return({p})
    /\ UNCHANGED <<workload, objectVars, markVars, refVars, stageVars, lock>>

\* The last step of a full pull; no lock is held.
Unmark(p) ==
    /\ pc[p] = "unmark"
    /\ partial' = partial \ {target[p]}
    /\ Return({p})
    /\ UNCHANGED <<workload, objectVars, partialDurable, refVars, stageVars, lockVars>>

\* Mutant: the cleanup deletes locked staging directories too.
MutAbortAll(p) ==
    /\ pc[p] \in workload.interruptible /\ in_transaction[p]
    /\ Lock!Change(p, Unlocked(p))
    /\ Return({p})
    /\ stage' = [d \in Dirs |-> {}] /\ dirs' = {} /\ unflushed' = {}
    /\ UNCHANGED <<workload, objectVars, markVars, refVars, leaked>>

\* ostree_repo_abort_transaction.  The staging directory stays for the next
\* transaction, unless free space ran out: then all unlocked ones are deleted.
Abort(p) ==
    /\ pc[p] \in workload.interruptible /\ in_transaction[p]
    /\ Lock!Change(p, Unlocked(p))
    /\ Return({p})
    /\ \/ UNCHANGED stageVars
       \/ LET gone == FreeDirs \cup {dir[p]} IN
          /\ "nospace" \in workload.ops /\ pc[p] = "write"
          /\ stage' = [d \in Dirs |-> IF d \in gone THEN {} ELSE stage[d]]
          /\ dirs' = dirs \ gone
          /\ unflushed' = unflushed \ gone
    /\ UNCHANGED <<workload, objectVars, markVars, refVars, leaked>>

-----------------------------------------------------------------------------
(* Prune *)

Roots(o) == IF o = "prune" THEN objects \cap {refs[r] : r \in Refs}
            ELSE objects \cap Commits

\* The traversal loads dirtrees, and forgives a missing one for a partial
\* commit only.
Traversable(c) == c \in partial \/ Root[c] \in objects

\* Mutant: the traversal does not enter directories.
MutReachable(o) == Roots(o) \cup {Root[c] : c \in Roots(o)}

Reachable(o) ==
    Roots(o) \cup {Root[c] : c \in Roots(o)}
             \cup UNION {Tree[c] : c \in {e \in Roots(o) : Root[e] \in objects}}

\* ostree_repo_prune: take the exclusive lock and find what to delete.
PruneStart(p, o) ==
    /\ pc[p] = "idle" /\ o \in PruneOps \cap workload.ops
    /\ \A c \in Roots(o) : Traversable(c)
    /\ Lock!Change(p, "EX")
    /\ op' = [op EXCEPT ![p] = o]
    /\ todo' = [todo EXCEPT ![p] = objects \ Reachable(o)]
    /\ Goto(p, "prune")
    /\ UNCHANGED <<workload, objectVars, markVars, refVars, stageVars, leaked,
                   target, dir, resume, in_transaction>>

\* maybe_prune_loose_object, in the order of a hash table: a commit first
\* loses its marker...
PruneUnmark(p, x) ==
    /\ pc[p] = "prune" /\ x \in todo[p] \cap partial
    /\ partial' = partial \ {x}
    /\ UNCHANGED <<workload, objectVars, partialDurable, refVars, stageVars, lockVars, pc, opVars>>

\* ... and then is deleted.
PruneDelete(p, x) ==
    /\ pc[p] = "prune" /\ x \in todo[p] \ partial
    /\ objects' = objects \ {x}
    /\ dirty' = dirty \ {x}
    /\ todo' = [todo EXCEPT ![p] = @ \ {x}]
    /\ UNCHANGED <<workload, durable, markVars, refVars, stageVars, lockVars, pc,
                   op, target, dir, resume, in_transaction>>

\* The loop is over, or stopped at an error.
PruneEnd(p) ==
    /\ pc[p] = "prune" /\ (todo[p] = {} \/ "prune" \in workload.interruptible)
    /\ Lock!Change(p, Unlocked(p))
    /\ Return({p})
    /\ UNCHANGED <<workload, objectVars, markVars, refVars, stageVars, leaked>>

-----------------------------------------------------------------------------
(* Refs outside a transaction, and the environment *)

\* `ostree refs --create` resolves the ref it is given...
ResolveRev(p, r) ==
    /\ pc[p] = "idle" /\ "setref" \in workload.ops /\ refs[r] # NoCommit
    /\ target' = [target EXCEPT ![p] = refs[r]]
    /\ Goto(p, "setref")
    /\ UNCHANGED <<workload, objectVars, markVars, refVars, stageVars, lockVars,
                   op, dir, todo, resume, in_transaction>>

\* ... and ostree_repo_set_ref_immediate writes another, without any lock.
SetRefImmediate(p, r) ==
    /\ pc[p] = "setref"
    /\ refs' = [refs EXCEPT ![r] = target[p]]
    /\ Return({p})
    /\ UNCHANGED <<workload, objectVars, markVars, refsDurable, stageVars, lockVars>>

\* `ostree refs --delete`.
DeleteRef(p, r) ==
    /\ pc[p] = "idle" /\ "delref" \in workload.ops /\ refs[r] # NoCommit
    /\ refs' = [refs EXCEPT ![r] = NoCommit]
    /\ UNCHANGED <<workload, objectVars, markVars, refsDurable, stageVars, lockVars, pc, opVars>>

\* What dying does to the processes S: the kernel drops their locks.
Dead(S) ==
    /\ lock' = [p \in Procs |-> IF p \in S THEN "UN" ELSE lock[p]]
    /\ leaked' = [p \in Procs |-> leaked[p] /\ p \notin S]
    /\ Return(S)

Die(p) ==
    /\ pc[p] \in workload.interruptible
    /\ Dead({p})
    /\ UNCHANGED <<workload, objectVars, markVars, refVars, stageVars>>

\* Names that changed since the last sync may be found old or new; staging
\* directories now are of another boot, never reused and later deleted.
PowerLoss ==
    /\ "powerloss" \in workload.ops /\ \A p \in Procs : pc[p] \in workload.interruptible \cup {"idle"}
    /\ objects' \in {(objects \cap durable) \cup new :
                       new \in SUBSET ((objects \ durable) \cup (durable \ objects))}
    /\ partial' \in {(partial \cap partialDurable) \cup new :
                       new \in SUBSET ((partial \ partialDurable) \cup (partialDurable \ partial))}
    /\ refs' \in {[r \in Refs |-> IF r \in new THEN refs[r] ELSE refsDurable[r]] :
                    new \in SUBSET Refs}
    /\ durable' = objects' /\ partialDurable' = partial' /\ refsDurable' = refs'
    /\ dirty' = dirty \cap objects'
    /\ stage' = [d \in Dirs |-> {}] /\ dirs' = {} /\ unflushed' = {}
    /\ Dead(Procs)
    /\ UNCHANGED workload

Next ==
    \/ \E p \in Procs, o \in TxnOps, c \in Commits : Prepare(p, o, c)
    \/ \E p \in Procs :
          \/ FetchCommit(p) \/ WriteFetched(p) \/ ScanCommit(p) \/ WriteCommit(p)
          \/ CommitSync(p) \/ CommitObjects(p) \/ WriteRef(p) \/ CommitUnlock(p)
          \/ CommitCancelled(p) \/ Unmark(p) \/ Abort(p)
          \/ PruneEnd(p) \/ Die(p)
    \/ \E p \in Procs, x \in Objects :
          WriteContent(p, x) \/ RenameOne(p, x) \/ PruneUnmark(p, x) \/ PruneDelete(p, x)
    \/ \E p \in Procs, o \in PruneOps : PruneStart(p, o)
    \/ \E p \in Procs, r \in Refs :
          ResolveRev(p, r) \/ SetRefImmediate(p, r) \/ DeleteRef(p, r)
    \/ PowerLoss

Spec == Init /\ [][Next]_vars

-----------------------------------------------------------------------------
(* Properties *)

\* Every variable has its type, and a process has a staging directory exactly
\* while its transaction can write to one (ostree-repo-commit.c:1671-2421).
TypeOK ==
    /\ workload \in Workloads
    /\ objects \subseteq Objects /\ durable \subseteq Objects /\ dirty \subseteq objects
    /\ partial \subseteq Commits /\ partialDurable \subseteq Commits
    /\ refs \in [Refs -> Commits \cup {NoCommit}]
    /\ refsDurable \in [Refs -> Commits \cup {NoCommit}]
    /\ stage \in [Dirs -> SUBSET Objects] /\ dirs \subseteq Dirs /\ unflushed \subseteq dirs
    /\ lock \in [Procs -> {"UN", "SH", "EX"}] /\ leaked \in [Procs -> BOOLEAN]
    /\ pc \in [Procs -> Phases] /\ op \in [Procs -> TxnOps \cup PruneOps]
    /\ target \in [Procs -> Commits \cup {NoCommit}]
    /\ dir \in [Procs -> dirs \cup {NoDir}]
    /\ todo \in [Procs -> SUBSET Objects]
    /\ resume \in [Procs -> BOOLEAN] /\ in_transaction \in [Procs -> BOOLEAN]

\* What a ref points to is there, whole and readable: the commit object exists,
\* with its tree unless it is marked partial, and no file of it would be empty
\* after a power loss.  This must survive concurrent pulls, commits and prunes,
\* and any crash between two steps of rename_pending_loose_objects,
\* fsync_object_dirs and the writing of refs.
RefsComplete ==
    \A r \in Refs : refs[r] # NoCommit =>
        LET c == refs[r] IN
        /\ c \in objects \ dirty
        /\ c \in partial \/ Tree[c] \subseteq objects \ dirty

\* OSTREE_REPO_COMMIT_STATE_NORMAL means complete (ostree-repo.h:201): outside
\* of a prune, a pulled commit in objects/ that has no .commitpartial marker has
\* its whole tree.  The next pull relies on it: it scans partial commits only.
NormalIsComplete ==
    (\A p \in Procs : lock[p] # "EX") =>
        \A c \in (objects \cap Commits) \ (workload.built \cup partial) : Tree[c] \subseteq objects

\* An OstreeRepo with no operation in progress holds no lock
\* (ostree_repo_commit_transaction "Releases `shared` lock acquired by
\* `ostree_repo_prepare_transaction()`", ostree-repo-commit.c:2284).
IdleUnlocked == \A p \in Procs : pc[p] = "idle" => lock[p] = "UN"

\* Two transactions never share a staging directory, and what is in one is never
\* deleted by another process's cleanup (cleanup_txn_dir): the objects a
\* transaction has written stay visible to it until they are renamed.
StagedIsKept ==
    [][\A p \in Procs : pc[p] # "idle" /\ pc'[p] # "idle" /\ dir[p] # NoDir =>
         /\ stage[dir[p]] \subseteq stage'[dir[p]] \cup objects'
         /\ \A q \in Procs \ {p} : dir'[q] # dir[p]]_vars

\* Nothing a ref points to is ever taken from objects/: no deletion by a prune
\* and no power loss touches a complete commit whose ref stays as it was.
RefedIsKept ==
    [][\A r \in Refs : LET c == refs[r] IN
         c \notin partial \cup {NoCommit} /\ refs'[r] = c /\ {c} \cup Tree[c] \subseteq objects
            => {c} \cup Tree[c] \subseteq objects']_vars
=============================================================================
