-------------------------------- MODULE Fsck --------------------------------
(***************************************************************************)
(* `ostree fsck` (ot-builtin-fsck.c) over the loose objects of a           *)
(* repository: loading and deleting objects (ostree-repo.c), the commit    *)
(* walk with its table of parents (ostree-repo-traverse.c), and the mark   *)
(* that a commit is partial.                                               *)
(*                                                                         *)
(* An object is intact, damaged (it loads, and its checksum is not its     *)
(* name) or gone; a damaged directory still lists what it did.  Checking   *)
(* an object and marking each commit that lacks it are steps of their own, *)
(* and the command may be killed between any two.                          *)
(***************************************************************************)
EXTENDS Integers, FiniteSets

CONSTANTS Archive,         \* the mode is archive, or else one of the bare modes
          Objs, Kind,      \* the objects, and commit, dirtree, dirmeta or file for each
          Kids,            \* what a commit or a dirtree names
          ParentCommit,    \* the parent of each commit, or None
          RefTo,           \* the commit of each ref; a ref is <<collection or None, name>>
          Bound,           \* the bindings, [coll, refs], of the commits that have them
          Options,         \* the sets of options that are tried
          Damages,         \* the states of the objects that are tried
          Shared,          \* the states of the parent repository's objects
          MaxRuns, None

VARIABLES objs,     \* object -> "ok", "bad", "nolink" or "none", below objects/
          up,       \* the same for the repository named as parent, which is only read
          partial,  \* commit -> "no", "partial" or "fsck": its state/ file
          tomb,     \* commits with a tombstone
          fsck,     \* the command that runs, or the result of the last one
          runs

fsckVars == <<objs, up, partial, tomb, fsck, runs>>

Commits == {o \in Objs : Kind[o] = "commit"}
Results == {"none", "clean", "corrupt", "fsckpartial", "error", "killed"}

FsckInit ==
  /\ objs \in Damages /\ up \in Shared
  /\ partial \in [Commits -> {"no"}] \cup {[c \in Commits |-> IF c = d THEN "partial" ELSE "no"] : d \in Commits}
  /\ tomb = {} /\ runs = 0
  /\ fsck = [pc |-> "idle", res |-> "none"]

-----------------------------------------------------------------------------
(* Objects.                                                                *)

\* This repository's copy, or else the one of its parent.
load_metadata_internal(o) == IF objs[o] # "none" THEN objs[o] ELSE up[o]

\* A content object: in bare-split-xattrs the link to the extended attributes is
\* read from this repository, and its absence is as that of the file.
_ostree_repo_load_file_bare(o) ==
  CASE objs[o] = "none" -> up[o]
    [] objs[o] = "nolink" -> "none"
    [] OTHER -> objs[o]
repo_load_file_archive(o) == IF objs[o] # "none" THEN objs[o] ELSE up[o]
ostree_repo_load_file(o) == IF Archive THEN repo_load_file_archive(o) ELSE _ostree_repo_load_file_bare(o)

\* ostree_repo_fsck_object: "ok" if the checksum of what loads is the name.
fsck_metadata_object(o) == load_metadata_internal(o)
fsck_content_object(o) == ostree_repo_load_file(o)
Load(o) == IF Kind[o] = "file" THEN fsck_content_object(o) ELSE fsck_metadata_object(o)

\* list_loose_objects for commits, in this repository and in its parent.
Loose(o, state) == state[o] # "none"
ListedCommits == {c \in Commits : Loose(c, objs) \/ Loose(c, up)}

\* ostree_repo_load_commit: the state of a commit is the file of the repository it
\* was found in; the one named as parent has no such files here.
CommitState(c) == IF objs[c] # "none" THEN partial[c] ELSE "no"

\* The commit must be bound to the ref if it is bound at all, and to the collection of
\* a ref that has one.
_ostree_repo_verify_bindings(c, r) ==
  IF c \in DOMAIN Bound THEN r[2] \in Bound[c].refs /\ r[1] \in {None, Bound[c].coll} ELSE r[1] = None

Opt(name) == name \in fsck.opt
Running(pc) == fsck.pc = pc
Stop(res) == fsck' = [pc |-> "idle", res |-> res]
Go(pc, todo) == [fsck EXCEPT !.pc = pc, !.todo = todo]

-----------------------------------------------------------------------------
(* The walk: reachable objects, and for each the objects that name it.     *)

\* ostree_repo_commit_traverse_iter_next until its end: the files and directories
\* of a directory, the root of a commit, with their metadata.
Iterated(o) == Kids[o]

\* The directories that traverse_iter and traverse_dirtree enter from a commit: not
\* below one that was reached before.
RECURSIVE Entered(_, _)
Entered(seen, S) ==
  LET new == {k \in UNION {Iterated(o) : o \in S} : Kind[k] = "dirtree"} \ seen
  IN  IF new = {} THEN {} ELSE new \cup Entered(seen \cup new, new)

\* add_parent_ref for everything that the objects walked name.
add_parent_ref(old, from) == old \cup UNION {{<<k, o>> : k \in Iterated(o)} : o \in from}

\* The table of results is shared by all calls, and keeps what earlier ones found.
MutGetCommits(edges, o) == {e[2] : e \in edges} \cap Commits

\* ostree_repo_traverse_parents_get_commits.
RECURSIVE parents_get_commits(_, _)
parents_get_commits(edges, o) ==
  IF Kind[o] = "commit" THEN {o}
  ELSE UNION {parents_get_commits(edges, e[2]) : e \in {f \in edges : f[1] = o}}

\* ostree_repo_traverse_commit_union_with_parents, depth 0, for one commit that is
\* not partial.
Traverse(c) ==
  /\ Running("walk") /\ c \in fsck.todo
  /\ LET dirs == Entered(fsck.reach, {c})
         new == {c} \cup dirs
     IN  IF \E d \in dirs : Load(d) = "none" THEN Stop("error")
         ELSE fsck' = [Go("walk", fsck.todo \ {c}) EXCEPT
                         !.reach = @ \cup new \cup UNION {Iterated(o) : o \in new},
                         !.edges = add_parent_ref(@, new)]
  /\ UNCHANGED <<objs, up, partial, tomb, runs>>

-----------------------------------------------------------------------------
(* The command.                                                            *)

ostree_builtin_fsck(o) ==
  /\ fsck.pc = "idle" /\ runs < MaxRuns /\ runs' = runs + 1
  /\ fsck' = [pc |-> "refs", res |-> "none", opt |-> o, todo |-> {r \in DOMAIN RefTo : r[1] = None}, ref |-> None,
              found |-> FALSE, commits |-> {}, object |-> None, owners |-> {}, marked |-> FALSE, reach |-> {}, edges |-> {}, tombs |-> {}]
  /\ UNCHANGED <<objs, up, partial, tomb>>

\* A commit is deleted with its detached metadata; a tombstone takes its place if
\* the configuration asks for it.  Only this repository's copy goes.
ostree_repo_delete_object(o) == objs' = [objs EXCEPT ![o] = "none"]

\* The commits that lose the object are marked only if it was damaged.
MutMissing(o, next) ==
  [next EXCEPT !.found = TRUE, !.object = o,
               !.owners = IF Kind[o] = "commit" \/ Load(o) = "none" THEN {} ELSE parents_get_commits(fsck.edges, o)]

\* With a table of parents, the commits that lack the object are to be marked.
Missing(o, next) ==
  [next EXCEPT !.found = TRUE, !.object = o,
               !.owners = IF Kind[o] = "commit" THEN {} ELSE parents_get_commits(fsck.edges, o)]

\* With --delete a damaged object counts as missing, whether it could be deleted or
\* not; without, and without --all, damage stops the command.
fsck_one_object(o, next) ==
  \/ Load(o) = "ok" /\ fsck' = next /\ UNCHANGED objs
  \/ Load(o) = "none" /\ fsck' = Missing(o, next) /\ UNCHANGED objs
  \/ /\ Load(o) = "bad" /\ Opt("delete") /\ fsck' = Missing(o, next)
     /\ ostree_repo_delete_object(o) \/ UNCHANGED objs
  \/ Load(o) = "bad" /\ ~Opt("delete") /\ Opt("all") /\ fsck' = [next EXCEPT !.found = TRUE] /\ UNCHANGED objs
  \/ Load(o) = "bad" /\ ~Opt("delete") /\ ~Opt("all") /\ Stop("error") /\ UNCHANGED objs

\* One of the commits that lack the object last checked: it must load, and is marked
\* partial unless it is already, which may fail.
MarkPartial(c) ==
  /\ Running("objects") /\ c \in fsck.owners
  /\ \/ Load(c) = "none" /\ Stop("error") /\ UNCHANGED partial
     \/ Load(c) # "none" /\ CommitState(c) # "no" /\ fsck' = [fsck EXCEPT !.owners = @ \ {c}] /\ UNCHANGED partial
     \/ /\ Load(c) # "none" /\ CommitState(c) = "no"
        /\ \/ partial' = [partial EXCEPT ![c] = "fsck"] /\ fsck' = [fsck EXCEPT !.owners = @ \ {c}]
           \/ Stop("error") /\ UNCHANGED partial
  /\ UNCHANGED <<objs, up, tomb, runs>>

\* fsck_commit_for_ref: the commit is checked, then loaded and its bindings compared.
fsck_commit_for_ref(r) ==
  /\ fsck.pc \in {"refs", "collections"} /\ r \in fsck.todo /\ fsck.ref = None
  /\ fsck_one_object(RefTo[r], [fsck EXCEPT !.ref = r])
  /\ UNCHANGED <<up, partial, tomb, runs>>

LoadForRef(r) ==
  /\ fsck.pc \in {"refs", "collections"} /\ fsck.ref = r
  /\ IF Load(RefTo[r]) = "none" \/ (Opt("verify-bindings") /\ ~_ostree_repo_verify_bindings(RefTo[r], r))
     THEN Stop("error")
     ELSE fsck' = [fsck EXCEPT !.ref = None, !.todo = @ \ {r}]
  /\ UNCHANGED <<objs, up, partial, tomb, runs>>

\* ostree_repo_list_collection_refs, when the plain refs are done.
ListCollectionRefs ==
  /\ Running("refs") /\ fsck.todo = {}
  /\ fsck' = Go("collections", {r \in DOMAIN RefTo : r[1] # None})
  /\ UNCHANGED <<objs, up, partial, tomb, runs>>

\* All commits are listed; --verify-back-refs turns --verify-bindings on.
EnumerateCommits ==
  /\ Running("collections") /\ fsck.todo = {}
  /\ fsck' = [Go("commits", ListedCommits) EXCEPT
                !.opt = @ \cup (IF "verify-back-refs" \in @ THEN {"verify-bindings"} ELSE {})]
  /\ UNCHANGED <<objs, up, partial, tomb, runs>>

\* fsck_one_commit, and the split into partial commits and those that are checked.
fsck_one_commit(c) ==
  /\ Running("commits") /\ c \in fsck.todo
  /\ IF Opt("verify-back-refs") /\ c \in DOMAIN Bound
        /\ \E n \in Bound[c].refs : <<Bound[c].coll, n>> \notin DOMAIN RefTo \/ RefTo[<<Bound[c].coll, n>>] # c
     THEN Stop("error")
     ELSE fsck' = [Go("commits", fsck.todo \ {c}) EXCEPT
                     !.tombs = IF /\ Opt("add-tombstones") /\ ParentCommit[c] # None
                                  /\ ParentCommit[c] \notin Objs \/ Load(ParentCommit[c]) = "none"
                               THEN @ \cup {c} ELSE @,
                     !.commits = IF CommitState(c) = "no" THEN @ \cup {c} ELSE @,
                     !.marked = @ \/ CommitState(c) = "fsck"]
  /\ UNCHANGED <<objs, up, partial, tomb, runs>>

EndCommits ==
  /\ Running("commits") /\ fsck.todo = {}
  /\ fsck' = Go("walk", fsck.commits)
  /\ UNCHANGED <<objs, up, partial, tomb, runs>>

EndWalk ==
  /\ Running("walk") /\ fsck.todo = {}
  /\ fsck' = Go("objects", fsck.reach)
  /\ UNCHANGED <<objs, up, partial, tomb, runs>>

\* fsck_reachable_objects_from_commits, one object.
CheckObject(o) ==
  /\ Running("objects") /\ fsck.owners = {} /\ o \in fsck.todo
  /\ fsck_one_object(o, Go("objects", fsck.todo \ {o}))
  /\ UNCHANGED <<up, partial, tomb, runs>>

EndObjects ==
  /\ Running("objects") /\ fsck.owners = {} /\ fsck.todo = {}
  /\ fsck' = Go("tombstones", fsck.tombs)
  /\ UNCHANGED <<objs, up, partial, tomb, runs>>

\* A tombstone for each commit noted: ot_enable_tombstone_commits is done, and the
\* commit is deleted; that fails if it is not in this repository.
AddTombstone(c) ==
  /\ Running("tombstones") /\ c \in fsck.todo
  /\ IF objs[c] = "none" THEN Stop("error") /\ UNCHANGED <<objs, tomb>>
     ELSE /\ ostree_repo_delete_object(c) /\ tomb' = tomb \cup {c}
          /\ fsck' = Go("tombstones", fsck.todo \ {c})
  /\ UNCHANGED <<up, partial, runs>>

\* The damage that an earlier run marked is forgotten.
MutFinish ==
  /\ Running("tombstones") /\ fsck.todo = {}
  /\ Stop(IF fsck.found THEN "corrupt" ELSE "clean")
  /\ UNCHANGED <<objs, up, partial, tomb, runs>>

Finish ==
  /\ Running("tombstones") /\ fsck.todo = {}
  /\ Stop(IF fsck.found THEN "corrupt" ELSE IF fsck.marked THEN "fsckpartial" ELSE "clean")
  /\ UNCHANGED <<objs, up, partial, tomb, runs>>

Killed == fsck.pc # "idle" /\ Stop("killed") /\ UNCHANGED <<objs, up, partial, tomb, runs>>

FsckNext ==
  \/ \E o \in Options : ostree_builtin_fsck(o)
  \/ \E r \in DOMAIN RefTo : fsck_commit_for_ref(r) \/ LoadForRef(r)
  \/ ListCollectionRefs \/ EnumerateCommits \/ EndCommits \/ EndWalk \/ EndObjects \/ Finish \/ Killed
  \/ \E c \in Commits : fsck_one_commit(c) \/ Traverse(c) \/ MarkPartial(c) \/ AddTombstone(c)
  \/ \E o \in Objs : CheckObject(o)

-----------------------------------------------------------------------------
RECURSIVE Closure(_)
Closure(o) == {o} \cup UNION {Closure(k) : k \in Kids[o]}

\* A command that reports no errors has found every commit that is not partial with
\* all its objects intact, and none that an earlier run marked: ot-builtin-fsck.c
\* 433-441.
CleanIsIntact ==
  fsck.res = "clean" =>
    \A c \in ListedCommits : /\ CommitState(c) # "fsck"
                             /\ CommitState(c) = "no" => \A o \in Closure(c) : Load(o) = "ok"

\* When a command reports corruption at its end, every commit that lacks an object,
\* taken away by it or by an earlier one that was killed, is marked partial, so that
\* a pull fetches what is missing: fsck_one_object, 107-131.
DamageMarked ==
  fsck.res = "corrupt" =>
    \A c \in ListedCommits : CommitState(c) = "no" => \A o \in Closure(c) : Load(o) # "none"

\* A step marks a commit only if the object found missing or damaged is one of that
\* commit's: the table of parents leads to no other commits (parents_get_commits,
\* ostree-repo-traverse.c 297-327).
OnlyDamagedMarkedStep ==
  \A c \in Commits : (partial[c] = "no" /\ partial'[c] = "fsck")
                       => fsck.object \in Closure(c)

\* man/ostree-fsck.xml of --add-tombstones: "Add tombstone commit for referenced but
\* missing commits."  A commit that gets a tombstone was missing before.
TombstoneForMissingStep == \A c \in tomb' \ tomb : Load(c) = "none"

(* A clean report means an intact repository, a report of damage leaves    *)
(* the damaged commits marked, and only those.                             *)
FsckHonestStep ==
  /\ CleanIsIntact'
  /\ DamageMarked'
  /\ OnlyDamagedMarkedStep
=============================================================================
