------------------------------ MODULE PruneCmd ------------------------------
(***************************************************************************)
(* `ostree prune` (ot-builtin-prune.c) and what it keeps: the walk over    *)
(* commits by depth (ostree-repo-traverse.c), the roots of                 *)
(* ostree_repo_prune and of the command's own options, and the removal of  *)
(* objects, payload links, static deltas and cached summaries              *)
(* (ostree-repo-prune.c).                                                  *)
(*                                                                         *)
(* The command holds the exclusive lock, so a step is the walk from one    *)
(* root, in the order of a hash table, and the removal is one step; how    *)
(* the removal interleaves with others and fails is in RepoStore.  A       *)
(* commit has one directory, a directory a set of files.                   *)
(***************************************************************************)
EXTENDS Integers, FiniteSets

CONSTANTS Parent, Stamp,   \* the parent and the timestamp of each commit
          TreeOf, FilesOf, \* the directory of each commit, the files of each directory
          Big,             \* the files above the payload link threshold
          LocalRefs, MirrorRefs, Heads,  \* refs, refs of mirrored collections, where they may point
          Stores, Remotes, \* the repositories that are tried, the remotes configured
          Invocations,     \* the options that are tried
          MaxCalls, None

VARIABLES store,  \* [commits, trees, files, links, partial, tomb, tombstones, deltas, caches]
          heads,  \* ref -> commit
          prune,  \* the command that runs: [pc, opt, todo, reach]
          pcalls

pruneVars == <<store, heads, prune, pcalls>>

Idle == [pc |-> "idle"]
PruneInit == store \in Stores /\ heads \in Heads /\ prune = Idle /\ pcalls = 0

-----------------------------------------------------------------------------
(* The walk.  A result is a set of objects, or Error.                      *)
Error == {"error"}

\* ostree_repo_traverse_commit_with_flags: a commit that was reached, by whatever
\* way, ends the walk; so does one that is not there.
RECURSIVE ostree_repo_traverse_commit_with_flags(_, _, _, _)
\* A depth of 0 does not end the walk.
MutTraverse(reach, c, depth, only) ==
  IF c \in reach \/ c \notin store.commits THEN reach
  ELSE LET t == TreeOf[c]
           seen == reach \cup {c} \cup (IF only \/ t \notin store.trees THEN {} ELSE {t} \cup FilesOf[t])
       IN  IF ~only /\ t \notin store.trees /\ c \notin store.partial THEN Error
           ELSE IF Parent[c] # None
           THEN ostree_repo_traverse_commit_with_flags(seen, Parent[c], IF depth > 0 THEN depth - 1 ELSE depth, only)
           ELSE seen

ostree_repo_traverse_commit_with_flags(reach, c, depth, only) ==
  IF c \in reach \/ c \notin store.commits THEN reach
  ELSE LET t == TreeOf[c]
           seen == reach \cup {c} \cup (IF only \/ t \notin store.trees THEN {} ELSE {t} \cup FilesOf[t])
       IN  IF ~only /\ t \notin store.trees /\ c \notin store.partial THEN Error
           ELSE IF (depth = -1 \/ depth > 0) /\ Parent[c] # None
           THEN ostree_repo_traverse_commit_with_flags(seen, Parent[c], IF depth > 0 THEN depth - 1 ELSE depth, only)
           ELSE seen

\* The loop of traverse_keep_younger_than: stop at the first commit that is older.
RECURSIVE Younger(_, _, _, _)
Younger(reach, c, ts, only) ==
  IF reach = Error \/ c = None \/ c \notin store.commits \/ Stamp[c] < ts THEN reach
  ELSE Younger(ostree_repo_traverse_commit_with_flags(reach, c, 0, only), Parent[c], ts, only)

\* The commit that a ref points to is kept whatever its age.
traverse_keep_younger_than(reach, c, ts, only) ==
  Younger(ostree_repo_traverse_commit_with_flags(reach, c, 0, only), c, ts, only)

-----------------------------------------------------------------------------
(* Removal.                                                                *)

\* A delta is judged by the commit that it starts from.
MutPruneDeltas(s, commit) ==
  [s EXCEPT !.deltas = {d \in @ : IF commit = None THEN d.from = None \/ d.from \in s.commits ELSE d.from # commit}]

\* ostree_repo_prune_static_deltas: those to one commit, or to commits that are gone.
ostree_repo_prune_static_deltas(s, commit) ==
  [s EXCEPT !.deltas = {d \in @ : IF commit = None THEN d.to \in s.commits ELSE d.to # commit}]

\* _ostree_repo_prune_tmp: summaries cached for remotes that are not configured.
_ostree_repo_prune_tmp(s) == [s EXCEPT !.caches = @ \cap Remotes]

\* The tombstone is written only if the commit had none.
MutDeleteObject(s, c) == [s EXCEPT !.commits = @ \ {c}]

\* ostree_repo_delete_object for a commit.
ostree_repo_delete_object(s, c) ==
  [s EXCEPT !.commits = @ \ {c}, !.tomb = IF s.tombstones THEN @ \cup {c} ELSE @]

\* Payload links are kept if what they point to is there.
MutPruneLoose(s, reach, opt) ==
  LET gone == IF opt.no_prune THEN {} ELSE s.commits \ reach
      others == IF opt.no_prune \/ opt.commit_only THEN {} ELSE s.trees \cup s.files
  IN  [s EXCEPT !.commits = @ \ gone, !.partial = @ \ gone,
                !.tomb = IF s.tombstones THEN @ \cup gone ELSE @,
                !.trees = @ \ (others \ reach), !.files = @ \ (others \ reach),
                !.links = IF others = {} THEN @ ELSE @ \cap s.files \cap Big]

\* maybe_prune_loose_object for every object listed: a commit loses its mark first,
\* a payload link goes unless what it points to is kept and large.
maybe_prune_loose_object(s, reach, opt) ==
  LET gone == IF opt.no_prune THEN {} ELSE s.commits \ reach
      others == IF opt.no_prune \/ opt.commit_only THEN {} ELSE s.trees \cup s.files
  IN  [s EXCEPT !.commits = @ \ gone, !.partial = @ \ gone,
                !.tomb = IF s.tombstones THEN @ \cup gone ELSE @,
                !.trees = @ \ (others \ reach), !.files = @ \ (others \ reach),
                !.links = IF opt.no_prune \/ opt.commit_only THEN @ ELSE @ \cap reach \cap Big]

\* repo_prune_internal: deltas and caches go whatever the flags say.
repo_prune_internal(s, reach, opt) ==
  _ostree_repo_prune_tmp(ostree_repo_prune_static_deltas(maybe_prune_loose_object(s, reach, opt), None))

-----------------------------------------------------------------------------
(* The command.                                                            *)
Called == prune.pc = "idle" /\ pcalls < MaxCalls /\ pcalls' = pcalls + 1

\* The refs that are neither to be pruned nor given a depth are kept entirely.
Retained(opt) ==
  [r \in DOMAIN opt.retain \cup (IF opt.only = {} THEN {} ELSE LocalRefs \ opt.only) |->
     IF r \in DOMAIN opt.retain THEN opt.retain[r] ELSE -1]

\* The depth for a ref; a depth of 0 in the table reads as none at all.
DepthOf(opt, r) ==
  LET t == Retained(opt)
  IN  IF r \in DOMAIN t /\ t[r] # 0 THEN t[r] ELSE opt.depth

Plain(opt) == opt.retain = <<>> /\ opt.younger = None /\ opt.only = {}

\* The roots: refs and then the refs of collections, or every commit; with the
\* newer options the refs only.
Roots(s, opt) ==
  IF ~Plain(opt) THEN {[by |-> r, c |-> heads[r], last |-> FALSE] : r \in LocalRefs}
  ELSE IF opt.refs_only THEN {[by |-> r, c |-> heads[r], last |-> r \in MirrorRefs] : r \in LocalRefs \cup MirrorRefs}
  ELSE {[by |-> None, c |-> c, last |-> FALSE] : c \in s.commits}

\* Refs are not looked at.
MutDeleteCommit(s, opt) ==
  IF opt.delete \notin s.commits THEN Idle
  ELSE ostree_repo_delete_object([s EXCEPT !.tombstones = TRUE], opt.delete)

\* delete_commit: refused for a commit that a ref points to, in a collection or not.
\* Tombstones are on from then on.  Idle stands for an error.
delete_commit(s, opt) ==
  IF \E r \in DOMAIN heads : heads[r] = opt.delete THEN Idle
  ELSE IF opt.delete \notin s.commits THEN Idle
  ELSE ostree_repo_delete_object([s EXCEPT !.tombstones = TRUE], opt.delete)

\* What --delete-commit does first.
Deleted(s, opt) ==
  IF opt.delete = None THEN (IF opt.deltas_only THEN Idle ELSE s)
  ELSE IF opt.no_prune THEN Idle
  ELSE IF opt.deltas_only THEN ostree_repo_prune_static_deltas(s, opt.delete)
  ELSE delete_commit(s, opt)

ostree_builtin_prune(opt) ==
  LET s == Deleted(store, opt)
  IN  /\ Called
      /\ IF "pc" \in DOMAIN s
         THEN /\ prune' = Idle
              \* A commit that is not there is noticed once tombstones are on.
              /\ store' = IF /\ opt.delete # None /\ ~opt.deltas_only /\ ~opt.no_prune
                             /\ \A r \in DOMAIN heads : heads[r] # opt.delete
                          THEN [store EXCEPT !.tombstones = TRUE] ELSE store
         ELSE /\ store' = s
              /\ prune' = [pc |-> "walk", opt |-> opt, todo |-> Roots(s, opt), reach |-> {}]
      /\ UNCHANGED heads

\* The walk from one root; an error ends the command.
VisitRoot(x) ==
  LET opt == prune.opt
      reach == IF opt.younger # None /\ (x.by \notin DOMAIN Retained(opt) \/ Retained(opt)[x.by] = 0)
               THEN traverse_keep_younger_than(prune.reach, x.c, opt.younger, opt.commit_only)
               ELSE ostree_repo_traverse_commit_with_flags(prune.reach, x.c, DepthOf(opt, x.by), opt.commit_only)
  IN  /\ prune.pc = "walk" /\ x \in prune.todo /\ (x.last => \A y \in prune.todo : y.last)
      /\ prune' = IF reach = Error THEN Idle ELSE [prune EXCEPT !.todo = @ \ {x}, !.reach = reach]
      /\ UNCHANGED <<store, heads, pcalls>>

Sweep ==
  /\ prune.pc = "walk" /\ prune.todo = {}
  /\ store' = repo_prune_internal(store, prune.reach, prune.opt)
  /\ prune' = Idle
  /\ UNCHANGED <<heads, pcalls>>

PruneNext ==
  \/ \E opt \in Invocations : ostree_builtin_prune(opt)
  \/ prune.pc = "walk" /\ \E x \in prune.todo : VisitRoot(x)
  \/ Sweep

-----------------------------------------------------------------------------
Ancestor(c, n) ==
  LET RECURSIVE Up(_, _)
      Up(x, k) == IF k = 0 \/ x = None THEN x ELSE Up(Parent[x], k - 1)
  IN  Up(c, n)
History(c) == {Ancestor(c, n) : n \in 0..Cardinality(DOMAIN Parent)} \ {None}
Intact(s, c) == c \in s.commits /\ TreeOf[c] \in s.trees /\ FilesOf[TreeOf[c]] \subseteq s.files

\* The commit of a ref stays, with its objects if it had them.  The newer options
\* do not look at mirrored collections (a FIXME at ot-builtin-prune.c:276), so this
\* is about the other refs, and about all of them for the plain command.
HeadsSurviveStep ==
  \A r \in IF prune.pc = "idle" \/ Plain(prune.opt) THEN DOMAIN heads ELSE LocalRefs :
    /\ heads[r] \in store.commits => heads[r] \in store'.commits
    /\ (Intact(store, heads[r]) /\ heads[r] \notin store.partial) => Intact(store', heads[r])

\* Of a prune by refs, what survives is an ancestor of a ref within the depth for it,
\* or one that is younger: the limits of ostree_repo_traverse_commit_with_flags hold.
NothingTooDeepStep ==
  (prune.pc = "walk" /\ prune'.pc = "idle" /\ store' # store /\ ~prune.opt.no_prune /\ (prune.opt.refs_only \/ ~Plain(prune.opt)))
     => \A c \in store'.commits : \E r \in LocalRefs \cup MirrorRefs : \E n \in 0..Cardinality(DOMAIN Parent) :
          /\ c = Ancestor(heads[r], n)
          /\ \/ n = 0 \/ n <= DepthOf(prune.opt, r) \/ DepthOf(prune.opt, r) = -1
             \/ prune.opt.younger # None /\ Stamp[c] >= prune.opt.younger

\* A removal leaves no payload link whose file is gone (maybe_prune_loose_object,
\* 70-105), and no delta to a commit that is gone (ostree_repo_prune_static_deltas).
LinksLive == store.links \subseteq store.files
DeltasLiveStep ==
  (prune.pc = "walk" /\ prune'.pc = "idle" /\ prune.todo = {}) => \A d \in store'.deltas : d.to \in store'.commits

\* Once tombstones are on, a commit that goes leaves one, by whatever way it goes
\* (ostree_repo_delete_object, 4480-4500).
TombstonesLeftStep == store'.tombstones => (store.commits \ store'.commits) \subseteq store'.tomb

\* ot-builtin-prune.c:61 of --only-branch: "Only prune BRANCH".  A ref that is not
\* named, nor given a depth, keeps its history.
OnlyBranchPrunedStep ==
  (prune.pc = "walk" /\ prune.opt.only # {})
     => \A r \in LocalRefs \ (prune.opt.only \cup DOMAIN prune.opt.retain) :
          History(heads[r]) \subseteq store.commits => History(heads[r]) \subseteq store'.commits

\* ot-builtin-prune.c:283-285: "--retain-branch-depth exampleos/x86_64/foo=0", "--depth 5"
\* "to prune exampleos/x86_64/foo to just the latest commit".  A removal leaves of a ref
\* with a depth of 0 no other commit, unless another ref has it.
RetainZeroStep ==
  (prune.pc = "walk" /\ prune.todo = {} /\ ~prune.opt.no_prune)
     => \A r \in DOMAIN prune.opt.retain : prune.opt.retain[r] = 0 =>
          \A c \in History(heads[r]) \ {heads[r]} :
            c \in store'.commits => \E q \in LocalRefs \ {r} : c \in History(heads[q])

(* A prune keeps what refs need, nothing beyond their depth, and nothing   *)
(* that refers to what is gone.                                            *)
PruneExactStep ==
  /\ HeadsSurviveStep
  /\ NothingTooDeepStep
  /\ DeltasLiveStep
  /\ TombstonesLeftStep
  /\ LinksLive'
=============================================================================
