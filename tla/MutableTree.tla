---------------------------- MODULE MutableTree ----------------------------
(***************************************************************************)
(* OstreeMutableTree (ostree-mutable-tree.c): the tree in memory from      *)
(* which a commit is made, with its lazily loaded parts and its cached     *)
(* dirtree checksums, and ostree_repo_write_mtree (ostree-repo-commit.c),  *)
(* which writes it.                                                        *)
(*                                                                         *)
(* A dirtree checksum is modelled by the tree it is the checksum of:       *)
(* [files, dirs], functions from names to file checksums and to pairs of a *)
(* tree and a dirmeta checksum.  A caller may hold on to any node, also to *)
(* one that was removed from its parent.                                   *)
(***************************************************************************)
EXTENDS Integers, Sequences, FiniteSets, Functions, SequencesExt

CONSTANTS Nodes,      \* the objects that can exist at once
          Top,        \* the tree the caller starts with
          Names, FileSums, DirMetas,
          Paths,      \* parent directories that ensure_parent_dirs is asked for
          CommitMeta, \* the dirmeta of a commit's root
          StoredTrees,  \* dirtrees of the repository before the first call
          LostTrees,  \* those of them whose object cannot be loaded
          MaxOps, None

VARIABLES mtree,      \* node -> its fields, or None
          dirtrees,   \* the dirtree objects in the repository
          ops         \* calls made so far

mtreeVars == <<mtree, dirtrees, ops>>

NoNames == [x \in {} |-> None]
EmptyTree == [files |-> NoNames, dirs |-> NoNames]

\* ostree_mutable_tree_new
NewNode == [state |-> "whole", contents |-> None, meta |-> None, files |-> NoNames,
            subdirs |-> NoNames, parent |-> None, error |-> FALSE]
\* ostree_mutable_tree_new_from_checksum
NewLazy(tree, meta) == [NewNode EXCEPT !.state = "lazy", !.contents = tree, !.meta = meta]

Live(h) == {n \in Nodes : h[n] # None}
Free(h) == Nodes \ Live(h)
Put(f, x, y) == [z \in DOMAIN f \cup {x} |-> IF z = x THEN y ELSE f[z]]
Drop(f, x) == Restrict(f, DOMAIN f \ {x})

\* A caller starts from an empty tree, or from a commit
\* (ostree_mutable_tree_new_from_commit).
MutableTreeInit ==
  /\ \E start \in {NewNode} \cup {NewLazy(t, CommitMeta) : t \in StoredTrees} :
       mtree = [n \in Nodes |-> IF n = Top THEN start ELSE None]
  /\ dirtrees = StoredTrees \ LostTrees
  /\ ops = 0

\* insert_child_mtree
Attached(h, n, name, child, node) ==
  [h EXCEPT ![n].subdirs = Put(@, name, child), ![child] = [node EXCEPT !.parent = n]]

\* The first node with a checksum is taken for the only one.
RECURSIVE MutInvalidate(_, _)
MutInvalidate(h, n) ==
  IF n = None THEN h ELSE [h EXCEPT ![n].contents = None]

\* invalidate_contents_checksum: up to the first node that has no checksum.
RECURSIVE invalidate_contents_checksum(_, _)
invalidate_contents_checksum(h, n) ==
  IF n = None \/ (n # None /\ h[n].contents = None) THEN h
  ELSE invalidate_contents_checksum([h EXCEPT ![n].contents = None], h[n].parent)

\* A tree that was read in has changed.
MutLoaded(h, n, kids) ==
  LET t == h[n].contents
      node(d) == [NewLazy(t.dirs[d].tree, t.dirs[d].meta) EXCEPT !.parent = n]
  IN  [x \in Nodes |->
        IF x = n THEN [h[n] EXCEPT !.state = "whole", !.files = t.files, !.subdirs = kids,
                                   !.contents = None]
        ELSE IF x \in Range(kids) THEN node(CHOOSE d \in DOMAIN kids : kids[d] = x)
        ELSE h[x]]

\* The body of _ostree_mutable_tree_make_whole; kids are the new children.
Loaded(h, n, kids) ==
  LET t == h[n].contents
      node(d) == [NewLazy(t.dirs[d].tree, t.dirs[d].meta) EXCEPT !.parent = n]
  IN  [x \in Nodes |->
        IF x = n THEN [h[n] EXCEPT !.state = "whole", !.files = t.files, !.subdirs = kids]
        ELSE IF x \in Range(kids) THEN node(CHOOSE d \in DOMAIN kids : kids[d] = x)
        ELSE h[x]]

\* The children take the lowest free nodes: which ones does not matter.
Fresh(h, ds) ==
  LET free == SetToSortSeq(Free(h), <)
      names == SetToSeq(ds)
  IN  [d \in ds |-> free[CHOOSE i \in 1..Len(names) : names[i] = d]]
Fits(h, n) == Cardinality(DOMAIN h[n].contents.dirs) <= Cardinality(Free(h))

CanLoad(h, n) == h[n].state = "whole" \/ (h[n].contents \in dirtrees /\ Fits(h, n))
CannotLoad(h, n) == h[n].state = "lazy" /\ h[n].contents \notin dirtrees

\* _ostree_mutable_tree_make_whole, when it succeeds.
Whole(h, n) ==
  IF h[n].state = "whole" THEN h ELSE Loaded(h, n, Fresh(h, DOMAIN h[n].contents.dirs))

-----------------------------------------------------------------------------
Step(h) == mtree' = h /\ ops < MaxOps /\ ops' = ops + 1
\* The call returns an error; what was loaded on the way stays loaded.
Fails(h) == Step(h) /\ UNCHANGED dirtrees

ostree_mutable_tree_replace_file(n, name, sum) ==
  \/ CannotLoad(mtree, n) /\ Fails(mtree)
  \/ /\ CanLoad(mtree, n)
     /\ LET h == Whole(mtree, n)
        IN  IF name \in DOMAIN h[n].subdirs THEN Fails(h)
            ELSE /\ Step([invalidate_contents_checksum(h, n)
                            EXCEPT ![n].files = Put(@, name, sum)])
                 /\ UNCHANGED dirtrees

\* Frees the child's pointer to its parent: remove_child_mtree.
Detached(h, n, name) ==
  [h EXCEPT ![n].subdirs = Drop(@, name), ![h[n].subdirs[name]].parent = None]

ostree_mutable_tree_remove(n, name) ==
  \/ CannotLoad(mtree, n) /\ Fails(mtree)
  \/ /\ CanLoad(mtree, n)
     /\ LET h == Whole(mtree, n)
        IN  IF name \in DOMAIN h[n].files
            THEN Step(invalidate_contents_checksum(
                        [h EXCEPT ![n].files = Drop(@, name)], n))
            ELSE IF name \in DOMAIN h[n].subdirs
            THEN Step(invalidate_contents_checksum(Detached(h, n, name), n))
            ELSE Step(h)                      \* noent, allowed or an error
     /\ UNCHANGED dirtrees

ostree_mutable_tree_ensure_dir(n, name) ==
  \/ CannotLoad(mtree, n) /\ Fails(mtree)
  \/ /\ CanLoad(mtree, n)
     /\ LET h == Whole(mtree, n)
        IN  IF name \in DOMAIN h[n].files \cup DOMAIN h[n].subdirs THEN Step(h)
            ELSE /\ Free(h) # {}
                 /\ Step(Attached(invalidate_contents_checksum(h, n), n, name,
                                  Fresh(h, {name})[name], NewNode))
     /\ UNCHANGED dirtrees

\* ostree_mutable_tree_lookup, _walk, _get_files and _get_subdirs change the
\* tree only by loading it; the last two cache an error.
Get(n) ==
  /\ mtree[n].state = "lazy"
  /\ \/ CanLoad(mtree, n) /\ Step(Whole(mtree, n))
     \/ CannotLoad(mtree, n) /\ Step([mtree EXCEPT ![n].error = TRUE])
  /\ UNCHANGED dirtrees

\* The directory's own tree is what changes.
MutSetMeta(h, n, meta) ==
  IF h[n].meta = meta THEN h
  ELSE [invalidate_contents_checksum(h, n) EXCEPT ![n].meta = meta]

\* ostree_mutable_tree_set_metadata_checksum: the dirmeta is recorded in the
\* parent's dirtree.
SetMeta(h, n, meta) ==
  IF h[n].meta = meta THEN h
  ELSE [invalidate_contents_checksum(h, h[n].parent) EXCEPT ![n].meta = meta]

ostree_mutable_tree_set_metadata_checksum(n, meta) ==
  Step(SetMeta(mtree, n, meta)) /\ UNCHANGED dirtrees

\* One iteration of ostree_mutable_tree_ensure_parent_dirs: [h, at, ok].
Descend(s, name, meta) ==
  IF ~s.ok \/ name \in DOMAIN s.h[s.at].files THEN [s EXCEPT !.ok = FALSE]
  ELSE IF name \in DOMAIN s.h[s.at].subdirs
  THEN LET next == s.h[s.at].subdirs[name]
       IN  IF CanLoad(s.h, next) THEN [s EXCEPT !.h = Whole(@, next), !.at = next]
           ELSE [s EXCEPT !.ok = FALSE]
  ELSE IF Free(s.h) = {} THEN [s EXCEPT !.ok = FALSE, !.full = TRUE]
  ELSE LET child == Fresh(s.h, {name})[name]
       IN  [s EXCEPT !.h = Attached(invalidate_contents_checksum(@, s.at), s.at, name, child,
                                    [NewNode EXCEPT !.meta = meta]),
                     !.at = child]

ostree_mutable_tree_ensure_parent_dirs(n, path, meta) ==
  \/ CannotLoad(mtree, n) /\ Fails(mtree)
  \/ /\ CanLoad(mtree, n)
     /\ LET w == Whole(mtree, n)
            h == IF w[n].meta = None THEN SetMeta(w, n, meta) ELSE w
            s == FoldLeft(LAMBDA acc, name : Descend(acc, name, meta),
                          [h |-> h, at |-> n, ok |-> TRUE, full |-> FALSE], path)
        IN  ~s.full /\ Step(s.h)
     /\ UNCHANGED dirtrees

\* Takes over an empty or equal tree without loading anything.
ostree_mutable_tree_fill_empty_from_dirtree(n, tree, meta) ==
  LET node == mtree[n]
      keep == node.state = "lazy" /\ node.contents \notin {tree, EmptyTree}
      h == SetMeta(mtree, n, meta)
      lazy == [h EXCEPT ![n].state = "lazy"]
  IN  /\ \/ keep /\ tree = EmptyTree /\ Step(h)
         \/ keep /\ tree # EmptyTree /\ Step(mtree)            \* returns FALSE
         \/ node.state = "whole" /\ (node.files # NoNames \/ node.subdirs # NoNames) /\ Step(mtree)
         \/ /\ ~keep
            /\ node.state = "whole" => node.files = NoNames /\ node.subdirs = NoNames
            /\ Step(IF node.contents = tree THEN lazy
                    ELSE [invalidate_contents_checksum(lazy, n) EXCEPT ![n].contents = tree])
      /\ UNCHANGED dirtrees

\* The last reference to a detached node goes: ostree_mutable_tree_finalize.
Unref(n) ==
  /\ n # Top /\ mtree[n].parent = None
  /\ Step([x \in Nodes |->
             IF x = n THEN None
             ELSE IF x \in Range(mtree[n].subdirs) THEN [mtree[x] EXCEPT !.parent = None]
             ELSE mtree[x]])
  /\ UNCHANGED dirtrees

-----------------------------------------------------------------------------
(* ostree_repo_write_mtree.  The accumulator is [h, objs, ok]; the hash    *)
(* table of subdirectories is walked in some order of the names.           *)

\* create_tree_variant_from_hashes
Serialized(h, n) ==
  [files |-> h[n].files,
   dirs |-> [d \in DOMAIN h[n].subdirs |->
              [tree |-> h[h[n].subdirs[d]].contents, meta |-> h[h[n].subdirs[d]].meta]]]

\* A directory is stored by its parent alone.
RECURSIVE MutWrite(_, _, _)
MutWrite(acc, n, order) ==
  IF ~acc.ok \/ acc.h[n].error \/ acc.h[n].meta = None THEN [acc EXCEPT !.ok = FALSE]
  ELSE IF acc.h[n].contents # None THEN acc
  ELSE LET kids == SelectSeq(order, LAMBDA d : d \in DOMAIN acc.h[n].subdirs)
           done == FoldLeft(LAMBDA a, d : MutWrite(a, a.h[n].subdirs[d], order), acc, kids)
           tree == Serialized(done.h, n)
       IN  IF ~done.ok THEN done
           ELSE [done EXCEPT !.objs = IF n = Top THEN @ \cup {tree} ELSE @,
                             !.h[n].contents = tree]

RECURSIVE WriteNode(_, _, _)
WriteNode(acc, n, order) ==
  IF ~acc.ok \/ acc.h[n].error \/ acc.h[n].meta = None THEN [acc EXCEPT !.ok = FALSE]
  ELSE IF acc.h[n].contents # None THEN acc
  ELSE LET kids == SelectSeq(order, LAMBDA d : d \in DOMAIN acc.h[n].subdirs)
           done == FoldLeft(LAMBDA a, d : WriteNode(a, a.h[n].subdirs[d], order), acc, kids)
           tree == Serialized(done.h, n)
       IN  IF ~done.ok THEN done
           ELSE [done EXCEPT !.objs = @ \cup {tree}, !.h[n].contents = tree]

ostree_repo_write_mtree(n) ==
  \E order \in SetToSeqs(Names) :
    LET out == WriteNode([h |-> mtree, objs |-> dirtrees, ok |-> TRUE], n, order)
    IN  Step(out.h) /\ dirtrees' = out.objs

MutableTreeNext ==
  \E n \in Live(mtree) :
    \/ \E name \in Names :
         \/ \E sum \in FileSums : ostree_mutable_tree_replace_file(n, name, sum)
         \/ ostree_mutable_tree_remove(n, name)
         \/ ostree_mutable_tree_ensure_dir(n, name)
    \/ Get(n)
    \/ Unref(n)
    \/ \E meta \in DirMetas :
         \/ ostree_mutable_tree_set_metadata_checksum(n, meta)
         \/ \E path \in Paths :
              ostree_mutable_tree_ensure_parent_dirs(n, path, meta)
         \/ \E tree \in StoredTrees : ostree_mutable_tree_fill_empty_from_dirtree(n, tree, meta)
    \/ ostree_repo_write_mtree(n)

-----------------------------------------------------------------------------
\* The tree a node stands for.
RECURSIVE Denoted(_, _)
Denoted(h, n) ==
  IF h[n].state = "lazy" THEN h[n].contents
  ELSE [files |-> h[n].files,
        dirs |-> [d \in DOMAIN h[n].subdirs |->
                   [tree |-> Denoted(h, h[n].subdirs[d]), meta |-> h[h[n].subdirs[d]].meta]]]

\* A cached dirtree checksum is the checksum of what the directory holds now,
\* in all its subdirectories: ostree_repo_write_mtree reuses it without a look.
DigestCurrent ==
  \A n \in Live(mtree) : mtree[n].contents # None => mtree[n].contents = Denoted(mtree, n)

\* "If a contents_checksum is NULL then all the parent's checksums will be
\* NULL": where invalidate_contents_checksum may stop.
ParentsInvalidated ==
  \A n \in Live(mtree) :
    mtree[n].contents = None /\ mtree[n].parent # None => mtree[mtree[n].parent].contents = None

RECURSIVE Subtrees(_)
Subtrees(t) == {t} \cup UNION {Subtrees(t.dirs[d].tree) : d \in DOMAIN t.dirs}

\* A checksum that a commit may record names a dirtree that is in the
\* repository with all the dirtrees below it.
ContentsInRepo ==
  \A n \in Live(mtree) :
    mtree[n].contents # None => Subtrees(mtree[n].contents) \subseteq dirtrees \cup LostTrees

(* A cached checksum is that of what the tree holds now, and names a tree  *)
(* that the repository has; a change anywhere below invalidates it.        *)
ChecksumsCurrent ==
  /\ DigestCurrent
  /\ ParentsInvalidated
  /\ ContentsInRepo
=============================================================================
