----------------------------- MODULE DeltaStore -----------------------------
(***************************************************************************)
(* The static deltas on disk (deltas/ and delta-indexes/ of a repository): *)
(* publishing, deleting, listing, indexing, verifying and reading them.    *)
(* ostree-repo-static-delta-core.c, the end of                             *)
(* ostree_repo_static_delta_generate, and `ostree static-delta`.           *)
(*                                                                         *)
(* None of it takes an exclusive lock.  A generation of a delta is a       *)
(* number: that of every part and superblock that it writes.  A checksum   *)
(* of a file is the generation that wrote it.                              *)
(***************************************************************************)
EXTENDS Integers, FiniteSets, Sequences

CONSTANTS Procs,          \* processes
          Deltas,         \* names of deltas
          ToCommit,       \* delta -> the commit it leads to
          OldIndexes,     \* commits that may have an index at the start
          Styles,         \* how deltas are generated: [n, inline, sign]
          MaxOps, MaxGen  \* bounds on operations and on generations

VARIABLES dirs,   \* delta -> its directory: [ino, parts, sup]; ino 0 when there is none
          index,  \* commit -> its index: delta -> generation of the superblock
          indexed,\* core/indexed-deltas
          dproc,  \* process -> what it does
          dclock, \* [ops, gen, ino]: what was handed out
          dpast   \* history: [overlap, gone, deleted, changed, failed, read]

storeVars == <<dirs, index, indexed, dproc, dclock, dpast>>

NoSup == [gen |-> 0]
Superblock == -1
NoDir == [ino |-> 0, parts |-> <<>>, sup |-> NoSup]
Free == [pc |-> "free"]
NoFun == [x \in {} |-> 0]

StoreInit ==
  /\ dirs = [d \in Deltas |-> NoDir]
  /\ \E old \in {{}, OldIndexes} : index = [c \in old |-> NoFun] /\ indexed = (old # {})
  /\ dproc = [p \in Procs |-> Free]
  /\ dclock = [ops |-> 0, gen |-> 0, ino |-> 0]
  /\ dpast = [overlap |-> {}, gone |-> {}, deleted |-> FALSE, changed |-> {}, failed |-> {}, read |-> {}]

At(p, pc) == dproc[p].pc = pc
Begin(p, st) == /\ At(p, "free") /\ dclock.ops < MaxOps
                /\ dproc' = [dproc EXCEPT ![p] = st]
Move(p, st) == dproc' = [dproc EXCEPT ![p] = st]
EndOp(p) == Move(p, Free)

Indexing == {q \in Procs : At(q, "index")}

\* The files of a directory: the numbers of parts, and Superblock.
Entries(d) == DOMAIN dirs[d].parts \cup (IF dirs[d].sup.gen # 0 THEN {Superblock} ELSE {})

\* _ostree_repo_static_delta_query_exists, list_static_delta_names: a delta is there
\* when its superblock is.
_ostree_repo_static_delta_query_exists(d) == dirs[d].sup.gen # 0

\* A directory without a superblock is listed as well.
MutList == {d \in Deltas : dirs[d].ino # 0}

ostree_repo_list_static_delta_names == {d \in Deltas : _ostree_repo_static_delta_query_exists(d)}

ostree_repo_list_static_delta_indexes == DOMAIN index

-----------------------------------------------------------------------------
(* Generating: ot_static_delta_builtin_generate, and the end of            *)
(* ostree_repo_static_delta_generate.                                      *)

Busy(d) == \E p \in Procs : dproc[p].pc \in {"parts", "rm"} /\ dproc[p].d = d

\* The directory is made and opened; with --if-not-exists only if there is no delta.
ot_static_delta_builtin_generate(p, d, style, ifnot) ==
  /\ dclock.gen < MaxGen
  /\ ifnot => ~_ostree_repo_static_delta_query_exists(d)
  /\ LET fresh == dirs[d].ino = 0
         ino == IF fresh THEN dclock.ino + 1 ELSE dirs[d].ino
     IN /\ Begin(p, [pc |-> "parts", d |-> d, gen |-> dclock.gen + 1, next |-> 0, ino |-> ino,
                     n |-> style.n, inline |-> style.inline, sign |-> style.sign])
        /\ dirs' = IF fresh THEN [dirs EXCEPT ![d] = [NoDir EXCEPT !.ino = ino]] ELSE dirs
        /\ dclock' = [ops |-> dclock.ops + 1, gen |-> dclock.gen + 1, ino |-> IF fresh THEN ino ELSE dclock.ino]
  /\ dpast' = [dpast EXCEPT !.overlap = IF Busy(d) \/ dirs[d].sup.gen # 0 THEN @ \cup {d} ELSE @]
  /\ UNCHANGED <<index, indexed>>

\* A file cannot be linked into a directory that was removed.
InDir(p) == dirs[dproc[p].d].ino = dproc[p].ino

LinkPart(p) ==
  /\ At(p, "parts") /\ ~dproc[p].inline /\ dproc[p].next < dproc[p].n
  /\ LET g == dproc[p] IN
     IF InDir(p)
     THEN /\ dirs' = [dirs EXCEPT ![g.d].parts = [i \in DOMAIN @ \cup {g.next} |-> IF i = g.next THEN g.gen ELSE @[i]]]
          /\ Move(p, [g EXCEPT !.next = @ + 1]) /\ UNCHANGED dpast
     ELSE EndOp(p) /\ dpast' = [dpast EXCEPT !.failed = @ \cup {"generate"}] /\ UNCHANGED dirs
  /\ UNCHANGED <<index, indexed, dclock>>

\* The superblock before the parts.
MutLinkSuperblock(p) ==
  /\ At(p, "parts") /\ dirs[dproc[p].d].sup.gen # dproc[p].gen
  /\ LET g == dproc[p] IN
     /\ InDir(p)
     /\ dirs' = [dirs EXCEPT ![g.d].sup = [gen |-> g.gen, n |-> g.n, inline |-> g.inline, sign |-> g.sign]]
     /\ IF g.inline \/ g.next = g.n THEN EndOp(p) ELSE UNCHANGED dproc
  /\ UNCHANGED <<index, indexed, dclock, dpast>>

\* The superblock is linked when all the parts are; it holds their checksums, and the
\* parts themselves when they are inline.
LinkSuperblock(p) ==
  /\ At(p, "parts") /\ (dproc[p].inline \/ dproc[p].next = dproc[p].n)
  /\ LET g == dproc[p] IN
     IF InDir(p)
     THEN /\ dirs' = [dirs EXCEPT ![g.d].sup = [gen |-> g.gen, n |-> g.n, inline |-> g.inline, sign |-> g.sign]]
          /\ dpast' = [dpast EXCEPT !.changed = @ \cup Indexing]
     ELSE dpast' = [dpast EXCEPT !.failed = @ \cup {"generate"}] /\ UNCHANGED dirs
  /\ EndOp(p)
  /\ UNCHANGED <<index, indexed, dclock>>

-----------------------------------------------------------------------------
(* Deleting: _ostree_repo_static_delta_delete.                             *)

_ostree_repo_static_delta_delete(p, d) ==
  /\ dirs[d].ino # 0
  /\ Begin(p, [pc |-> "rm", d |-> d, ino |-> dirs[d].ino])
  /\ dclock' = [dclock EXCEPT !.ops = @ + 1]
  /\ dpast' = [dpast EXCEPT !.gone = @ \cup {d}, !.deleted = TRUE]
  /\ UNCHANGED <<dirs, index, indexed>>

\* glnx_shutil_rm_rf_at: the entries go in the order of the directory.
RemoveEntry(p, e) ==
  /\ At(p, "rm") /\ InDir(p) /\ e \in Entries(dproc[p].d)
  /\ LET d == dproc[p].d IN
     /\ dirs' = IF e = Superblock THEN [dirs EXCEPT ![d].sup = NoSup]
                ELSE [dirs EXCEPT ![d].parts = [i \in DOMAIN @ \ {e} |-> @[i]]]
     /\ dpast' = [dpast EXCEPT !.changed = @ \cup Indexing]
  /\ UNCHANGED <<index, indexed, dproc, dclock>>

RemoveDir(p) ==
  /\ At(p, "rm") /\ (InDir(p) => Entries(dproc[p].d) = {})
  /\ LET d == dproc[p].d IN
     IF InDir(p) THEN /\ dirs' = [dirs EXCEPT ![d] = NoDir]
                      /\ dpast' = [dpast EXCEPT !.gone = @ \ {d}, !.overlap = @ \ {d}]
     ELSE UNCHANGED <<dirs, dpast>>
  /\ EndOp(p)
  /\ UNCHANGED <<index, indexed, dclock>>

-----------------------------------------------------------------------------
(* Indexing: ostree_repo_static_delta_reindex.                             *)

\* For the history: two that index at once may each undo what the other did.
BothIndexing(p) == IF Indexing = {} THEN {} ELSE Indexing \cup {p}

\* The option is set once an index was written.
MutReindex(p, c) ==
  /\ Begin(p, [pc |-> "index", c |-> c, todo |-> {}, froms |-> NoFun, listed |-> FALSE])
  /\ dclock' = [dclock EXCEPT !.ops = @ + 1]
  /\ dpast' = [dpast EXCEPT !.changed = (@ \ {p}) \cup BothIndexing(p)]
  /\ UNCHANGED <<dirs, index, indexed>>

\* core/indexed-deltas is set in the configuration first.  c is the set of the one
\* commit to index, empty for all.
ostree_repo_static_delta_reindex(p, c) ==
  /\ Begin(p, [pc |-> "index", c |-> c, todo |-> {}, froms |-> NoFun, listed |-> FALSE])
  /\ indexed' = TRUE
  /\ dclock' = [dclock EXCEPT !.ops = @ + 1]
  /\ dpast' = [dpast EXCEPT !.changed = (@ \ {p}) \cup BothIndexing(p)]
  /\ UNCHANGED <<dirs, index>>

\* Only the commits that a delta leads to are looked at.
MutIndexCommits(p) ==
  LET st == dproc[p]
      names == {d \in ostree_repo_list_static_delta_names : st.c = {} \/ ToCommit[d] \in st.c}
  IN /\ At(p, "index") /\ ~st.listed
     /\ Move(p, [st EXCEPT !.listed = TRUE, !.todo = {ToCommit[d] : d \in names},
                           !.froms = [x \in {ToCommit[d] : d \in names} |-> {d \in names : ToCommit[d] = x}]])
     /\ UNCHANGED <<dirs, index, indexed, dclock, dpast>>

\* The commits to index: those with an index, or the one asked for, and those that a
\* delta leads to.
IndexCommits(p) ==
  LET st == dproc[p]
      names == {d \in ostree_repo_list_static_delta_names : st.c = {} \/ ToCommit[d] \in st.c}
      tos == {ToCommit[d] : d \in names} \cup (IF st.c = {} THEN ostree_repo_list_static_delta_indexes ELSE st.c)
  IN /\ At(p, "index") /\ ~st.listed
     /\ Move(p, [st EXCEPT !.listed = TRUE, !.todo = tos, !.froms = [x \in tos |-> {d \in names : ToCommit[d] = x}]])
     /\ UNCHANGED <<dirs, index, indexed, dclock, dpast>>

\* _ostree_repo_static_delta_superblock_digest: fails when the superblock has gone.
DigestFails(ds) == \E d \in ds : dirs[d].sup.gen = 0

\* One commit: its index is removed when no delta leads to it, and otherwise replaced
\* unless its content is the same already (file_has_content).
IndexOne(p, c) ==
  /\ At(p, "index") /\ dproc[p].listed /\ c \in dproc[p].todo
  /\ LET ds == dproc[p].froms[c] IN
     IF ds # {} /\ DigestFails(ds)
     THEN EndOp(p) /\ dpast' = [dpast EXCEPT !.failed = @ \cup {"index"}] /\ UNCHANGED index
     ELSE /\ index' = IF ds = {} THEN [x \in DOMAIN index \ {c} |-> index[x]]
                      ELSE [x \in DOMAIN index \cup {c} |-> IF x = c THEN [d \in ds |-> dirs[d].sup.gen] ELSE index[x]]
          /\ Move(p, [dproc[p] EXCEPT !.todo = @ \ {c}]) /\ UNCHANGED dpast
  /\ UNCHANGED <<dirs, indexed, dclock>>

EndIndex(p) ==
  /\ At(p, "index") /\ dproc[p].listed /\ dproc[p].todo = {}
  /\ EndOp(p)
  /\ UNCHANGED <<dirs, index, indexed, dclock, dpast>>

-----------------------------------------------------------------------------
(* Reading a delta: offline execution, `show`, `verify`.                   *)

\* _ostree_repo_static_delta_is_signed; a superblock is signed by a set of keys.
_ostree_repo_static_delta_is_signed(sup) == sup.sign # {}
_ostree_repo_static_delta_verify_signature(sup, keys) == sup.sign \cap keys # {}

\* Whether a superblock is gone on with.  keys is <<>> when there is no engine.
Accepts(sup, keys, mandatory) ==
  _ostree_repo_static_delta_is_signed(sup) =>
    /\ mandatory => keys # <<>>
    /\ keys # <<>> => _ostree_repo_static_delta_verify_signature(sup, keys[1])

\* The superblock is read and checked.
OpenSuperblock(p, d, keys, mandatory) ==
  /\ dirs[d].sup.gen # 0 /\ Accepts(dirs[d].sup, keys, mandatory)
  /\ Begin(p, [pc |-> "read", d |-> d, ino |-> dirs[d].ino, sup |-> dirs[d].sup, next |-> 0, got |-> {}, check |-> TRUE])
  /\ dclock' = [dclock EXCEPT !.ops = @ + 1]
  /\ UNCHANGED <<dirs, index, indexed, dpast>>

\* `show` goes on with any superblock.
_ostree_repo_static_delta_dump(p, d) ==
  /\ dirs[d].sup.gen # 0
  /\ Begin(p, [pc |-> "read", d |-> d, ino |-> dirs[d].ino, sup |-> dirs[d].sup, next |-> 0, got |-> {}, check |-> FALSE])
  /\ dclock' = [dclock EXCEPT !.ops = @ + 1]
  /\ UNCHANGED <<dirs, index, indexed, dpast>>

\* A part is taken for what its name says.
MutReadPart(p) ==
  /\ At(p, "read") /\ dproc[p].next < dproc[p].sup.n
  /\ LET r == dproc[p] IN
     IF r.sup.inline /\ r.check THEN Move(p, [r EXCEPT !.next = @ + 1, !.got = @ \cup {r.sup.gen}])
     ELSE IF InDir(p) /\ r.next \in DOMAIN dirs[r.d].parts
     THEN Move(p, [r EXCEPT !.next = @ + 1, !.got = @ \cup {dirs[r.d].parts[r.next]}])
     ELSE EndOp(p)
  /\ UNCHANGED <<dirs, index, indexed, dclock, dpast>>

\* A part file is checked against the checksum in the superblock, an inline part is not
\* (_ostree_static_delta_part_open).  `show` checks nothing, and looks for a file even
\* where the part is inline.
ReadPart(p) ==
  /\ At(p, "read") /\ dproc[p].next < dproc[p].sup.n
  /\ LET r == dproc[p] IN
     IF r.sup.inline /\ r.check THEN Move(p, [r EXCEPT !.next = @ + 1, !.got = @ \cup {r.sup.gen}])
     ELSE IF InDir(p) /\ r.next \in DOMAIN dirs[r.d].parts /\ (r.check => dirs[r.d].parts[r.next] = r.sup.gen)
     THEN Move(p, [r EXCEPT !.next = @ + 1, !.got = @ \cup {dirs[r.d].parts[r.next]}])
     ELSE EndOp(p)
  /\ UNCHANGED <<dirs, index, indexed, dclock, dpast>>

EndRead(p) ==
  /\ At(p, "read") /\ dproc[p].next = dproc[p].sup.n
  /\ LET r == dproc[p] IN
     dpast' = [dpast EXCEPT !.read = @ \cup {[sup |-> r.sup, got |-> r.got, check |-> r.check]}]
  /\ EndOp(p)
  /\ UNCHANGED <<dirs, index, indexed, dclock>>

\* A process dies where it is.
Crash(p) ==
  /\ ~At(p, "free")
  /\ EndOp(p)
  /\ UNCHANGED <<dirs, index, indexed, dclock, dpast>>

StoreNext ==
  \E p \in Procs :
    \/ \E d \in Deltas, style \in Styles, ifnot \in BOOLEAN : ot_static_delta_builtin_generate(p, d, style, ifnot)
    \/ LinkPart(p) \/ LinkSuperblock(p)
    \/ \E d \in Deltas : _ostree_repo_static_delta_delete(p, d)
    \/ (At(p, "rm") /\ \E e \in Entries(dproc[p].d) : RemoveEntry(p, e))
    \/ RemoveDir(p)
    \/ \E c \in {{}} \cup {{ToCommit[d]} : d \in Deltas} : ostree_repo_static_delta_reindex(p, c)
    \/ IndexCommits(p)
    \/ (At(p, "index") /\ \E c \in dproc[p].todo : IndexOne(p, c))
    \/ EndIndex(p)
    \/ \E d \in Deltas, k \in {<<>>, <<{"k1"}>>, <<{"k2"}>>}, mn \in BOOLEAN : OpenSuperblock(p, d, k, mn)
    \/ \E d \in Deltas : _ostree_repo_static_delta_dump(p, d)
    \/ ReadPart(p) \/ EndRead(p)
    \/ Crash(p)

StoreSpec == StoreInit /\ [][StoreNext]_storeVars

-----------------------------------------------------------------------------
(* A delta that has a superblock has the parts that it names: also while a *)
(* process generates it for the first time, or died doing so.              *)
PublishedComplete ==
  \A d \in Deltas \ (dpast.overlap \cup dpast.gone) :
    LET sup == dirs[d].sup IN
    sup.gen # 0 /\ ~sup.inline => \A i \in 0..(sup.n - 1) : i \in DOMAIN dirs[d].parts /\ dirs[d].parts[i] = sup.gen

(* What an execution of a delta that got to the end has read is one        *)
(* generation of it, whoever generated or deleted it meanwhile.            *)
ReadOneGeneration == \A r \in dpast.read : r.check => r.got \subseteq {r.sup.gen}

(* Where there are indexes, core/indexed-deltas says so.                   *)
IndexAdvertised == DOMAIN index # {} => indexed

(* Indexing fails only where a delta is deleted: one that is half          *)
(* generated does not get in its way.                                      *)
IndexFailsOnDelete == "index" \in dpast.failed => dpast.deleted

(* Indexing that nothing interferes with leaves, for the commits it is     *)
(* about, the indexes of exactly the deltas there are.                     *)
IndexCurrentStep ==
  \A p \in Procs :
    (/\ At(p, "index") /\ dproc'[p].pc = "free" /\ p \notin dpast.changed
     /\ dproc[p].listed /\ dproc[p].todo = {})
      => \A c \in (IF dproc[p].c = {} THEN DOMAIN index \cup {ToCommit[d] : d \in Deltas} ELSE dproc[p].c) :
           LET ds == {d \in ostree_repo_list_static_delta_names : ToCommit[d] = c} IN
           IF ds = {} THEN c \notin DOMAIN index
           ELSE c \in DOMAIN index /\ index[c] = [d \in ds |-> dirs[d].sup.gen]

(* Whatever generators, deleters and indexers are at, a reader finds       *)
(* complete deltas, executes one generation and is told of the indexes.    *)
DeltasReadable ==
  /\ PublishedComplete
  /\ ReadOneGeneration
  /\ IndexAdvertised
  /\ IndexFailsOnDelete

(* And indexing leaves the indexes of exactly the deltas there are.        *)
DeltasConsistentStep ==
  /\ IndexCurrentStep
  /\ DeltasReadable'
=============================================================================
