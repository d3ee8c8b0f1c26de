-------------------------------- MODULE Refs --------------------------------
(***************************************************************************)
(* The ref store of a repository (ostree-repo-refs.c), the pending refs of *)
(* a transaction, and `ostree refs` (ot-builtin-refs.c).                   *)
(*                                                                         *)
(* Refs are files below refs/heads, refs/remotes/<remote> and              *)
(* refs/mirrors/<collection>: a space is a directory tree, here a function *)
(* from paths (sequences of names) to nodes.  An alias is a symbolic link  *)
(* in refs/heads.  A read of a file yields a revision or the errno that    *)
(* stands in its way.  core/parent may name another repository, which is   *)
(* only read.  core/auto-update-summary is unset, the default; the summary *)
(* is the business of module Summary.                                      *)
(***************************************************************************)
EXTENDS Integers, Sequences, FiniteSets, SequencesExt

CONSTANTS SpacePaths,  \* the ref names of each space: "heads", remotes and mirrors,
                       \* and <<>> for the directory of a remote
          Remotes,     \* the spaces that are remotes
          RemoteCollection, \* the collection-id configured for each remote, or None
          Mirrors,     \* the spaces that are mirrored collections, named by collection
          MainCollection,   \* the collection-id of the repository, or None
          ParentRepo,  \* the parent repository, [refs, collection, remotes], or None
          Revs, Parent,     \* commits, and the parent of each, or None
          Pendable,    \* the <<space, path, table>> that a transaction sets
          MaxCalls,    \* bound on the calls made
          None

VARIABLES refs,   \* space -> path -> node
          txn,    \* None, or [pending: <<space, path, table>> -> rev or "del", todo, st]
          calls   \* calls made so far

refsVars == <<refs, txn, calls>>

Spaces == DOMAIN SpacePaths
Absent == [k |-> "none", v |-> None, to |-> None]
Dir == [k |-> "dir", v |-> None, to |-> None]
File(rev) == [k |-> "rev", v |-> rev, to |-> None]
Link(to) == [k |-> "link", v |-> None, to |-> to]
Errnos == {"ENOENT", "ENOTDIR", "EISDIR", "ELOOP"}

RefsInit ==
  /\ refs = [s \in Spaces |-> [p \in SpacePaths[s] |-> Absent]]
  /\ txn = None /\ calls = 0

Under(s, p) == {q \in SpacePaths[s] : p # q /\ IsPrefix(p, q)}
Above(s, p) == SpacePaths[s] \cap {SubSeq(p, 1, n) : n \in 0..Len(p) - 1}

\* Opening and reading a path: links lead to names of refs/heads.  A target that is
\* a refspec with a remote (a record, not a path) is no file there.
RECURSIVE ReadAt(_, _, _, _)
ReadAt(t, s, p, hops) ==
  IF p \notin SpacePaths[s] THEN "ENOENT"
  ELSE IF \E q \in Above(s, p) : t[q].k \in {"rev", "link"} THEN "ENOTDIR"
  ELSE CASE t[p].k = "none" -> "ENOENT"
         [] t[p].k = "dir" -> "EISDIR"
         [] t[p].k = "rev" -> t[p].v
         [] t[p].k = "link" -> IF t[p].to.space # "heads" THEN "ENOENT"
                               ELSE IF hops = 0 THEN "ELOOP" ELSE ReadAt(t, s, t[p].to.path, hops - 1)

\* This repository, in the form of the parent's.
Self == [refs |-> refs, collection |-> MainCollection, remotes |-> RemoteCollection]
Read(repo, s, p) == ReadAt(repo.refs[s], s, p, Cardinality(SpacePaths[s]))

-----------------------------------------------------------------------------
(* Listing.  One unreadable file fails the whole listing.                  *)

\* enumerate_refs_recurse over the paths ps, with add_ref_to_set for each.
enumerate_refs_recurse(repo, s, ps) ==
  LET files == {p \in ps : repo.refs[s][p].k \in {"rev", "link"}}
  IN  [ok |-> \A p \in files : Read(repo, s, p) \notin Errnos,
       e |-> {[path |-> p, rev |-> Read(repo, s, p)] : p \in files}]

\* enumerate_refs_recurse when only aliases are asked for: where they point.
Aliases == {[path |-> p, to |-> refs["heads"][p].to] :
              p \in {q \in SpacePaths["heads"] : refs["heads"][q].k = "link"}}

\* The listings of several spaces together.
Joined(lists) ==
  [ok |-> \A s \in DOMAIN lists : lists[s].ok,
   e |-> UNION {{[space |-> s, path |-> e.path, rev |-> e.rev] : e \in lists[s].e} : s \in DOMAIN lists}]

\* _ostree_repo_list_refs_internal with a prefix: the directory below it, or the
\* one ref of that name; with cut_prefix the keys lose the prefix.
Listed(s, prefix, cut) ==
  LET found == CASE Read(Self, s, prefix) = "EISDIR" -> enumerate_refs_recurse(Self, s, Under(s, prefix))
                 [] Read(Self, s, prefix) \in Errnos \ {"EISDIR"} -> [ok |-> Read(Self, s, prefix) = "ENOENT", e |-> {}]
                 [] OTHER -> [ok |-> TRUE, e |-> {[path |-> prefix, rev |-> Read(Self, s, prefix)]}]
      Key(p) == IF cut /\ p # prefix THEN SubSeq(p, Len(prefix) + 1, Len(p)) ELSE p
  IN  [found EXCEPT !.e = {[path |-> Key(x.path), rev |-> x.rev] : x \in @}]

\* _ostree_repo_list_refs_internal without a prefix: local refs and remotes.
_ostree_repo_list_refs_internal(repo) ==
  Joined([s \in {"heads"} \cup Remotes |-> enumerate_refs_recurse(repo, s, SpacePaths[s])])

\* The collection whose refs a space holds; None leaves the space out.
CollectionOf(repo, s) == IF s = "heads" THEN repo.collection ELSE IF s \in Remotes THEN repo.remotes[s] ELSE s

\* The mirrors are listed whatever the flags say.
MutListCollection(repo, match, mirrors, remotes) ==
  LET dirs == {"heads"} \cup Mirrors \cup (IF remotes THEN Remotes ELSE {})
  IN  Joined([s \in {x \in dirs : CollectionOf(repo, x) # None /\ match \in {None, CollectionOf(repo, x)}} |->
                enumerate_refs_recurse(repo, s, SpacePaths[s])])

\* ostree_repo_list_collection_refs, limited to one collection unless it is None.
ostree_repo_list_collection_refs(repo, match, mirrors, remotes) ==
  LET dirs == {"heads"} \cup (IF mirrors THEN Mirrors ELSE {}) \cup (IF remotes THEN Remotes ELSE {})
  IN  Joined([s \in {x \in dirs : CollectionOf(repo, x) # None /\ match \in {None, CollectionOf(repo, x)}} |->
                enumerate_refs_recurse(repo, s, SpacePaths[s])])

-----------------------------------------------------------------------------
(* Resolving.  The results are a revision, None or "error".                *)

\* ot_openat_ignore_enoent, then glnx_fd_readall_utf8.
OrError(r) == IF r \in Errnos \ {"ENOENT"} THEN "error" ELSE IF r = "ENOENT" THEN None ELSE r

\* find_ref_in_remotes: the first remote, in the order of the directory, that has it.
find_ref_in_remotes(repo, p) ==
  LET r == [s \in Remotes |-> OrError(Read(repo, s, p))]
      hits == {r[s] : s \in Remotes} \ {None}
  IN  IF hits = {} THEN {None} ELSE hits

\* A pending ref hides the file; a pending deletion does not.  Refs set by name and
\* collection refs are pending in tables of their own.
Pending(table, s, p) ==
  LET k == <<s, p, table>>
  IN  IF txn = None \/ k \notin DOMAIN txn.pending \/ txn.pending[k] = "del" THEN None ELSE txn.pending[k]

\* The files that resolve_refspec opens, in this order: refs/heads/<ref>, then
\* refs/remotes/<ref>, where the name begins with that of a remote, then the ref of
\* that name in any remote.
Opened(repo, s, p, fallback) ==
  LET here == OrError(Read(repo, s, p))
      named == IF Head(p) \in Remotes THEN OrError(Read(repo, Head(p), Tail(p))) ELSE None
  IN  IF here # None \/ s # "heads" \/ ~fallback THEN {here}
      ELSE IF named # None THEN {named} ELSE find_ref_in_remotes(repo, p)

\* The remotes are searched also when only local refs are asked for.
MutOpened(repo, s, p, fallback) ==
  LET here == OrError(Read(repo, s, p))
  IN  IF here # None \/ s # "heads" THEN {here} ELSE find_ref_in_remotes(repo, p)

\* resolve_refspec_fallback: what is not found here is looked for in the parent
\* repository.
resolve_refspec_fallback(s, p, fallback) ==
  IF ParentRepo = None THEN {None} ELSE Opened(ParentRepo, s, p, fallback)

\* The parent repository comes first.
MutResolve(s, p, fallback) ==
  LET above == resolve_refspec_fallback(s, p, fallback)
  IN  IF above = {None} THEN Opened(Self, s, p, fallback) ELSE above

\* resolve_refspec: the outcomes possible.
resolve_refspec(s, p, fallback) ==
  LET here == Opened(Self, s, p, fallback)
  IN  IF Pending("refs", s, p) # None THEN {Pending("refs", s, p)}
      ELSE IF here = {None} THEN resolve_refspec_fallback(s, p, fallback) ELSE here

\* _ostree_repo_resolve_rev_internal for a name and for a name with "^", the
\* parent of what ostree_repo_resolve_rev finds for the name.
_ostree_repo_resolve_rev_internal(s, p, caret, fallback) ==
  IF caret THEN {IF r \in Revs /\ Parent[r] # None THEN Parent[r] ELSE "error" : r \in resolve_refspec(s, p, TRUE)}
  ELSE resolve_refspec(s, p, fallback)

\* What the listing of a repository has for a collection ref: in its hash table a ref
\* of a mirror replaces a local one, and a ref of a remote both.
OnDisk(repo, c, p, localonly) ==
  LET all == ostree_repo_list_collection_refs(repo, c, ~localonly, ~localonly)
      hits == {x \in all.e : x.path = p}
      last == IF \E x \in hits : x.space \in Remotes THEN Remotes
              ELSE IF \E x \in hits : x.space \in Mirrors THEN Mirrors ELSE {"heads"}
  IN  IF ~all.ok THEN {"error"} ELSE {e.rev : e \in {x \in hits : x.space \in last}}

\* ostree_repo_resolve_collection_ref: pending, then listed here, then in the parent
\* repository.
ostree_repo_resolve_collection_ref(c, p, localonly) ==
  LET s == IF c = MainCollection THEN "heads" ELSE c
      pending == Pending("coll", s, p)
      here == OnDisk(Self, c, p, localonly)
      above == IF ParentRepo = None THEN {} ELSE OnDisk(ParentRepo, c, p, localonly)
  IN  IF pending # None /\ (~localonly \/ MainCollection \in {None, c}) THEN {pending}
      ELSE IF here # {} THEN here
      ELSE IF above # {} THEN above ELSE {None}

-----------------------------------------------------------------------------
(* Writing.  Each operator yields the tree afterwards, or Failed.          *)
Failed == <<>>

\* glnx_shutil_mkdir_p_at for the directories that a path lies in.
WithParents(t, s, p) == [q \in SpacePaths[s] |-> IF q \in Above(s, p) THEN Dir ELSE t[q]]
Blocked(t, s, p) == \E q \in Above(s, p) : t[q].k \in {"rev", "link"}

\* What is listed in the way does not matter.
MutWriteChecksum(s, p, rev) ==
  LET t == WithParents(refs[s], s, p)
  IN  IF Blocked(refs[s], s, p) THEN Failed
      ELSE [[q \in SpacePaths[s] |-> IF q \in Under(s, p) THEN Absent ELSE t[q]] EXCEPT ![p] = File(rev)]

\* write_checksum_file_at: a directory of that name makes way unless refs are
\* listed below it.  The listing is that of the local refs, keys without the
\* prefix, and a key that equals the name is not taken for a conflict.
write_checksum_file_at(s, p, rev) ==
  LET t == WithParents(refs[s], s, p)
      below == Listed("heads", p, TRUE)
  IN  IF Blocked(refs[s], s, p) THEN Failed
      ELSE IF t[p].k # "dir" THEN [t EXCEPT ![p] = File(rev)]
      ELSE IF ~below.ok \/ \E e \in below.e : e.path # p THEN Failed
      ELSE [[q \in SpacePaths[s] |-> IF q \in Under(s, p) THEN Absent ELSE t[q]] EXCEPT ![p] = File(rev)]

\* _ostree_repo_write_ref with neither revision nor alias: unlink.
Unlinked(s, p) ==
  IF Blocked(refs[s], s, p) \/ refs[s][p].k = "dir" THEN Failed ELSE [refs[s] EXCEPT ![p] = Absent]

\* _ostree_repo_write_ref with an alias: a symbolic link renamed into place.
Aliased(p, to) ==
  IF Blocked(refs["heads"], "heads", p) \/ refs["heads"][p].k = "dir" THEN Failed
  ELSE [WithParents(refs["heads"], "heads", p) EXCEPT ![p] = Link(to)]

\* _ostree_repo_write_ref, rev "del" for NULL.
_ostree_repo_write_ref(s, p, rev) == IF rev = "del" THEN Unlinked(s, p) ELSE write_checksum_file_at(s, p, rev)

Store(s, tree) == refs' = IF tree = Failed THEN refs ELSE [refs EXCEPT ![s] = tree]

-----------------------------------------------------------------------------
(* The library's callers.                                                  *)
Called == calls < MaxCalls /\ calls' = calls + 1

\* ostree_repo_set_ref_immediate, ostree_repo_set_collection_ref_immediate: a ref is
\* set.  Deleting is left to `ostree refs`, which looks for aliases.
ostree_repo_set_ref_immediate(s, p, rev) ==
  /\ Called /\ txn = None
  /\ Store(s, _ostree_repo_write_ref(s, p, rev))
  /\ UNCHANGED txn

InTxn(st) == txn # None /\ txn.st = st

ostree_repo_prepare_transaction ==
  /\ calls < MaxCalls /\ txn = None
  /\ txn' = [pending |-> <<>>, todo |-> {}, st |-> "open"]
  /\ UNCHANGED <<refs, calls>>

\* ostree_repo_transaction_set_ref and its variants.
ostree_repo_transaction_set_ref(k, rev) ==
  /\ Called /\ InTxn("open")
  /\ txn' = [txn EXCEPT !.pending = [x \in DOMAIN @ \cup {k} |-> IF x = k THEN rev ELSE @[x]]]
  /\ UNCHANGED refs

\* ostree_repo_commit_transaction, as far as refs go.
BeginCommit ==
  /\ InTxn("open")
  /\ txn' = [txn EXCEPT !.st = "committing", !.todo = DOMAIN txn.pending]
  /\ UNCHANGED <<refs, calls>>

\* _ostree_repo_update_refs and _ostree_repo_update_collection_refs: one pending ref
\* after the other in the order of a hash table, until one of them fails.
_ostree_repo_update_refs(k) ==
  LET w == _ostree_repo_write_ref(k[1], k[2], txn.pending[k])
  IN  /\ InTxn("committing") /\ k \in txn.todo
      /\ k[3] = "coll" => \A x \in txn.todo : x[3] = "coll"
      /\ Store(k[1], w)
      /\ txn' = IF w = Failed THEN [txn EXCEPT !.st = "failed"] ELSE [txn EXCEPT !.todo = @ \ {k}]
      /\ UNCHANGED calls

\* The end of ostree_repo_commit_transaction, ostree_repo_abort_transaction, or the
\* death of the process in the middle.
EndTxn ==
  /\ txn # None
  /\ txn' = None
  /\ UNCHANGED <<refs, calls>>

-----------------------------------------------------------------------------
(* `ostree refs`, one command at a time.                                   *)

Refspec(s, p) == [space |-> s, path |-> p]

\* resolve_refspec failed with G_IO_ERROR_IS_DIRECTORY, which is left to the write.
IsDirectory(s, p) ==
  \/ Read(Self, s, p) = "EISDIR"
  \/ Read(Self, s, p) = "ENOENT" /\ ParentRepo # None /\ Read(ParentRepo, s, p) = "EISDIR"

\* do_ref with --create, not --alias.  Of the outcomes of a lookup in several
\* remotes each is possible.
CreateRef(s, p, force, from) ==
  /\ Called /\ txn = None
  /\ \E old \in resolve_refspec(s, p, FALSE), new \in resolve_refspec("heads", from, TRUE) :
       LET refused == \/ ~_ostree_repo_list_refs_internal(Self).ok
                      \/ old = "error" /\ ~IsDirectory(s, p)
                      \/ ~force /\ old \notin {None, "error"}
                      \/ new \notin Revs
       IN  IF refused THEN refs' = refs ELSE Store(s, write_checksum_file_at(s, p, new))
  /\ UNCHANGED txn

\* do_ref with --create and --alias.  The target is any refspec of the listing,
\* and only the name of the alias is examined for a remote.
CreateAlias(p, force, to) ==
  LET all == _ostree_repo_list_refs_internal(Self)
      old == CHOOSE r \in resolve_refspec("heads", p, FALSE) : TRUE
      replacing == \E a \in Aliases : a.path = p
      refused == \/ ~all.ok
                 \/ old = "error" /\ ~IsDirectory("heads", p)
                 \/ ~replacing /\ ~force /\ old \notin {None, "error"}
                 \/ ~\E e \in all.e : e.space = to.space /\ e.path = to.path
  IN  /\ Called /\ txn = None
      /\ IF refused THEN refs' = refs ELSE Store("heads", Aliased(p, to))
      /\ UNCHANGED txn

\* The refs of gone disappear from a space.
Without(s, gone) == [refs EXCEPT ![s] = [q \in SpacePaths[s] |-> IF q \in gone THEN Absent ELSE @[q]]]

\* No alias is looked for.
MutDeleteRefs(s, prefix) ==
  LET listed == Listed(s, prefix, FALSE)
  IN  /\ Called /\ txn = None
      /\ refs' = IF ~listed.ok THEN refs ELSE Without(s, {e.path : e \in listed.e})
      /\ UNCHANGED txn

\* do_ref with --delete.  The first ref that an alias points to ends the command;
\* those before it in the hash table are gone.
DeleteRefs(s, prefix) ==
  LET listed == Listed(s, prefix, FALSE)
      paths == {e.path : e \in listed.e}
      held == {p \in paths : \E a \in Aliases : a.to.path = p /\ a.to.space = "heads"}
  IN  /\ Called /\ txn = None
      /\ \/ ~listed.ok /\ refs' = refs
         \/ /\ listed.ok
            /\ \E gone \in SUBSET (paths \ held) :
                 (held = {} => gone = paths) /\ refs' = Without(s, gone)
      /\ UNCHANGED txn

\* do_ref_with_collections with --create.  Whether the ref exists is asked of a
\* remote with the name of the collection.
CreateCollectionRef(c, p, force, from) ==
  LET s == IF c = MainCollection THEN "heads" ELSE c
      exists == c \in Remotes /\ resolve_refspec(c, p, FALSE) \cap Revs # {}
  IN  /\ Called /\ txn = None
      /\ \E new \in resolve_refspec("heads", from, TRUE) :
           IF (exists /\ ~force) \/ new \notin Revs \/ ~ostree_repo_list_collection_refs(Self, None, TRUE, TRUE).ok
           THEN refs' = refs ELSE Store(s, write_checksum_file_at(s, p, new))
      /\ UNCHANGED txn

\* do_ref_with_collections with --delete: every ref of the collection, where the
\* library writes the refs of that collection.
DeleteCollectionRefs(c) ==
  LET listed == ostree_repo_list_collection_refs(Self, c, TRUE, TRUE)
      s == IF c = MainCollection THEN "heads" ELSE c
  IN  /\ Called /\ txn = None
      /\ refs' = IF ~listed.ok THEN refs ELSE Without(s, {e.path : e \in listed.e})
      /\ UNCHANGED txn

RefsNext ==
  \/ \E s \in Spaces : \E p \in SpacePaths[s] \ {<<>>} :
       \/ \E rev \in Revs : ostree_repo_set_ref_immediate(s, p, rev)
       \/ DeleteRefs(s, p)
       \/ \E force \in BOOLEAN, from \in SpacePaths["heads"] : s \notin Mirrors /\ CreateRef(s, p, force, from)
  \/ \E p \in SpacePaths["heads"], force \in BOOLEAN, s \in Spaces \ Mirrors :
       \E q \in SpacePaths[s] \ {<<>>} : CreateAlias(p, force, Refspec(s, q))
  \/ \E c \in Mirrors \cup ({MainCollection} \ {None}) : DeleteCollectionRefs(c)
  \/ \E c \in Mirrors : \E p \in SpacePaths[c], from \in SpacePaths["heads"] : CreateCollectionRef(c, p, FALSE, from)
  \/ ostree_repo_prepare_transaction \/ BeginCommit \/ EndTxn
  \/ \E k \in Pendable : \/ _ostree_repo_update_refs(k)
                         \/ \E rev \in Revs \cup {"del"} : ostree_repo_transaction_set_ref(k, rev)

-----------------------------------------------------------------------------
Existing(t, s) == {p \in SpacePaths[s] : t[s][p].k \in {"rev", "link"}}

(* A local ref is lost only when a command or a transaction names it:      *)
(* writing one ref leaves every other in place, also when its name is a    *)
(* directory that holds refs.  (A ref x/x below the name x that is written *)
(* is the exception: see RefsKept.)                                        *)
HeadsKeptStep ==
  \A p \in SpacePaths["heads"] :
    (\E rev \in Revs : refs'["heads"][p] = File(rev)) /\ refs["heads"][p].k = "dir"
      => \A q \in Existing(refs, "heads") : ~IsPrefix(p, q) \/ q = p \o p

(* The conflict is looked for among the local refs whatever is written, so *)
(* a ref of a remote or a mirror below the name that is written is lost    *)
(* only where no local ref lies below that name (FIXME at                  *)
(* ostree-repo-refs.c:107; nothing is lost according to RefsKept).         *)
OthersKeptStep ==
  \A s \in Spaces \ {"heads"} : \A p \in SpacePaths[s] :
    (\E rev \in Revs : refs'[s][p] = File(rev)) /\ (\E q \in Existing(refs, s) : q \in Under(s, p))
      => \A q \in Existing(refs, "heads") : q = p \/ ~IsPrefix(p, q) \/ q = p \o p

(* No ref is lost in any space, whatever its name.                         *)
RefsKeptStep ==
  \A s \in Spaces, p \in UNION {SpacePaths[x] : x \in Spaces} :
    p \in SpacePaths[s] /\ (\E rev \in Revs : refs'[s][p] = File(rev)) /\ refs[s][p].k = "dir"
      => \A q \in Existing(refs, s) : ~IsPrefix(p, q)

(* A ref is not deleted while an alias points to it: the target of an      *)
(* alias that stays is still there after any command, unless it lay below  *)
(* a name that was written.  (Transactions delete without looking.)        *)
AliasesHeldStep ==
  txn = None =>
    \A a \in Aliases :
      LET q == a.to.path
      IN  a.to.space = "heads" /\ q \in Existing(refs, "heads") /\ refs'["heads"][a.path] = refs["heads"][a.path]
            => q \in Existing(refs', "heads") \/ \E x \in Above("heads", q) : refs'["heads"][x].k = "rev"

(* The revisions listed for a local name, and those of the remotes that    *)
(* the name may stand for.                                                 *)
LocalRevs(listed, p) == {e.rev : e \in {x \in listed : x.space = "heads" /\ x.path = p}}
RemoteRevs(listed, p) ==
  {e.rev : e \in {x \in listed : x.space # "heads" /\ p \in {x.path, <<x.space>> \o x.path}}}

(* Resolving a local name agrees with the listings: what is listed here    *)
(* resolves to its revision, whatever the parent repository and the        *)
(* remotes have; a name that this repository does not know resolves to     *)
(* what the parent lists; and remotes answer only where neither a file nor *)
(* a directory of this repository has the name.                            *)
ParentListed == IF ParentRepo = None THEN {} ELSE _ostree_repo_list_refs_internal(ParentRepo).e
ResolvesAsListed ==
  LET all == _ostree_repo_list_refs_internal(Self)
  IN  txn = None /\ all.ok =>
        \A p \in SpacePaths["heads"] :
          LET here == LocalRevs(all.e, p)
              above == LocalRevs(ParentListed, p)
              remote == RemoteRevs(all.e, p)
              found == resolve_refspec("heads", p, TRUE) \cap Revs
              local == resolve_refspec("heads", p, FALSE) \cap Revs
          IN  /\ here # {} => found = here /\ local = here
              /\ Read(Self, "heads", p) = "ENOENT" => local = above
              /\ here = {} => found \subseteq IF remote # {} THEN remote
                                              ELSE IF above # {} THEN above ELSE RemoteRevs(ParentListed, p)

(* A name that is no local ref does not resolve when only local refs are   *)
(* asked for (ostree_repo_resolve_rev_ext), nor does its parent.           *)
LocalOnlyResolves ==
  txn = None =>
    \A p \in SpacePaths["heads"], caret \in BOOLEAN :
      Read(Self, "heads", p) = "ENOENT" /\ ParentRepo = None => _ostree_repo_resolve_rev_internal("heads", p, caret, FALSE) \cap Revs = {}

(* A collection ref asked for among the local ones only is a local ref of  *)
(* a repository with that collection-id, this one or its parent, on disk   *)
(* and in the transaction; and one that is listed here is never taken from *)
(* the parent.                                                             *)
LocalCollectionRefs ==
  \A c \in Mirrors : \A p \in SpacePaths[c] \ {<<>>} :
    /\ MainCollection # None =>
         ostree_repo_resolve_collection_ref(c, p, TRUE) \cap Revs \subseteq
           IF ParentRepo # None /\ ParentRepo.collection = c THEN LocalRevs(ParentListed, p) ELSE {}
    /\ txn = None /\ Read(Self, c, p) \in Revs =>
         ostree_repo_resolve_collection_ref(c, p, FALSE) \subseteq
           {"error"} \cup {Read(Self, s, p) : s \in {x \in Spaces : CollectionOf(Self, x) = c}}

(* Writing and deleting refs destroys no ref that another name or an alias *)
(* depends on, and resolving agrees with listing ever after.               *)
RefsConsistentStep ==
  /\ HeadsKeptStep
  /\ OthersKeptStep
  /\ AliasesHeldStep
  /\ UNCHANGED <<refs, txn>> \/ (ResolvesAsListed /\ LocalCollectionRefs)'
=============================================================================
