--------------------------- MODULE ArchiveImport ---------------------------
(***************************************************************************)
(* Trees and archives (ostree-repo-libarchive.c): a tree is exported as an *)
(* archive whose repeated contents are hard links, and an archive is       *)
(* imported into a mutable tree.  Hard links are put off to the end of an  *)
(* import, because any of the names may come with the contents, and are    *)
(* then worked off target by target in the order of a hash table.          *)
(***************************************************************************)
EXTENDS Integers, Sequences, SequencesExt, FiniteSets

CONSTANTS None,
          ImportJobs,     \* what there is to do: options, and an archive or a tree
          Sized           \* the contents that have a size; the others are an empty file, symlinks

VARIABLES ijob,           \* the job
          archive,        \* the entries written or to be read
          mtree,          \* the tree imported so far: a function of paths
          deferred,       \* deferred_hardlinks: target |-> links put off
          toexport,       \* the paths that the export has yet to enter
          istatus         \* export, import, links, done or failed

archiveVars == <<ijob, archive, mtree, deferred, toexport, istatus>>

Dir(m) == [dir |-> TRUE, v |-> m]
File(c) == [dir |-> FALSE, v |-> c]
Entry(p, type, v, link) == [path |-> p, type |-> type, v |-> v, link |-> link]

Parents(p) == {SubSeq(p, 1, i) : i \in 0 .. Len(p) - 1}
IsDir(t, p) == p \in DOMAIN t /\ t[p].dir
IsFile(t, p) == p \in DOMAIN t /\ ~t[p].dir

\* t with node n at all of ps.
Put(t, ps, n) == [p \in DOMAIN t \cup ps |-> IF p \in ps THEN n ELSE t[p]]

ArchiveInit ==
  /\ ijob \in ImportJobs
  /\ archive = ijob.archive
  /\ mtree = [p \in {<<>>} |-> Dir(None)]
  /\ deferred = <<>>
  /\ toexport = IF ijob.tree = None THEN <<>> ELSE <<<<>>>>
  /\ istatus = IF ijob.tree = None THEN "import" ELSE "export"

-----------------------------------------------------------------------------
(* Export.                                                                 *)

Children(t, p) == {q \in DOMAIN t : q # <<>> /\ Front(q) = p}

\* write_directory_to_libarchive_recurse: the directory, its children after it,
\* each one of them entered before the next.
ExportDirectory ==
  /\ istatus = "export" /\ toexport # <<>> /\ ijob.tree[Head(toexport)].dir
  /\ LET p == Head(toexport)
     IN /\ archive' = Append(archive, Entry(p, "dir", ijob.tree[p].v, None))
        /\ \E order \in SetToSeqs(Children(ijob.tree, p)) : toexport' = order \o Tail(toexport)
  /\ UNCHANGED <<ijob, mtree, deferred, istatus>>

\* Files are told apart by their size.
MutSeen(c) ==
  {i \in DOMAIN archive : /\ archive[i].type = "file" /\ archive[i].link = None
                          /\ (archive[i].v \in Sized) = (c \in Sized)}

\* seen_checksums: where contents were written the first time.
seen_checksums(c) == {i \in DOMAIN archive : archive[i].type = "file" /\ archive[i].link = None /\ archive[i].v = c}

\* The hard link is named before the name it belongs to has been seen.
MutExportFile ==
  /\ istatus = "export" /\ toexport # <<>> /\ ~ijob.tree[Head(toexport)].dir
  /\ LET p == Head(toexport)
         c == ijob.tree[p].v
         old == {q \in DOMAIN ijob.tree : q # p /\ ~ijob.tree[q].dir /\ ijob.tree[q].v = c}
     IN archive' = Append(archive,
          IF old = {} \/ c = "symlink" THEN Entry(p, IF c = "symlink" THEN c ELSE "file", c, None)
          ELSE Entry(p, "file", "empty", CHOOSE q \in old : TRUE))
  /\ toexport' = Tail(toexport)
  /\ UNCHANGED <<ijob, mtree, deferred, istatus>>

\* A symlink or a file; contents seen before become a hard link without a size.
ExportFile ==
  /\ istatus = "export" /\ toexport # <<>> /\ ~ijob.tree[Head(toexport)].dir
  /\ LET p == Head(toexport)
         c == ijob.tree[p].v
         old == seen_checksums(c)
     IN archive' = Append(archive,
          IF c = "symlink" THEN Entry(p, "symlink", c, None)
          ELSE IF old = {} THEN Entry(p, "file", c, None)
          ELSE Entry(p, "file", "empty", archive[CHOOSE i \in old : TRUE].path))
  /\ toexport' = Tail(toexport)
  /\ UNCHANGED <<ijob, mtree, deferred, istatus>>

\* ostree_repo_export_tree_to_archive is done; the archive gets imported elsewhere.
EndExport ==
  /\ istatus = "export" /\ toexport = <<>>
  /\ istatus' = "import"
  /\ UNCHANGED <<ijob, archive, mtree, deferred, toexport>>

-----------------------------------------------------------------------------
(* Import.                                                                 *)

\* aic_get_final_path: by the convention of ostree /etc is /usr/etc.
aic_get_final_path(p) ==
  IF ijob.convention /\ p # <<>> /\ p[1] = "etc" THEN <<"usr">> \o p ELSE p

\* The tree in which p's parent is there, or None.  aic_create_parent_dirs sets
\* the metadata of each directory on the way, root included, and not only of
\* those it creates.
aic_get_parent_dir(t, p) ==
  IF \A q \in Parents(p) : IsDir(t, q) THEN t
  ELSE IF ijob.autocreate /\ \A q \in Parents(p) : ~IsFile(t, q) THEN Put(t, Parents(p), Dir("default"))
  ELSE None

Fail == istatus' = "failed" /\ UNCHANGED <<ijob, archive, mtree, deferred, toexport>>

\* The tree becomes t, or the import fails.
Becomes(t, ok) ==
  IF ok THEN mtree' = t /\ archive' = Tail(archive) /\ UNCHANGED <<ijob, deferred, toexport, istatus>>
  ELSE Fail

\* aic_apply_modifier_filter
SkipEntry ==
  /\ istatus = "import" /\ archive # <<>> /\ aic_get_final_path(Head(archive).path) \in ijob.skip
  /\ Becomes(mtree, TRUE)

\* Head of the archive, of one of these types, and not filtered out.
Reading(types) ==
  /\ istatus = "import" /\ archive # <<>>
  /\ Head(archive).type \in types /\ aic_get_final_path(Head(archive).path) \notin ijob.skip

\* aic_handle_dir
aic_handle_dir ==
  /\ Reading({"dir"})
  /\ LET e == Head(archive)
         p == aic_get_final_path(e.path)
         t == aic_get_parent_dir(mtree, p)
     IN Becomes(Put(t, {p}, Dir(e.v)), t # None /\ ~IsFile(t, p))

\* aic_handle_file: what has a size is imported, a hard link or not; hard links
\* are put off.
aic_handle_file ==
  /\ Reading({"file", "symlink"})
  /\ LET e == Head(archive)
         p == aic_get_final_path(e.path)
         t == aic_get_parent_dir(mtree, p)
         link == IF e.link = None THEN None ELSE aic_get_final_path(e.link)
         import == link = None \/ e.v \in Sized
         dh == [path |-> p, sized |-> e.v \in Sized]
     IN IF t = None \/ (import /\ IsDir(t, p)) THEN Fail
        ELSE /\ mtree' = IF import THEN Put(t, {p}, File(e.v)) ELSE t
             /\ deferred' = IF link = None THEN deferred
                            ELSE Put(deferred, {link}, IF link \in DOMAIN deferred
                                                       THEN Append(deferred[link], dh) ELSE <<dh>>)
             /\ archive' = Tail(archive)
             /\ UNCHANGED <<ijob, toexport, istatus>>

\* Devices, sockets and fifos.
HandleUnsupported ==
  /\ Reading({"other"})
  /\ LET t == aic_get_parent_dir(mtree, aic_get_final_path(Head(archive).path))
     IN Becomes(t, t # None /\ ijob.ignore)

\* archive_read_next_header or the cancellable
ReadFails == istatus = "import" /\ archive # <<>> /\ Fail

EndEntries ==
  /\ istatus = "import" /\ archive = <<>>
  /\ istatus' = "links"
  /\ UNCHANGED <<ijob, archive, mtree, deferred, toexport>>

\* The target keeps what it was imported with.
MutHardlinksFor(target) ==
  /\ istatus = "links" /\ target \in DOMAIN deferred
  /\ IF ~IsFile(mtree, target) THEN Fail
     ELSE /\ mtree' = Put(mtree, {deferred[target][i].path : i \in DOMAIN deferred[target]}, mtree[target])
          /\ deferred' = [q \in DOMAIN deferred \ {target} |-> deferred[q]]
          /\ UNCHANGED <<ijob, archive, toexport, istatus>>

\* aic_import_deferred_hardlinks_for: the first link with contents gives them to
\* the target, then the target to all the other links.
aic_import_deferred_hardlinks_for(target) ==
  /\ istatus = "links" /\ target \in DOMAIN deferred
  /\ LET links == deferred[target]
         sized == {i \in DOMAIN links : links[i].sized}
         first == links[CHOOSE i \in sized : \A j \in sized : i <= j].path
         rewritten == IF sized = {} THEN mtree ELSE Put(mtree, {target}, mtree[first])
         parents == \A q \in Parents(target) : IsDir(mtree, q)
     IN IF ~parents \/ IsDir(mtree, target) \/ ~IsFile(rewritten, target)
           \/ \E i \in DOMAIN links : IsDir(mtree, links[i].path)
        THEN Fail
        ELSE /\ mtree' = Put(rewritten, {links[i].path : i \in DOMAIN links}, rewritten[target])
             /\ deferred' = [q \in DOMAIN deferred \ {target} |-> deferred[q]]
             /\ UNCHANGED <<ijob, archive, toexport, istatus>>

\* ostree_repo_import_archive_to_mtree: an archive of nothing gets a root.
EndImport ==
  /\ istatus = "links" /\ DOMAIN deferred = {}
  /\ mtree' = IF ijob.autocreate /\ mtree[<<>>].v = None THEN Put(mtree, {<<>>}, Dir("default")) ELSE mtree
  /\ istatus' = "done"
  /\ UNCHANGED <<ijob, archive, deferred, toexport>>

ArchiveNext ==
  \/ ExportDirectory \/ ExportFile \/ EndExport
  \/ SkipEntry \/ aic_handle_dir \/ aic_handle_file \/ HandleUnsupported \/ ReadFails \/ EndEntries
  \/ \E t \in DOMAIN deferred : aic_import_deferred_hardlinks_for(t)
  \/ EndImport

-----------------------------------------------------------------------------
(* What extracting the archive onto a file system gives, for archives that *)
(* name each path once and link only to names that are not links.          *)

Kept == {i \in DOMAIN ijob.archive : aic_get_final_path(ijob.archive[i].path) \notin ijob.skip}
Entries == {ijob.archive[i] : i \in Kept}
FileEntries == {e \in Entries : e.type \in {"file", "symlink"}}
Inode(e) == IF e.link = None THEN e.path ELSE e.link
Names(n) == {e \in FileEntries : Inode(e) = n}
Holder(n) == IF \E e \in Names(n) : e.v \in Sized THEN CHOOSE e \in Names(n) : e.v \in Sized
             ELSE CHOOSE e \in Names(n) : e.link = None

(* When an import has succeeded the tree has exactly the files of the      *)
(* archive, and all names of a hard-linked file have its contents,         *)
(* whichever of them came with it and in whatever order they were listed   *)
(* and worked off.                                                         *)
ExtractedFaithfully ==
  istatus = "done" /\ ijob.tree = None =>
    /\ {p \in DOMAIN mtree : ~mtree[p].dir} = {aic_get_final_path(e.path) : e \in FileEntries}
    /\ \A e \in FileEntries : mtree[aic_get_final_path(e.path)].v = Holder(Inode(e)).v
    /\ \A p \in DOMAIN mtree : \A q \in Parents(p) : IsDir(mtree, q)

(* Importing what was exported gives the tree again, with the metadata of  *)
(* its directories.                                                        *)
RoundTripsArchive ==
  ijob.tree # None /\ ~ijob.convention => (istatus = "done" => mtree = ijob.tree)

(* Exported archives can be imported: nothing but a failing read stops it  *)
(* (hard links name an entry before them, directories come first).         *)
LinksPrecede ==
  ijob.tree # None /\ istatus = "export" =>
    \A i \in DOMAIN archive :
      /\ archive[i].link # None => \E j \in 1 .. i - 1 : archive[j].path = archive[i].link /\ archive[j].link = None
      /\ \A q \in Parents(archive[i].path) : \E j \in 1 .. i - 1 : archive[j].path = q

(* A directory that the archive describes has the metadata it says.  The   *)
(* comment on mtree_ensure_dir_with_meta has it that the metadata is set   *)
(* "if the dir has to be created".                                         *)
DirMetaKept ==
  istatus = "done" /\ ijob.tree = None =>
    \A e \in Entries : e.type = "dir" => mtree[aic_get_final_path(e.path)].v = e.v

(* An import has the files that extracting the archive would give, an      *)
(* export can be extracted in one pass, and the one undoes the other.      *)
ArchivesFaithful ==
  /\ ExtractedFaithfully
  /\ LinksPrecede
  /\ RoundTripsArchive
=============================================================================
