----------------------------- MODULE TreeCommit -----------------------------
(***************************************************************************)
(* ostree_repo_write_dfd_to_mtree and ostree_repo_write_directory_to_mtree *)
(* (ostree-repo-commit.c): a directory is walked, filtered, stored as      *)
(* objects and recorded in a mutable tree, and perhaps consumed on the     *)
(* way.  For a file there are four ways into the tree: a hit in the cache  *)
(* of (device, inode) pairs of objects with DEVINO_CANONICAL, a hit with   *)
(* unchanged metadata, the adoption of the file itself as the object, and  *)
(* an ordinary write of a content object.                                  *)
(*                                                                         *)
(* An object's checksum is modelled by what it is a checksum of: [data,    *)
(* perms, xattrs].  A file on disk is an inode with the same fields; an    *)
(* object is a name for an inode, or a private copy.                       *)
(***************************************************************************)
EXTENDS Integers, Sequences, FiniteSets, SequencesExt

CONSTANTS Entries,    \* the source's entries: [parent, kind, ino]; "/" is the source itself
          DiskInodes, \* their inodes: [data, perms, xattrs]
          Hardlinked, \* those that are hard links to objects (a checkout)
          UserMeta,   \* the metadata that a bare-user object has in an xattr
          Skipped,    \* entries that the filter skips
          Changed,    \* entries whose permissions the filter changes
          Labels,     \* entries for which the SELinux policy has a label
          Configs,    \* see ConfigOK
          None

VARIABLES conf,       \* the configuration of the call
          source,     \* entries that are still there
          inodes,     \* the files' inodes
          objs,       \* checksum -> inode, or "private"
          recorded,   \* entry -> checksum, in the mutable tree
          stack,      \* directories being read: [dir, todo]
          path,       \* the array that the path for callbacks is made of
          asked,      \* the last call of the filter: [entry, path]
          walk        \* "enter" or "read" a directory, "done" or "failed"

treeVars == <<conf, source, inodes, objs, recorded, stack, path, asked, walk>>

\* mode: of the repository; flags: of the modifier, if there is one; via: a
\* directory file descriptor or a GFile; cached: the devino cache is filled;
\* odd: there is a file that is neither regular nor a symbolic link.
ConfigOK(c) ==
  /\ c.mode \in {"bare", "bare-user", "bare-user-only", "archive"}
  /\ c.flags \subseteq {"modifier", "filter", "consume", "canonical", "devino-canonical",
                        "skip-xattrs", "sepolicy", "error-on-unlabeled"}
  /\ c.via \in {"dfd", "gfile"} /\ c.cached \in BOOLEAN /\ c.odd \in BOOLEAN

Has(f) == f \in conf.flags
Children(d) == {e \in DOMAIN Entries : e # "/" /\ Entries[e].parent = d}
PathOf(e) == IF e = "/" THEN <<>> ELSE IF Entries[e].parent = "/" THEN <<e>>
             ELSE <<Entries[e].parent, e>>
Inode(e) == inodes[Entries[e].ino]
\* What a checkout's inode says of the object it belongs to.
LooseSum(c, i) == IF c.mode = "bare-user" THEN UserMeta[i]
                  ELSE IF c.mode = "bare-user-only" THEN [DiskInodes[i] EXCEPT !.xattrs = {}]
                  ELSE DiskInodes[i]

TreeCommitInit ==
  /\ conf \in {c \in Configs : ConfigOK(c)}
  /\ source = {e \in DOMAIN Entries : Entries[e].kind = "fifo" => conf.odd}
  /\ inodes = DiskInodes
  /\ objs = [s \in {LooseSum(conf, i) : i \in Hardlinked} |->
               CHOOSE i \in Hardlinked : LooseSum(conf, i) = s]
  /\ recorded = [e \in DOMAIN Entries |-> None]
  /\ stack = <<"/">> /\ path = <<>> /\ asked = None /\ walk = "enter"

-----------------------------------------------------------------------------
\* delete_after_commit
Consumes == conf.via = "dfd" /\ Has("modifier") /\ Has("consume")
Canonical == conf.mode = "bare-user-only" \/ (Has("modifier") /\ Has("canonical"))

\* _ostree_repo_commit_modifier_apply, for the permissions: the filter first,
\* then the special bits and the owner go if they must.
Canon(p) == IF p = "suid" THEN "plain" ELSE p
_ostree_repo_commit_modifier_apply(e, p) ==
  LET filtered == IF Has("filter") /\ e \in Changed THEN "changed" ELSE p
  IN  IF Canonical THEN Canon(filtered) ELSE filtered
Allowed(e) == ~(Has("filter") /\ e \in Skipped)

\* get_final_xattrs; modified is FALSE only if they were read and kept.
SkipXattrs == (Has("modifier") /\ (Has("skip-xattrs") \/ Has("canonical")))
              \/ conf.mode = "bare-user-only"
get_final_xattrs(e, orig) ==
  LET read == IF SkipXattrs THEN {} ELSE orig
      labelled == IF Has("sepolicy") /\ e \in Labels
                  THEN {x \in read : x # "selinux"} \cup {"label"} ELSE read
  IN  [xattrs |-> labelled, modified |-> SkipXattrs \/ labelled # read]
Unlabelled(e) == Has("sepolicy") /\ Has("error-on-unlabeled") /\ e \notin Labels

\* devino_cache_lookup, in the map that scan_one_loose_devino or a checkout
\* filled.
devino_cache_lookup(e) ==
  IF conf.via = "dfd" /\ conf.cached /\ Entries[e].ino \in Hardlinked
  THEN LooseSum(conf, Entries[e].ino) ELSE None

\* Of the file as it is, or as the object says in a bare-user repository.
SourceInfo(e) ==
  LET hit == devino_cache_lookup(e)
  IN  IF hit # None /\ conf.mode = "bare-user" THEN hit ELSE Inode(e)

Fail == walk' = "failed" /\ UNCHANGED <<conf, source, inodes, objs, recorded, stack, path, asked>>

-----------------------------------------------------------------------------
(* A directory: write_dfd_iter_to_mtree_internal and                       *)
(* write_directory_to_mtree_internal up to their loops.                    *)

Here == Last(stack)

EnterDir ==
  /\ walk = "enter"
  /\ asked' = IF Has("modifier") THEN [entry |-> Here, path |-> path] ELSE asked
  /\ IF Has("modifier") /\ ~Allowed(Here)
     THEN /\ walk' = "done" /\ UNCHANGED recorded      \* the top directory only
     ELSE IF Unlabelled(Here) THEN walk' = "failed" /\ UNCHANGED recorded
     ELSE /\ LET x == get_final_xattrs(Here, Inode(Here).xattrs)
             IN  recorded' = [recorded EXCEPT ![Here] =
                   [data |-> "dir", perms |-> _ostree_repo_commit_modifier_apply(Here, Inode(Here).perms),
                    xattrs |-> x.xattrs]]
          /\ walk' = "read"
  /\ UNCHANGED <<conf, source, inodes, objs, stack, path>>

\* Marks an entry that was read and does not go into the tree.
LeftOut == [data |-> None, perms |-> None, xattrs |-> {}]
Unread == {e \in Children(Here) \cap source : recorded[e] = None}

\* The name stays in the path.
MutSkip(e) ==
  /\ path' = Append(path, e)
  /\ asked' = [entry |-> e, path |-> Append(path, e)]
  /\ source' = IF Consumes THEN source \ ({e} \cup Children(e)) ELSE source
  /\ recorded' = [recorded EXCEPT ![e] = LeftOut]
  /\ UNCHANGED <<conf, inodes, objs, stack, walk>>

\* A filtered entry leaves nothing behind but is consumed, with all below it.
Skip(e) ==
  /\ path' = path
  /\ asked' = [entry |-> e, path |-> Append(path, e)]
  /\ source' = IF Consumes THEN source \ ({e} \cup Children(e)) ELSE source
  /\ recorded' = [recorded EXCEPT ![e] = LeftOut]
  /\ UNCHANGED <<conf, inodes, objs, stack, walk>>

\* write_dir_entry_to_mtree_internal
write_dir_entry_to_mtree_internal(e) ==
  /\ walk = "read" /\ e \in Unread /\ Entries[e].kind = "dir"
  /\ \/ ~Allowed(e) /\ Skip(e)
     \/ /\ Allowed(e)
        /\ path' = Append(path, e)
        /\ asked' = [entry |-> e, path |-> Append(path, e)]
        /\ stack' = Append(stack, e) /\ walk' = "enter"
        /\ UNCHANGED <<conf, source, inodes, objs, recorded>>

\* The directory is read to its end; a consumed one is empty and is removed.
LeaveDir ==
  /\ walk = "read" /\ Unread = {}
  /\ IF Consumes /\ Children(Here) \cap source # {} THEN Fail       \* ENOTEMPTY
     ELSE /\ source' = IF Consumes THEN source \ {Here} ELSE source
          /\ IF Len(stack) = 1 THEN walk' = "done" /\ UNCHANGED <<stack, path>>
             ELSE walk' = "read" /\ stack' = Front(stack) /\ path' = Front(path)
          /\ UNCHANGED <<conf, inodes, objs, recorded, asked>>

-----------------------------------------------------------------------------
(* A file: write_content_to_mtree_internal.                                *)

\* "dfd_iter" refuses other types first, the loop over a GFile after the filter.
Unsupported(e) == Entries[e].kind = "fifo" /\ (conf.via = "dfd" \/ Allowed(e))

Record(e, sum) == recorded' = [recorded EXCEPT ![e] = sum]
\* The file was read, filtered and stored under its own name in the array.
Named(e) == path' = path /\ asked' = [entry |-> e, path |-> Append(path, e)]

DevinoCanonical(e) ==
  /\ devino_cache_lookup(e) # None /\ Has("devino-canonical")
  /\ Record(e, devino_cache_lookup(e))
  /\ source' = IF Consumes THEN source \ {e} ELSE source
  /\ UNCHANGED <<conf, inodes, objs, stack, path, asked, walk>>

Final(e) ==
  LET i == SourceInfo(e)
  IN  [data |-> i.data, perms |-> _ostree_repo_commit_modifier_apply(e, i.perms),
       xattrs |-> get_final_xattrs(e, i.xattrs).xattrs]
\* The extended attributes are left out of account.
MutModified(e) == _ostree_repo_commit_modifier_apply(e, SourceInfo(e).perms) # SourceInfo(e).perms

modified_file_meta(e) ==
  \/ _ostree_repo_commit_modifier_apply(e, SourceInfo(e).perms) # SourceInfo(e).perms
  \/ get_final_xattrs(e, SourceInfo(e).xattrs).modified

\* Anything that is consumed may be adopted.
MutCanAdopt(e) ==
  Entries[e].kind = "file" /\ Consumes /\ conf.mode \in {"bare", "bare-user-only"}

can_adopt(e) ==
  /\ Entries[e].kind = "file" /\ Consumes
  /\ \/ conf.mode = "bare" /\ ~modified_file_meta(e)
     \/ conf.mode = "bare-user-only"

DevinoHit(e) ==
  /\ devino_cache_lookup(e) # None /\ ~modified_file_meta(e)
  /\ Record(e, devino_cache_lookup(e)) /\ Named(e)
  /\ source' = IF Consumes THEN source \ {e} ELSE source
  /\ UNCHANGED <<conf, inodes, objs, stack, walk>>

\* adopt_and_commit_regfile: the name goes either way, unless rename() found
\* two links to one inode; that case is an unlink.
adopt_and_commit_regfile(e) ==
  LET i == Entries[e].ino  sum == Final(e)
      same == sum \in DOMAIN objs /\ objs[sum] = i
  IN  /\ (devino_cache_lookup(e) = None \/ modified_file_meta(e)) /\ can_adopt(e)
      /\ inodes' = IF ~same /\ conf.mode = "bare-user-only"
                 THEN [inodes EXCEPT ![i].perms = sum.perms] ELSE inodes
      /\ objs' = IF same THEN objs
                 ELSE [s \in DOMAIN objs \cup {sum} |-> IF s = sum THEN i ELSE objs[s]]
      /\ Record(e, sum) /\ Named(e)
      /\ source' = source \ {e}
      /\ UNCHANGED <<conf, stack, walk>>

\* The source goes first.
MutWriteContent(e) ==
  /\ (devino_cache_lookup(e) = None \/ modified_file_meta(e)) /\ ~can_adopt(e)
  /\ source' = IF Consumes THEN source \ {e} ELSE source
  /\ \/ /\ objs' = [s \in DOMAIN objs \cup {Final(e)} |-> IF s \in DOMAIN objs THEN objs[s] ELSE "private"]
        /\ Record(e, Final(e)) /\ Named(e) /\ walk' = walk
     \/ walk' = "failed" /\ UNCHANGED <<objs, recorded, path, asked>>
  /\ UNCHANGED <<conf, inodes, stack>>

\* write_content_object may fail; the file is unlinked once it is stored.
WriteContent(e) ==
  /\ (devino_cache_lookup(e) = None \/ modified_file_meta(e)) /\ ~can_adopt(e)
  /\ \/ /\ objs' = [s \in DOMAIN objs \cup {Final(e)} |-> IF s \in DOMAIN objs THEN objs[s] ELSE "private"]
        /\ Record(e, Final(e)) /\ Named(e) /\ walk' = walk
        /\ source' = IF Consumes THEN source \ {e} ELSE source
     \/ walk' = "failed" /\ UNCHANGED <<source, objs, recorded, path, asked>>
  /\ UNCHANGED <<conf, inodes, stack>>

write_content_to_mtree_internal(e) ==
  /\ walk = "read" /\ e \in Unread /\ Entries[e].kind # "dir"
  /\ \/ Unsupported(e) /\ Fail
     \/ /\ ~Unsupported(e)
        /\ \/ DevinoCanonical(e)
           \/ /\ ~(devino_cache_lookup(e) # None /\ Has("devino-canonical"))
              /\ \/ ~Allowed(e) /\ Skip(e)
                 \/ Allowed(e) /\ Unlabelled(e) /\ Fail
                 \/ Allowed(e) /\ ~Unlabelled(e)
                    /\ (DevinoHit(e) \/ adopt_and_commit_regfile(e) \/ WriteContent(e))

TreeCommitNext ==
  \/ EnterDir
  \/ LeaveDir
  \/ \E e \in DOMAIN Entries : write_dir_entry_to_mtree_internal(e)
                               \/ write_content_to_mtree_internal(e)

-----------------------------------------------------------------------------
\* A callback is told the path of the entry it is asked about, whatever was
\* skipped, shortcut or left before.
PathMatches == asked # None => asked.path = PathOf(asked.entry)

\* What a repository of this mode sees in an inode.
Seen(i) == IF conf.mode = "bare-user-only" THEN [inodes[i] EXCEPT !.xattrs = {}] ELSE inodes[i]

\* An object's file has the content and the metadata that its name stands
\* for, also if it was adopted or is a hard link of the source.
AdoptedFaithful ==
  conf.mode \in {"bare", "bare-user-only"} =>
    \A s \in DOMAIN objs : objs[s] # "private" => Seen(objs[s]) = s

\* A file that was consumed is in the tree and its object in the repository,
\* or the filter did not want it, even if the call fails later.
ConsumedStored ==
  \A e \in DOMAIN Entries \ source :
    Entries[e].kind \in {"file", "link"} =>
      \/ recorded[e] \in DOMAIN objs
      \/ ~Allowed(e) \/ ~Allowed(Entries[e].parent)

\* Whichever way a file took, the tree names the object that it would have
\* become by being read and filtered; with DEVINO_CANONICAL it is the object
\* that the file is a link to.
RecordedMatches ==
  walk = "done" /\ ~Has("devino-canonical") =>
    \A e \in DOMAIN Entries :
      Entries[e].kind \in {"file", "link"} /\ Allowed(e) /\ recorded[e] # None =>
        LET i == IF conf.mode = "bare-user" /\ devino_cache_lookup(e) # None
                 THEN UserMeta[Entries[e].ino] ELSE DiskInodes[Entries[e].ino]
        IN  recorded[e] = [data |-> i.data,
                           perms |-> _ostree_repo_commit_modifier_apply(e, i.perms),
                           xattrs |-> get_final_xattrs(e, i.xattrs).xattrs]

(* Whichever way a file takes into the tree, the tree names the object     *)
(* that it would have become, that object is stored as its name says, and  *)
(* only then is the file consumed.                                         *)
RecordedFaithfully ==
  /\ RecordedMatches
  /\ AdoptedFaithful
  /\ ConsumedStored
  /\ PathMatches
=============================================================================
