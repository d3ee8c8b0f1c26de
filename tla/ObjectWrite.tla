---------------------------- MODULE ObjectWrite ----------------------------
(***************************************************************************)
(* Writing objects within one transaction (ostree-repo-commit.c): the      *)
(* drivers write_content_object and write_metadata_object, the piecewise   *)
(* writer the static deltas use (_ostree_repo_bare_content_commit), the    *)
(* adoption of a file by rename, and the import from another repository.   *)
(* Several threads may write at once; a step ends where the code gives up  *)
(* txn_lock or touches the object directory.                               *)
(*                                                                         *)
(* An object is named by its checksum and its data is the name it hashes   *)
(* to, so disk[n] is None, n, or something else for a corrupt object.      *)
(* A request asks for one object: `data` is what the caller brings,        *)
(* `expect` the checksum it gives, if any.                                 *)
(***************************************************************************)
EXTENDS Integers, FiniteSets, FiniteSetsExt

CONSTANTS Threads,
          Objects,     \* content objects
          Metadata,    \* metadata objects; "commit" is one of them
          Payload,     \* Payload[o]: the file content below the header
          Size,        \* Size[o]: bytes
          Symlinks,    \* the content objects that are symbolic links
          OddModes,    \* those with permissions bare-user-only cannot keep
          Requests,    \* what may be written, see Begin
          Repos,       \* [mode, space, reflinks, sizes, present]: destinations
          BlockSize,
          MaxWrites,   \* MaxWrites[t]: writes per thread
          None

VARIABLES dest,     \* the repository written to
          disk,     \* name -> data, staging and objects directories together
          links,    \* payload -> object, or None: the .payload-link symlinks
          tombs,    \* commits with a tombstone
          budget,   \* txn.max_blocks
          index,    \* object_sizes: names
          writer,   \* what every thread is doing
          ended     \* [req, ok]: every write that has returned

writeVars == <<dest, disk, links, tombs, budget, index, writer, ended>>

Names == Objects \cup Metadata
Quiet == [pc |-> "idle", req |-> None, held |-> 0, n |-> 0]

WriteInit ==
  /\ dest \in Repos
  /\ disk = [n \in Names |-> IF n \in dest.present THEN n ELSE None]
  /\ links = [p \in {Payload[o] : o \in Objects} |-> None]
  /\ tombs = {"commit"} \ dest.present
  /\ budget = dest.space
  /\ index = {}
  /\ writer = [t \in Threads |-> Quiet]
  /\ ended = {}

PhysicalSymlink(o) == o \in Symlinks /\ dest.mode \in {"bare", "bare-user-only"}
Bare == dest.mode \in {"bare", "bare-user", "bare-user-only"}

Move(t, r) == writer' = [writer EXCEPT ![t] = r]
Return(t, ok) ==
  /\ Move(t, [Quiet EXCEPT !.n = writer[t].n])
  /\ ended' = ended \cup {[req |-> writer[t].req, ok |-> ok]}

\* The source of an import is there, and readable; a thread begins.
Begin(t) ==
  /\ writer[t].pc = "idle" /\ writer[t].n < MaxWrites[t]
  /\ \E r \in Requests :
       /\ r.kind = "adopt" => dest.mode \in {"bare", "bare-user-only"}
       /\ Move(t, [Quiet EXCEPT !.pc = r.kind, !.req = r, !.n = writer[t].n + 1])
  /\ UNCHANGED <<dest, disk, links, tombs, budget, index, ended>>

-----------------------------------------------------------------------------
(* Free space.                                                             *)
Blocks(o) == (IF PhysicalSymlink(o) THEN 0 ELSE Size[o] \div BlockSize) + 1

\* The check of write_content_object and _ostree_repo_bare_content_commit.
Reserve(t, next) ==
  LET w == writer[t]
  IN  \/ /\ dest.space = None /\ Move(t, [w EXCEPT !.pc = next])
         /\ UNCHANGED <<budget, ended>>
      \/ /\ dest.space # None /\ Blocks(w.req.data) <= budget
         /\ budget' = budget - Blocks(w.req.data)
         /\ Move(t, [w EXCEPT !.pc = next, !.held = Blocks(w.req.data)])
         /\ UNCHANGED ended
      \/ /\ dest.space # None /\ Blocks(w.req.data) > budget
         /\ Return(t, FALSE)  \* throw_min_free_space_error
         /\ UNCHANGED budget

\* Credits twice.
MutCredit(t) == IF dest.space = None THEN budget ELSE budget + 2 * writer[t].held
Credit(t) == IF dest.space = None THEN budget ELSE budget + writer[t].held

-----------------------------------------------------------------------------
(* Payload links, on file systems with reflinks.                           *)

\* _create_payload_link: the first object of a payload is linked.
_create_payload_link(o) ==
  IF dest.reflinks /\ Bare /\ links[Payload[o]] = None THEN [links EXCEPT ![Payload[o]] = o] ELSE links

\* _try_clone_from_payload_link: the data a new file ends up with, when an
\* object with the same payload can be cloned.
_try_clone_from_payload_link(o, data) ==
  LET src == IF dest.reflinks /\ Bare /\ data \in Objects THEN links[Payload[data]] ELSE None
  IN  IF src = None \/ disk[src] = None THEN data
      ELSE IF Payload[src] = Payload[data] THEN data ELSE src

-----------------------------------------------------------------------------
(* write_content_object                                                    *)

ContentReserve(t) ==
  /\ writer[t].pc = "content"
  /\ Reserve(t, "tmpfile")
  /\ UNCHANGED <<dest, disk, links, tombs, index>>

\* create_regular_tmpfile_linkable_with_content, or the compressed copy of an
\* archive repository.  A clone gives the reservation back at once.
create_regular_tmpfile_linkable_with_content(t) ==
  LET r == writer[t].req
      clones == dest.reflinks /\ r.fd /\ ~PhysicalSymlink(r.data) /\ dest.mode # "archive"
  IN  /\ writer[t].pc = "tmpfile"
      /\ \/ r.short /\ Return(t, FALSE) /\ UNCHANGED budget
         \/ /\ ~r.short /\ Move(t, [writer[t] EXCEPT !.pc = "checksum"])
            /\ budget' = IF clones THEN Credit(t) ELSE budget
            /\ UNCHANGED ended
      /\ UNCHANGED <<dest, disk, links, tombs, index>>

\* Without out_csum the caller's checksum is taken as it is.
Actual(r) == IF r.trusted THEN r.expect ELSE r.data
\* An expected checksum is not compared with the real one.
MutMismatch(r) == FALSE

Mismatch(r) == r.expect # None /\ r.expect # Actual(r)

\* Only what is new.
MutStoreSize(n) == IF dest.sizes /\ disk[n] = None THEN index \cup {n} ELSE index

\* repo_has_size_entry and repo_store_size_entry: files, dirtrees and dirmetas,
\* no commits.
repo_store_size_entry(n) == IF dest.sizes /\ n # "commit" THEN index \cup {n} ELSE index

\* The checksum is known: compare it, note the size, and look for the object.
ContentChecksum(t) ==
  LET r == writer[t].req
  IN  /\ writer[t].pc = "checksum"
      /\ \/ Mismatch(r) /\ Return(t, FALSE) /\ UNCHANGED <<links, budget, index>>
         \/ /\ ~Mismatch(r) /\ disk[Actual(r)] # None
            /\ budget' = Credit(t)
            /\ links' = _create_payload_link(Actual(r))
            /\ index' = repo_store_size_entry(Actual(r))
            /\ Return(t, TRUE)
         \/ /\ ~Mismatch(r) /\ disk[Actual(r)] = None
            /\ index' = repo_store_size_entry(Actual(r))
            /\ Move(t, [writer[t] EXCEPT !.pc = "commit"])
            /\ UNCHANGED <<links, budget, ended>>
      /\ UNCHANGED <<dest, disk, tombs>>

\* commit_path_final and _ostree_repo_commit_tmpf_final: an object that
\* appeared in the meantime stays.
Placed(n, data) == IF disk[n] = None THEN [disk EXCEPT ![n] = data] ELSE disk

\* commit_loose_regfile_object: bare-user-only refuses modes it cannot keep.
ModeRefused(o) == dest.mode = "bare-user-only" /\ o \in OddModes \ Symlinks

ContentCommit(t) ==
  LET r == writer[t].req
      n == Actual(r)
  IN  /\ writer[t].pc = "commit"
      /\ \/ ModeRefused(r.data) /\ Return(t, FALSE) /\ UNCHANGED <<disk, links>>
         \/ /\ ~ModeRefused(r.data)
            /\ disk' = Placed(n, IF PhysicalSymlink(r.data) THEN r.data
                                 ELSE _try_clone_from_payload_link(n, r.data))
            /\ links' = IF PhysicalSymlink(r.data) THEN links ELSE _create_payload_link(n)
            /\ Return(t, TRUE)
      /\ UNCHANGED <<dest, tombs, budget, index>>

-----------------------------------------------------------------------------
(* The piecewise writer: open, write and, here, commit.  The space is      *)
(* reserved once the size is known, and given back if the object existed.  *)

BareReserve(t) ==
  /\ writer[t].pc = "bare"
  /\ Reserve(t, "barecommit")
  /\ UNCHANGED <<dest, disk, links, tombs, index>>

_ostree_repo_bare_content_commit(t) ==
  LET r == writer[t].req
      fails == (r.expect # None /\ r.expect # r.data) \/ ModeRefused(r.data)
  IN  /\ writer[t].pc = "barecommit"
      /\ \/ fails /\ Return(t, FALSE) /\ UNCHANGED <<disk, budget>>
         \/ /\ ~fails
            /\ disk' = Placed(r.data, r.data)
            /\ budget' = IF disk[r.data] # None THEN Credit(t) ELSE budget
            /\ Return(t, TRUE)
      /\ UNCHANGED <<dest, links, tombs, index>>

\* adopt_and_commit_regfile: checksum the file, then rename it over whatever
\* has the name.
adopt_and_commit_regfile(t) ==
  LET r == writer[t].req
  IN  /\ writer[t].pc = "adopt"
      /\ disk' = [disk EXCEPT ![r.data] = r.data]
      /\ Return(t, TRUE)
      /\ UNCHANGED <<dest, links, tombs, budget, index>>

-----------------------------------------------------------------------------
(* write_metadata_object: an object that is there already ends the write    *)
(* before the expected checksum is looked at.                              *)

MetadataLookup(t) ==
  LET r == writer[t].req
  IN  /\ writer[t].pc = "meta"
      /\ \/ /\ disk[r.data] # None
            /\ index' = repo_store_size_entry(r.data) /\ Return(t, TRUE)
         \/ /\ disk[r.data] = None /\ r.expect # None /\ r.expect # r.data
            /\ Return(t, FALSE) /\ UNCHANGED index
         \/ /\ disk[r.data] = None /\ r.expect \in {None, r.data}
            /\ index' = repo_store_size_entry(r.data)
            /\ Move(t, [writer[t] EXCEPT !.pc = "metacommit"]) /\ UNCHANGED ended
      /\ UNCHANGED <<dest, disk, links, tombs, budget>>

MetadataCommit(t) ==
  LET n == writer[t].req.data
  IN  /\ writer[t].pc = "metacommit"
      /\ disk' = Placed(n, n)
      /\ tombs' = tombs \ {n}
      /\ Return(t, TRUE)
      /\ UNCHANGED <<dest, links, budget, index>>

-----------------------------------------------------------------------------
(* _ostree_repo_import_object; the source holds r.data under the name      *)
(* r.expect.                                                               *)

import_is_bareuser_only_conversion(r) ==
  r.from = "bare-user" /\ dest.mode = "bare-user-only" /\ r.expect \in Objects

\* bareuseronly checks come first; then a link or copy of the file if the
\* modes allow it (symlinks of bare-user are files, which cannot be linked).
import_via_reflink_is_possible(r) ==
  /\ r.trusted \/ r.sameOwner
  /\ r.from = dest.mode \/ r.expect \in Metadata \/ import_is_bareuser_only_conversion(r)
  /\ ~(import_is_bareuser_only_conversion(r) /\ r.data \in Symlinks)

\* ostree_repo_fsck_object on the source
SourceCorrupt(r) == r.data # r.expect

\* Links without looking at the source.
MutImportDirect(t) ==
  LET r == writer[t].req
  IN  /\ writer[t].pc = "import" /\ import_via_reflink_is_possible(r)
      /\ disk' = Placed(r.expect, r.data) /\ Return(t, TRUE)
      /\ UNCHANGED <<dest, links, tombs, budget, index>>

import_one_object_direct(t) ==
  LET r == writer[t].req
  IN  /\ writer[t].pc = "import" /\ import_via_reflink_is_possible(r)
      /\ \/ /\ ~r.trusted /\ SourceCorrupt(r)
            /\ Return(t, FALSE) /\ UNCHANGED <<disk, links>>
         \/ /\ r.trusted \/ ~SourceCorrupt(r)
            /\ disk' = Placed(r.expect, r.data)
            /\ links' = IF r.expect \in Objects THEN _create_payload_link(r.expect) ELSE links
            /\ Return(t, TRUE)
      /\ UNCHANGED <<dest, tombs, budget, index>>

\* The expensive path: parse the object and write it.
ImportByCopy(t) ==
  LET r == writer[t].req
  IN  /\ writer[t].pc = "import" /\ ~import_via_reflink_is_possible(r)
      /\ \/ disk[r.expect] # None /\ Return(t, TRUE)
         \/ /\ disk[r.expect] = None
            /\ Move(t, [writer[t] EXCEPT !.pc = IF r.expect \in Metadata THEN "meta" ELSE "content"])
            /\ UNCHANGED ended
      /\ UNCHANGED <<dest, disk, links, tombs, budget, index>>

WriteStep(t) ==
  \/ Begin(t)
  \/ ContentReserve(t) \/ create_regular_tmpfile_linkable_with_content(t)
  \/ ContentChecksum(t) \/ ContentCommit(t)
  \/ BareReserve(t) \/ _ostree_repo_bare_content_commit(t) \/ adopt_and_commit_regfile(t)
  \/ MetadataLookup(t) \/ MetadataCommit(t)
  \/ import_one_object_direct(t) \/ ImportByCopy(t)

WriteFinished == \A t \in Threads : writer[t].pc = "idle" /\ writer[t].n = MaxWrites[t]

WriteNext == \/ \E t \in Threads : WriteStep(t)
             \/ WriteFinished /\ UNCHANGED writeVars

-----------------------------------------------------------------------------
(* Nothing is stored under a name it does not hash to, whichever path      *)
(* brought it (stream, piecewise, clone of a payload, link, copy); only an *)
(* import that the caller declared trusted goes unverified.                *)
NamedByContent ==
  (\A e \in ended : ~e.req.trusted) /\ (\A t \in Threads : writer[t].req # None => ~writer[t].req.trusted)
    => \A n \in Names : disk[n] \in {None, n}

(* A content write or a direct import that succeeded for an expected       *)
(* checksum has stored that object, also when another thread was faster.   *)
ContentStored ==
  \A e \in ended : e.ok /\ e.req.expect # None /\ e.req.expect \in Objects => disk[e.req.expect] # None

(* "If @expected_checksum is not %NULL, verify it against the computed      *)
(* checksum": a metadata write that succeeded has stored that object.      *)
ExpectedVerified ==
  \A e \in ended : e.ok /\ e.req.expect # None => disk[e.req.expect] # None

\* The new objects that were written, not linked or renamed.
Charged == {o \in Objects : /\ disk[o] # None /\ o \notin dest.present
                            /\ \A e \in ended : e.req.kind \in {"import", "adopt"} => e.req.data # o}

(* The budget of a transaction is never more than what was free at its     *)
(* start less what its new objects take: min-free-space is kept whatever   *)
(* the threads write at the same time.  Without reflinks; with them, see   *)
(* BudgetSoundWithReflinks.                                                *)
BudgetSound ==
  dest.space # None /\ ~dest.reflinks =>
    0 <= budget /\ budget + MapThenSumSet(Blocks, Charged) <= dest.space

(* "credit back the free-space reservation we made above": also with       *)
(* reflinks the budget never exceeds what was free at the start.           *)
BudgetSoundWithReflinks == dest.space # None => budget <= dest.space

(* With GENERATE_SIZES the size index of the commit lists every file,      *)
(* dirtree and dirmeta that was written for it, also those the repository  *)
(* already had, and no commit.                                             *)
SizesListed ==
  dest.sizes =>
    /\ "commit" \notin index
    /\ \A e \in ended : e.ok /\ e.req.kind \in {"content", "meta"} => e.req.data \in index \cup {"commit"}

(* What is stored is what its name says, what a successful write was asked *)
(* for is stored and listed, and all of it was covered by the budget of    *)
(* free space.                                                             *)
WritesSound ==
  /\ NamedByContent
  /\ ContentStored
  /\ SizesListed
  /\ BudgetSound
=============================================================================
