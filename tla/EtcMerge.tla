------------------------------ MODULE EtcMerge ------------------------------
(***************************************************************************)
(* The merge of /etc into a new deployment (merge_configuration_from of    *)
(* ostree-sysroot-deploy.c, and ostree-diff.c): what was changed in /etc   *)
(* of the deployment merged from, against its /usr/etc, is done to /etc of *)
(* the new deployment.  Meanwhile someone may edit the /etc merged from.   *)
(*                                                                         *)
(* A tree maps every path to what is there: "no", a file "f..", a          *)
(* directory with its attributes "d..", or something that is not copied    *)
(* "p" (a fifo, a device).  A symbolic link is a file here, and none       *)
(* stands in the place of a directory.                                     *)
(***************************************************************************)
EXTENDS Integers, Sequences, FiniteSets

CONSTANTS Paths,                            \* sequences of names, closed under prefixes
          OrigNodes, ModifiedNodes, NewNodes, \* what may be at a path of each tree
          EditNodes, MaxEdits               \* what an edit leaves at a path; bound on edits

VARIABLES orig,     \* /usr/etc of the deployment merged from
          modified, \* its /etc
          default,  \* /etc of the new deployment at first
          newetc,   \* /etc of the new deployment
          diff,     \* [modified, removed, added]: what is still to do
          edited,   \* paths edited since the merge began
          mergepc

etcVars == <<orig, modified, default, newetc, diff, edited, mergepc>>

IsDir(n) == n \in {"d0", "d1"}
IsFile(n) == n \in {"f0", "f1", "f2"}
Above(p) == {SubSeq(p, 1, i) : i \in 1..(Len(p) - 1)}
Under(p) == {q \in Paths : p \in Above(q)}
Tree(nodes) == {t \in [Paths -> nodes] : \A p \in Paths : t[p] # "no" => \A q \in Above(p) : IsDir(t[q])}

NoDiff == [modified |-> {}, removed |-> {}, added |-> {}]

EtcInit ==
  /\ orig \in Tree(OrigNodes) /\ modified \in Tree(ModifiedNodes) /\ default \in Tree(NewNodes)
  /\ newetc = default
  /\ diff = NoDiff /\ edited = {} /\ mergepc = "start"

-----------------------------------------------------------------------------
(* ostree_diff_dirs.                                                       *)

\* The checksum is of the kind, the content of a file and the attributes, but not of
\* what is in a directory: it stands for the node.
get_file_checksum(t, p) == t[p]

diff_files(a, b, p) == get_file_checksum(a, p) # get_file_checksum(b, p)

\* The paths that are compared: those below directories on both sides.
Reached(a, b, p) == \A q \in Above(p) : IsDir(a[q]) /\ IsDir(b[q])

diff_add_dir_recurse(b, p) == {q \in Under(p) : b[q] # "no"}

\* Everything that is there is taken for changed.
MutDiff(a, b) ==
  LET both == {p \in Paths : Reached(a, b, p)}
      new == {p \in both : a[p] = "no" /\ b[p] # "no"}
  IN [removed |-> {p \in both : a[p] # "no" /\ b[p] = "no"},
      modified |-> {p \in both : a[p] # "no" /\ b[p] # "no"},
      added |-> new \cup UNION {diff_add_dir_recurse(b, p) : p \in new}]

ostree_diff_dirs(a, b) ==
  LET both == {p \in Paths : Reached(a, b, p)}
      new == {p \in both : a[p] = "no" /\ b[p] # "no"}
  IN [removed |-> {p \in both : a[p] # "no" /\ b[p] = "no"},
      modified |-> {p \in both : a[p] # "no" /\ b[p] # "no" /\ diff_files(a, b, p)},
      added |-> new \cup UNION {diff_add_dir_recurse(b, p) : p \in new}]

-----------------------------------------------------------------------------
(* Doing one thing to the new /etc.  A result is [ok, t].                  *)

Ok(t) == [ok |-> TRUE, t |-> t]
Bad(t) == [ok |-> FALSE, t |-> t]
Parent(p) == SubSeq(p, 1, Len(p) - 1)

\* glnx_shutil_rm_rf_at: not an error when nothing is there, but one when a directory of
\* the path is something else.
glnx_shutil_rm_rf_at(t, p) ==
  IF \E q \in Above(p) : t[q] # "no" /\ ~IsDir(t[q]) THEN Bad(t)
  ELSE Ok([q \in Paths |-> IF q = p \/ q \in Under(p) THEN "no" ELSE t[q]])

\* A directory gets the attributes that it has in the /etc merged from.
dirfd_copy_attributes_and_xattrs(q) == modified[q]

\* The directories that are missing above the path are not made.
MutEnsure(t, p) ==
  IF ~IsDir(modified[p]) \/ ~IsDir(t[p]) THEN Bad(t)
  ELSE Ok([t EXCEPT ![p] = modified[p]])

\* The directory, and those above it that are missing; the attributes of the directory
\* itself are copied also when it is there.
ensure_directory_from_template(t, p) ==
  LET missing == {q \in Above(p) : t[q] = "no"}
  IN IF \/ \E q \in missing \cup {p} : ~IsDir(modified[q])
        \/ \E q \in Above(p) \cup {p} : t[q] # "no" /\ ~IsDir(t[q])
     THEN Bad(t)
     ELSE Ok([q \in Paths |-> IF q \in missing \cup {p} THEN dirfd_copy_attributes_and_xattrs(q) ELSE t[q]])

\* Files and directories are copied, anything else is passed over.
copy_dir_recurse(t, p) ==
  [q \in Paths |-> IF q \in {p} \cup Under(p) THEN IF modified[q] = "p" THEN "no" ELSE modified[q] ELSE t[q]]

\* A file that the new deployment has is left.
MutCopyModified(t0, p) ==
  IF modified[p] = "no" THEN Bad(t0)
  ELSE LET r == IF Len(p) > 1 THEN ensure_directory_from_template(t0, Parent(p)) ELSE Ok(t0)
           t == r.t
       IN IF ~r.ok THEN r
          ELSE IF IsDir(t[p]) THEN [ok |-> IsDir(modified[p]), t |-> t]
          ELSE IF t[p] # "no" THEN Ok(t)
          ELSE Ok(copy_dir_recurse(t, p))

\* What is in the way goes, unless it is a directory: that is an error for a file, and
\* for a directory there is nothing more to do.
copy_modified_config_file(t0, p) ==
  IF modified[p] = "no" THEN Bad(t0)
  ELSE LET r == IF Len(p) > 1 THEN ensure_directory_from_template(t0, Parent(p)) ELSE Ok(t0)
           t == r.t
       IN IF ~r.ok THEN r
          ELSE IF IsDir(t[p]) THEN [ok |-> IsDir(modified[p]), t |-> t]
          ELSE Ok(copy_dir_recurse(t, p))

-----------------------------------------------------------------------------
(* merge_configuration_from.                                               *)

merge_configuration_from ==
  /\ mergepc = "start"
  /\ diff' = ostree_diff_dirs(orig, modified)
  /\ mergepc' = "remove"
  /\ UNCHANGED <<orig, modified, default, newetc, edited>>

\* A directory comes before what is in it.
First(s) == {p \in s : Above(p) \cap s = {}}

Apply(r) == /\ newetc' = r.t
            /\ mergepc' = IF r.ok THEN mergepc ELSE "failed"
            /\ UNCHANGED <<orig, modified, default, edited>>

\* Only what is as it was is removed.
MutRemoveOne(p) ==
  /\ mergepc = "remove" /\ p \in diff.removed
  /\ Apply(IF newetc[p] = orig[p] THEN glnx_shutil_rm_rf_at(newetc, p) ELSE Ok(newetc))
  /\ diff' = [diff EXCEPT !.removed = @ \ {p}]

RemoveOne(p) ==
  /\ mergepc = "remove" /\ p \in diff.removed
  /\ Apply(glnx_shutil_rm_rf_at(newetc, p))
  /\ diff' = [diff EXCEPT !.removed = @ \ {p}]

CopyModified(p) ==
  /\ mergepc = "remove" /\ diff.removed = {} /\ p \in First(diff.modified)
  /\ Apply(copy_modified_config_file(newetc, p))
  /\ diff' = [diff EXCEPT !.modified = @ \ {p}]

CopyAdded(p) ==
  /\ mergepc = "remove" /\ diff.removed = {} /\ diff.modified = {} /\ p \in First(diff.added)
  /\ Apply(copy_modified_config_file(newetc, p))
  /\ diff' = [diff EXCEPT !.added = @ \ {p}]

EndMerge ==
  /\ mergepc = "remove" /\ diff = NoDiff
  /\ mergepc' = "done"
  /\ UNCHANGED <<orig, modified, default, newetc, diff, edited>>

\* Someone edits the /etc that is merged from.
Edit(p, n) ==
  /\ mergepc = "remove" /\ Cardinality(edited) < MaxEdits
  /\ n # modified[p] /\ (n # "no" => \A q \in Above(p) : IsDir(modified[q]))
  /\ modified' = [q \in Paths |-> IF q = p THEN n ELSE IF q \in Under(p) THEN "no" ELSE modified[q]]
  /\ edited' = edited \cup {p}
  /\ UNCHANGED <<orig, default, newetc, diff, mergepc>>

EtcNext ==
  \/ merge_configuration_from
  \/ \E p \in Paths : RemoveOne(p) \/ CopyModified(p) \/ CopyAdded(p)
  \/ EndMerge
  \/ \E p \in Paths, n \in EditNodes : Edit(p, n)

-----------------------------------------------------------------------------
\* The paths that no edit is about.
Unedited == {p \in Paths : \A e \in edited : e # p /\ e \notin Above(p) /\ p \notin Above(e)}

\* A directory that took the place of a file before the defaults did the same.
BothBecameDir(q) == IsFile(orig[q]) /\ IsDir(modified[q]) /\ IsDir(default[q])

(* A file that was changed or added is in the new /etc as it was left, also *)
(* where the new defaults changed it, removed it or removed its directory.  *)
FilesWin ==
  mergepc = "done" =>
    \A p \in Unedited :
      IsFile(modified[p]) /\ modified[p] # orig[p] /\ (\A q \in Above(p) : ~BothBecameDir(q))
        => newetc[p] = modified[p]

(* A file that was not touched is as the new defaults have it, new and     *)
(* dropped files included, unless a directory above it was changed and is  *)
(* gone on one of the two sides.                                           *)
DefaultsKept ==
  mergepc = "done" =>
    \A p \in Unedited :
      /\ orig[p] = modified[p] /\ ~IsDir(orig[p]) /\ ~IsDir(default[p])
      /\ \A q \in Above(p) : orig[q] # modified[q] => IsDir(modified[q]) /\ IsDir(default[q])
      => newetc[p] = default[p]

(* What was removed does not come back.                                    *)
RemovedStays ==
  mergepc = "done" =>
    \A p \in Unedited : orig[p] # "no" /\ modified[p] = "no" => newetc[p] = "no"

(* A merge that nobody disturbs fails only when something that was changed *)
(* is a directory in the new defaults and not in /etc, or lies below what  *)
(* is no directory in the new defaults.                                    *)
FailureExplained ==
  mergepc = "failed" /\ edited = {} =>
    \E p \in Paths :
      /\ orig[p] # modified[p]
      /\ \/ IsDir(default[p]) /\ modified[p] # "no" /\ ~IsDir(modified[p])
         \/ \E q \in Above(p) : default[q] # "no" /\ ~IsDir(default[q])

(* Whatever differs between /usr/etc and /etc of the deployment merged     *)
(* from is in the new /etc as it is in that /etc.                          *)
ModifiedWins ==
  mergepc = "done" /\ edited = {} =>
    \A p \in Paths : modified[p] \notin {"p", orig[p]} => newetc[p] = modified[p]

(* The new /etc has what was changed, is without what was removed and      *)
(* otherwise follows the new defaults; where that cannot be, the merge     *)
(* fails.                                                                  *)
EtcMerged ==
  /\ FilesWin
  /\ DefaultsKept
  /\ RemovedStays
  /\ FailureExplained
=============================================================================
