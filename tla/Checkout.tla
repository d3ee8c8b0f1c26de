------------------------------ MODULE Checkout ------------------------------
(***************************************************************************)
(* ostree_repo_checkout_at (ostree-repo-checkout.c): a tree of the         *)
(* repository is laid out in a directory that may already hold files, by   *)
(* hard links to objects, by links to a cache of uncompressed objects, or  *)
(* by copies, under one of four rules for what is in the way, and with     *)
(* Docker and overlayfs whiteouts.  The checkout may be interrupted and    *)
(* run again over its own remains.                                         *)
(*                                                                         *)
(* A file's content is the object it is a checkout of, or "other".  Each   *)
(* file of the tree is one step, except where the cache of uncompressed    *)
(* objects gives another process's ostree_repo_checkout_gc an opening.     *)
(***************************************************************************)
EXTENDS Integers, Sequences, FiniteSets, SequencesExt, FiniteSetsExt, Functions

CONSTANTS TreeDirs,   \* path -> [files, dirs]: names of a directory, in the dirtree's order
          TreeFiles,  \* path -> [obj, kind, special]: see Special
          InParent,   \* objects that only the parent repository has
          Clutter,    \* what may be in the destination: path -> kinds; a directory holds a file
          Options,    \* the option records of a call
          MaxCheckouts, None

VARIABLES copts,      \* the options
          before,     \* the destination before the first checkout
          dest,       \* path -> [kind, content, linked, mode]
          todo,       \* the steps that are left: <<step, path>>
          unpacked,   \* the path whose object was just put into the cache, or None
          existed,    \* directories that this checkout did not make
          ucache,     \* objects in uncompressed-objects-cache
          devino,     \* the (device, inode) cache: path -> object
          result,     \* of the checkout: "runs", "ok", "error", "interrupted"
          tries       \* checkouts started

checkoutVars == <<copts, before, dest, todo, unpacked, existed, ucache, devino, result, tries>>

\* special: "zero" (empty), "unreadable" (no user read bit), "whiteout" and
\* "opaque" (.wh. names), "quoted" (an .ostree-wh. name), or "plain".
Special(p) == TreeFiles[p].special
Target(p) == TreeFiles[p].target     \* what a whiteout is about
IsLink(p) == TreeFiles[p].kind = "link"

Below(p) == {q \in DOMAIN dest : IsPrefix(p, q)}
Without(d, ps) == Restrict(d, DOMAIN d \ ps)
Laid(d, p, node) == [q \in DOMAIN d \cup {p} |-> IF q = p THEN node ELSE d[q]]
Node(p, linked) == [kind |-> TreeFiles[p].kind, content |-> TreeFiles[p].obj, linked |-> linked,
                    mode |-> "final"]
Other(k) == [kind |-> k, content |-> "other", linked |-> FALSE, mode |-> "final"]

\* checkout_tree_at_recurse: the directory, its files, its subdirectories, and
\* the directory again.
RECURSIVE Visit(_)
Visit(d) ==
  LET sub(names) == [i \in 1..Len(names) |-> Append(d, names[i])]
  IN  <<<<"mkdir", d>>>>
      \o [i \in 1..Len(TreeDirs[d].files) |-> <<"file", sub(TreeDirs[d].files)[i]>>]
      \o FlattenSeq([i \in 1..Len(TreeDirs[d].dirs) |-> Visit(sub(TreeDirs[d].dirs)[i])])
      \o <<<<"chmod", d>>>>

\* canonicalize_options; union-identical is only for hard links, and a copy is
\* not both asked for and ruled out.
canonicalize_options(o) == IF o.repo = "bare-user-only" THEN [o EXCEPT !.user = TRUE] ELSE o
OptionsOK(o) == (o.over = "identical" => o.nofallback) /\ ~(o.force /\ o.nofallback)

CheckoutInit ==
  /\ copts \in {canonicalize_options(o) : o \in {x \in Options : OptionsOK(x)}}
  /\ \/ before = [q \in {} |-> None]
     \/ \E ps \in SUBSET DOMAIN Clutter, k \in {"file", "dir"} :
          /\ \A p \in ps : k \in Clutter[p]
          /\ LET inside == IF k = "dir" THEN {Append(p, "in") : p \in ps} ELSE {}
             IN  before = [q \in {<<>>} \cup ps \cup inside |->
                            IF q = <<>> THEN Other("dir") ELSE IF q \in ps THEN Other(k) ELSE Other("file")]
  /\ dest = before
  /\ todo = Visit(<<>>) /\ unpacked = None /\ existed = {}
  /\ ucache = {} /\ devino = [x \in {} |-> None]
  /\ result = "runs" /\ tries = 1

-----------------------------------------------------------------------------
Ends(r) == result' = r /\ UNCHANGED <<copts, before, dest, todo, unpacked, existed, ucache, devino, tries>>
Errs == Ends("error")
\* The current step is done, with the destination d.
Goes(d) == dest' = d /\ todo' = Tail(todo) /\ unpacked' = None
           /\ UNCHANGED <<copts, before, existed, ucache, result, tries>>
Quiet(d) == Goes(d) /\ UNCHANGED devino

Filtered(p) == p \in copts.skip
OpaqueDir(p) == copts.whiteouts /\ \E i \in 1..Len(TreeDirs[p].files) :
                                      Special(Append(p, TreeDirs[p].files[i])) = "opaque"

\* The first part of checkout_tree_at_recurse: clear the way, make the
\* directory with mode 0700.  One that was there is kept as it is.
MakeDir(p) ==
  LET cleared ==
        IF OpaqueDir(p) THEN Without(dest, Below(p))
        ELSE IF copts.whiteouts /\ copts.over = "union" /\ p \in DOMAIN dest /\ dest[p].kind # "dir"
        THEN Without(dest, Below(p)) ELSE dest
      rest == SelectSeq(Tail(todo), LAMBDA s : ~IsPrefix(p, s[2]))
  IN  \/ Filtered(p) /\ todo' = rest
         /\ UNCHANGED <<copts, before, dest, unpacked, existed, ucache, devino, result, tries>>
      \/ /\ ~Filtered(p) /\ p \notin DOMAIN cleared
         /\ Quiet(Laid(cleared, p, [Other("dir") EXCEPT !.content = "tree", !.mode = "0700"]))
      \/ /\ ~Filtered(p) /\ p \in DOMAIN cleared
         /\ IF copts.over = "none" \/ cleared[p].kind # "dir" THEN Errs
            ELSE /\ existed' = existed \cup {p} /\ todo' = Tail(todo) /\ dest' = cleared
                 /\ UNCHANGED <<copts, before, unpacked, ucache, devino, result, tries>>

\* Its last part: the final mode, owner and time, unless it was there.
FinishDir(p) ==
  Quiet(IF p \in existed THEN dest ELSE Laid(dest, p, [dest[p] EXCEPT !.mode = "final"]))

-----------------------------------------------------------------------------
(* checkout_file_hardlink: what linkat() may come to when the source is    *)
(* there or not.  The results are [kind, dest].                            *)

Same(p) == dest[p].kind = TreeFiles[p].kind /\ dest[p].content = TreeFiles[p].obj
Linked(d, p) == [kind |-> "linked", dest |-> Laid(d, p, Node(p, TRUE))]
Kind(k) == [kind |-> k, dest |-> dest]

\* With union-files, what is the same is not looked for, and what is there is
\* kept.
MutHardlink(p, there, noent) ==
  IF ~there THEN {Kind(IF noent THEN "unsupported" ELSE "error")}
  ELSE IF p \notin DOMAIN dest THEN {Linked(dest, p)}
  ELSE {Kind(IF copts.over = "none" THEN "error" ELSE "skipped")}

\* add-files is treated as union-files.
MutReplaces(p, there, noent) ==
  IF ~there THEN {Kind(IF noent THEN "unsupported" ELSE "error")}
  ELSE IF p \notin DOMAIN dest \/ copts.over \in {"add", "union"} THEN {Linked(dest, p)}
  ELSE {Kind(IF Same(p) THEN "skipped" ELSE "error")}

checkout_file_hardlink(p, there, noent) ==
  IF ~there THEN {Kind(IF noent THEN "unsupported" ELSE "error")}
  ELSE IF p \notin DOMAIN dest
  THEN {Linked(dest, p), Kind(IF copts.nofallback THEN "error" ELSE "unsupported")}  \* EMLINK...
  ELSE IF copts.over = "none" THEN {Kind("error")}
  ELSE IF copts.over = "add" \/ Same(p) THEN {Kind("skipped")}
  ELSE IF copts.over = "identical" THEN {Kind("error")}
  ELSE IF copts.whiteouts THEN {Linked(Without(dest, Below(p)), p)}
  ELSE IF dest[p].kind = "dir" THEN {Kind("error")}
  ELSE {Linked(dest, p)}

-----------------------------------------------------------------------------
(* create_file_copy_from_input_at                                          *)

CopySymlink(p) ==
  LET node == Node(p, FALSE)
  IN  IF p \notin DOMAIN dest THEN Quiet(Laid(dest, p, node))
      ELSE CASE copts.over = "none" -> Errs
             [] copts.over = "add" -> Quiet(dest)
             [] copts.over = "identical" -> IF Same(p) THEN Quiet(dest) ELSE Errs
             [] copts.over = "union" ->
                  IF copts.whiteouts THEN Quiet(Laid(Without(dest, Below(p)), p, node))
                  ELSE IF dest[p].kind = "dir" THEN Errs ELSE Quiet(Laid(dest, p, node))

CopyRegular(p) ==
  LET node == Node(p, FALSE)
  IN  IF p \notin DOMAIN dest THEN Quiet(Laid(dest, p, node))
      ELSE CASE copts.over = "none" -> Errs
             [] copts.over = "add" -> Quiet(dest)
             [] copts.over = "identical" -> IF Same(p) THEN Quiet(dest) ELSE Errs
             [] copts.over = "union" ->
                  IF copts.whiteouts THEN Quiet(Laid(Without(dest, Below(p)), p, node))
                  ELSE IF dest[p].kind = "dir" THEN Errs ELSE Quiet(Laid(dest, p, node))

\* _checkout_overlayfs_whiteout_at: a character device under the real name.
\* union-identical compares attributes, owner and permissions, which the model
\* leaves open, and not what kind of file is there.
OverlayWhiteout(p) ==
  LET t == Target(p)
      node == [Node(p, FALSE) EXCEPT !.kind = "chr"]
  IN  IF t \notin DOMAIN dest THEN Quiet(Laid(dest, t, node))
      ELSE CASE copts.over = "none" -> Errs
             [] copts.over = "add" -> Quiet(dest)
             [] copts.over = "identical" -> Quiet(dest) \/ Errs
             [] copts.over = "union" ->
                  IF dest[t].kind = "dir" THEN Errs ELSE Quiet(Laid(dest, t, node))

-----------------------------------------------------------------------------
(* checkout_one_file_at: the repository and its parent in turn.            *)

UserMode(m) == m \in {"bare-user", "bare-user-only"}
\* A link is as good as a copy whatever the modes are.
MutIsHardlinkable(m) == m # "archive"
IsHardlinkable(m) == (m = "bare" /\ ~copts.user) \/ (UserMode(m) /\ copts.user)
ArchiveWithCache(m) == m = "archive" /\ copts.user /\ copts.ucache

InRepo(r, p) == (copts.parent # None /\ TreeFiles[p].obj \in InParent) = (r = "parent")
Source(r, m, p) == IF m = "archive" THEN r = "main" /\ TreeFiles[p].obj \in ucache ELSE InRepo(r, p)

\* Nothing is said against a mode that does not allow links.
MutTry(r, m, p) ==
  IF (IsHardlinkable(m) /\ ~(UserMode(m) /\ IsLink(p))) \/ ArchiveWithCache(m)
  THEN checkout_file_hardlink(p, Source(r, m, p), TRUE)
  ELSE {Kind("unsupported")}

\* One turn of the loop over the repository and its parents.
Try(r, m, p) ==
  IF copts.nofallback /\ ~IsHardlinkable(m) /\ ~(UserMode(m) /\ IsLink(p)) THEN {Kind("error")}
  ELSE IF (IsHardlinkable(m) /\ ~(UserMode(m) /\ IsLink(p))) \/ ArchiveWithCache(m)
  THEN checkout_file_hardlink(p, Source(r, m, p), TRUE)
  ELSE {Kind("unsupported")}
TryAll(p) ==
  LET first == Try("main", copts.repo, p)
  IN  IF copts.parent = None THEN first
      ELSE {x \in first : x.kind # "unsupported"}
           \cup (IF \E x \in first : x.kind = "unsupported" THEN Try("parent", copts.parent, p) ELSE {})

ForcesCopy(p) == Special(p) = "zero" \/ (Special(p) = "unreadable" /\ copts.user)

\* What the loop leaves behind: the mode of the last repository it looked at.
is_bare_user_symlink(p) ==
  /\ ~ForcesCopy(p) /\ ~copts.force
  /\ IsLink(p) /\ UserMode(IF copts.parent = None THEN copts.repo ELSE copts.parent)

\* "assertion is intended to ensure that for regular files at least, we
\* succeeded at hardlinking above"
CopyAllowed(p) == copts.nofallback => is_bare_user_symlink(p) \/ ForcesCopy(p)
Copy(p) == IF ~CopyAllowed(p) THEN Ends("aborted")
           ELSE IF IsLink(p) THEN CopySymlink(p) ELSE CopyRegular(p)

\* Unpack into the cache of uncompressed objects first.
UsesCache(p) == copts.ucache /\ ~IsLink(p) /\ ~ForcesCopy(p) /\ copts.repo = "archive" /\ copts.user

Took(x, p) ==
  /\ Goes(x.dest)
  /\ devino' = IF x.kind = "linked" THEN [q \in DOMAIN devino \cup {p} |->
                                            IF q = p THEN TreeFiles[p].obj ELSE devino[q]]
               ELSE devino

\* checkout_object_for_uncompressed_cache
Unpack(p) ==
  /\ unpacked' = p /\ ucache' = ucache \cup {TreeFiles[p].obj}
  /\ UNCHANGED <<copts, before, dest, todo, existed, devino, result, tries>>

Whiteout(p) == copts.whiteouts /\ ~IsLink(p) /\ Special(p) \in {"whiteout", "opaque"}
Quoted(p) == copts.passthrough /\ ~IsLink(p) /\ Special(p) = "quoted"

\* Only the name itself goes.
MutRemoveHidden(p) == Quiet(Without(dest, {Target(p)}))
RemoveHidden(p) == Quiet(Without(dest, Below(Target(p))))

checkout_one_file_at(p) ==
  \/ Filtered(p) /\ Quiet(dest)
  \/ ~Filtered(p) /\ Whiteout(p) /\ RemoveHidden(p)
  \/ ~Filtered(p) /\ ~Whiteout(p) /\ Quoted(p) /\ OverlayWhiteout(p)
  \/ /\ ~Filtered(p) /\ ~Whiteout(p) /\ ~Quoted(p)
     /\ \E x \in IF ForcesCopy(p) \/ copts.force THEN {Kind("unsupported")} ELSE TryAll(p) :
          \/ x.kind = "error" /\ Errs
          \/ x.kind \in {"linked", "skipped"} /\ Took(x, p)
          \/ x.kind = "unsupported" /\ UsesCache(p) /\ Unpack(p)
          \/ x.kind = "unsupported" /\ ~UsesCache(p) /\ Copy(p)

\* The link to the object just unpacked; it must still be there.
LinkUnpacked(p) ==
  \E x \in checkout_file_hardlink(p, TreeFiles[p].obj \in ucache, FALSE) :
    \/ x.kind = "error" /\ Errs
    \/ x.kind \in {"linked", "skipped"} /\ Took([x EXCEPT !.kind = "skipped"], p)
    \/ x.kind = "unsupported" /\ Copy(p)

CheckoutStep ==
  /\ result = "runs" /\ todo # <<>>
  /\ LET op == Head(todo)[1]  p == Head(todo)[2]
     IN  \/ op = "mkdir" /\ MakeDir(p)
         \/ op = "file" /\ unpacked = None /\ checkout_one_file_at(p)
         \/ op = "file" /\ unpacked # None /\ LinkUnpacked(p)
         \/ op = "chmod" /\ FinishDir(p)

Complete == result = "runs" /\ todo = <<>> /\ Ends("ok")

\* ostree_repo_checkout_gc of another process: what has no other link.
ostree_repo_checkout_gc ==
  /\ result = "runs" /\ unpacked # None
  /\ ucache' = {o \in ucache : \E p \in DOMAIN dest : dest[p].linked /\ dest[p].content = o}
  /\ UNCHANGED <<copts, before, dest, todo, unpacked, existed, devino, result, tries>>

\* The process dies, and the caller checks the tree out again.
Interrupt == result = "runs" /\ tries < MaxCheckouts /\ Ends("interrupted")
Again ==
  /\ result = "interrupted"
  /\ todo' = Visit(<<>>) /\ unpacked' = None /\ existed' = {}
  /\ devino' = [x \in {} |-> None] /\ result' = "runs" /\ tries' = tries + 1
  /\ UNCHANGED <<copts, before, dest, ucache>>

CheckoutNext == CheckoutStep \/ Complete \/ ostree_repo_checkout_gc \/ Interrupt \/ Again

-----------------------------------------------------------------------------
Wanted == {p \in DOMAIN TreeFiles : /\ ~Whiteout(p) /\ ~Quoted(p)
                                    /\ \A q \in copts.skip : ~IsPrefix(q, p)}

\* A checkout that succeeded has laid out every file of the tree, with its own
\* content; add-files alone may have kept what was there.  Links, cache,
\* copies, interruptions and what was in the way make no difference.
CheckoutComplete ==
  result = "ok" =>
    \A p \in Wanted :
      /\ p \in DOMAIN dest
      /\ dest[p].content = TreeFiles[p].obj
           \/ (copts.over = "add" /\ p \in DOMAIN before /\ dest[p] = before[p])

\* Its overlayfs whiteouts are there too; add-files and union-identical may have
\* kept what had the name.
WhiteoutsMade ==
  result = "ok" =>
    \A p \in DOMAIN TreeFiles :
      Quoted(p) /\ ~Whiteout(p) /\ (\A q \in copts.skip : ~IsPrefix(q, p)) =>
        /\ Target(p) \in DOMAIN dest
        /\ dest[Target(p)].kind = "chr"
             \/ (copts.over \in {"add", "identical"} /\ Target(p) \in DOMAIN before)

\* Without whiteouts, only union-files replaces a file that was there, and no
\* mode removes one or turns a directory into a file.
ClutterKept ==
  ~copts.whiteouts =>
    \A p \in DOMAIN before :
      /\ p \in DOMAIN dest
      /\ before[p].kind = "dir" => dest[p].kind = "dir"
      /\ copts.over # "union" => dest[p] = before[p]

\* A whiteout hides what lower layers put there, with everything below it.
HiddenGone ==
  result = "ok" /\ copts.whiteouts =>
    \A p \in DOMAIN TreeFiles :
      Special(p) = "whiteout" /\ ~IsLink(p) /\ p \notin copts.skip /\ Front(p) \notin copts.skip =>
        \A q \in DOMAIN dest : IsPrefix(Target(p), q) => dest[q].content # "other"

\* A hard link shares the object's owner, mode and attributes: it is made only
\* where that is what the checkout mode asks for, so a user checkout never
\* holds a link to a bare repository's object nor the other way round.
LinksMatchMode ==
  \A p \in DOMAIN dest :
    dest[p].linked =>
      \/ TreeFiles[p].obj \in ucache /\ copts.user
      \/ (IF InRepo("parent", p) THEN copts.parent ELSE copts.repo)
           \in (IF copts.user THEN {"bare-user", "bare-user-only"} ELSE {"bare"})

\* No assertion fails: with no_copy_fallback nothing but symbolic links and
\* special files is ever copied.
NoAbort == result # "aborted"

\* "Create initially with mode 0700, then chown/chmod only when we're done":
\* when a checkout is done, no directory has the provisional mode.
DirModesFinal == result = "ok" => \A p \in DOMAIN dest : dest[p].mode = "final"

(* A checkout lays out the whole tree and replaces, hides, keeps and links *)
(* what its options say, interrupted, repeated or next to a collection of  *)
(* the cache.                                                              *)
CheckoutFaithful ==
  /\ CheckoutComplete
  /\ WhiteoutsMade
  /\ ClutterKept
  /\ HiddenGone
  /\ LinksMatchMode
  /\ NoAbort
=============================================================================
