------------------------------- MODULE MCRepo -------------------------------
(***************************************************************************)
(* Instance for TLC of the modules that write objects and trees into a     *)
(* repository and out of it, and of static deltas. `part`, fixed in the    *)
(* initial state, says which one runs; the variables of the others are None. *)
(***************************************************************************)
EXTENDS Integers, Sequences, FiniteSets, SequencesExt, TLC

CONSTANTS None, Parts, FilterChanges

VARIABLES part,
          tmp, actor,
          dest, disk, links, tombs, budget, index, writer, ended,
          mtree, dirtrees, ops,
          conf, source, inodes, objs, recorded, stack, path, asked, walk,
          copts, before, codest, todo, unpacked, existed, ucache, devino, result, tries,
          ijob, archive, itree, deferred, toexport, istatus,
          job, plan, bld, tgt, exe,
          dirs, dindex, indexed, dproc, dclock, dpast

stagingVars == <<tmp, actor>>
writeVars == <<dest, disk, links, tombs, budget, index, writer, ended>>
mtreeVars == <<mtree, dirtrees, ops>>
treeVars == <<conf, source, inodes, objs, recorded, stack, path, asked, walk>>
checkoutVars == <<copts, before, codest, todo, unpacked, existed, ucache, devino, result, tries>>
archiveVars == <<ijob, archive, itree, deferred, toexport, istatus>>
applyVars == <<job, plan, bld, tgt, exe>>
storeVars == <<dirs, dindex, indexed, dproc, dclock, dpast>>
vars == <<part, stagingVars,
          writeVars,
          mtreeVars,
          treeVars,
          checkoutVars,
          archiveVars,
          applyVars,
          storeVars>>

-----------------------------------------------------------------------------


G == INSTANCE Staging WITH Actors <- {"a1", "a2"}, StageDirs <- {"d1", "o1"}, OldDirs <- {"o1"}

-----------------------------------------------------------------------------
Req(k, d, e) == [kind |-> k, data |-> d, expect |-> e, fd |-> FALSE, short |-> FALSE,
                 trusted |-> FALSE, from |-> "bare", sameOwner |-> TRUE]

\* Every kind of write, good, mismatched and cut short; o1 and o2 have the same
\* payload, o3 is a symbolic link.
WriteRequests == {
  Req("content", "o1", None), [Req("content", "o1", "o1") EXCEPT !.fd = TRUE],
  Req("content", "o2", None), Req("content", "o2", "o1"),
  Req("content", "o3", None), [Req("content", "o3", None) EXCEPT !.short = TRUE],
  Req("bare", "o1", "o1"), Req("bare", "o2", "o1"), Req("adopt", "o2", None),
  Req("meta", "commit", "commit"), Req("meta", "tree", "commit"), Req("meta", "tree", "tree"),
  Req("import", "o1", "o1"), Req("import", "o2", "o1"),
  [Req("import", "o2", "o1") EXCEPT !.from = "archive"],
  [Req("import", "o3", "o3") EXCEPT !.from = "bare-user", !.trusted = TRUE],
  [Req("import", "tree", "commit") EXCEPT !.sameOwner = FALSE]}

Dest(m, s, r) == [mode |-> m, space |-> s, reflinks |-> r, sizes |-> FALSE, present |-> {}]
WriteRepos == {Dest("bare", 3, FALSE), [Dest("bare-user", 2, FALSE) EXCEPT !.present = {"o1"}],
               [Dest("bare", 3, TRUE) EXCEPT !.present = {"o2"}],
               [Dest("bare-user-only", None, FALSE) EXCEPT !.present = {"tree"}],
               [Dest("archive", None, FALSE) EXCEPT !.sizes = TRUE, !.present = {"tree"}]}

W == INSTANCE ObjectWrite WITH Threads <- {"t1", "t2"}, Objects <- {"o1", "o2", "o3"}, Metadata <- {"commit", "tree"},
       Payload <- [o1 |-> "p", o2 |-> "p", o3 |-> "q"], Size <- [o1 |-> 2, o2 |-> 2, o3 |-> 1],
       Symlinks <- {"o3"}, OddModes <- {"o2"}, Requests <- WriteRequests, Repos <- WriteRepos,
       BlockSize <- 2, MaxWrites <- [t1 |-> 2, t2 |-> 1]

-----------------------------------------------------------------------------
\* Dirtrees of the repository: an empty one, a directory of one file, one
\* with that as a subdirectory, and one whose object is lost.
TreeA == [files |-> [x \in {"a"} |-> "f"], dirs |-> [x \in {} |-> None]]
TreeB == [files |-> [x \in {} |-> None], dirs |-> [x \in {"b"} |-> [tree |-> TreeA, meta |-> "m"]]]
TreeE == [files |-> [x \in {} |-> None], dirs |-> [x \in {} |-> None]]
TreeL == [files |-> [x \in {"b"} |-> "f"], dirs |-> [x \in {} |-> None]]

T == INSTANCE MutableTree WITH Nodes <- 1..4, Top <- 1, Names <- {"a", "b"}, FileSums <- {"f"}, DirMetas <- {"m", "n"}, StoredTrees <- {TreeA, TreeB, TreeE, TreeL}, LostTrees <- {TreeL}, MaxOps <- 3, CommitMeta <- "m", Paths <- {<<"a", "b">>, <<"b", "a">>}

-----------------------------------------------------------------------------
\* A source with two files in a subdirectory, one of them a hard link to an
\* object, and a set-uid file, a symbolic link and perhaps a fifo at the top.
Source == [e \in {"/", "d", "f", "s", "g", "l", "p"} |->
  [parent |-> IF e \in {"f", "s"} THEN "d" ELSE "/",
   kind |-> CASE e = "/" -> "top" [] e = "d" -> "dir" [] e = "l" -> "link" [] e = "p" -> "fifo"
              [] OTHER -> "file",
   ino |-> CASE e = "f" -> "i1" [] e = "g" -> "i2" [] e = "s" -> "i3" [] OTHER -> "i0"]]
SourceInodes ==
  [i \in {"i0", "i1", "i2", "i3"} |->
    [data |-> i, perms |-> IF i = "i2" THEN "suid" ELSE "plain",
     xattrs |-> IF i = "i2" THEN {"selinux"} ELSE {}]]
ModifierFlags ==
  {{}, {"modifier", "consume"}, {"modifier", "filter", "consume"}, {"modifier", "canonical", "consume"},
   {"modifier", "filter", "devino-canonical", "consume"}, {"modifier", "sepolicy", "skip-xattrs"},
   {"modifier", "filter", "sepolicy"}, {"modifier", "sepolicy", "error-on-unlabeled"}}
CommitConfigs ==
  {[mode |-> m, flags |-> f, via |-> v, cached |-> c, odd |-> o] :
     m \in {"bare", "bare-user", "bare-user-only", "archive"}, f \in ModifierFlags,
     v \in {"dfd", "gfile"}, c \in BOOLEAN, o \in BOOLEAN}

C == INSTANCE TreeCommit WITH Entries <- Source, DiskInodes <- SourceInodes, Hardlinked <- {"i1"},
       UserMeta <- [i \in {"i1"} |-> [data |-> "i1", perms |-> "suid", xattrs |-> {"selinux"}]],
       Skipped <- {"s", "p"}, Changed <- FilterChanges, Labels <- {"/", "d", "g"}, Configs <- CommitConfigs

-----------------------------------------------------------------------------
\* A tree with whiteouts, a file of each kind, and a subdirectory.
TFile(o, k, s, t) == [obj |-> o, kind |-> k, special |-> s, target |-> t]
CheckoutDirs ==
  [p \in {<<>>, <<"d">>} |->
    IF p = <<>> THEN [files |-> <<".wh.x", ".ostree-wh.y", "f", "l", "z">>, dirs |-> <<"d">>]
    ELSE [files |-> <<".wh..wh..opq", "g", "u">>, dirs |-> <<>>]]
CheckoutFiles ==
  [p \in {<<".wh.x">>, <<".ostree-wh.y">>, <<"f">>, <<"l">>, <<"z">>, <<"d", ".wh..wh..opq">>, <<"d", "g">>, <<"d", "u">>} |->
    CASE p = <<".wh.x">> -> TFile("o1", "file", "whiteout", <<"x">>)
      [] p = <<".ostree-wh.y">> -> TFile("o2", "file", "quoted", <<"y">>)
      [] p = <<"d", ".wh..wh..opq">> -> TFile("o3", "file", "opaque", <<"d", ".wh..opq">>)
      [] p = <<"l">> -> TFile("o4", "link", "plain", None)
      [] p = <<"z">> -> TFile("o5", "file", "zero", None)
      [] p = <<"f">> -> TFile("o6", "file", "plain", None)
      [] p = <<"d", "u">> -> TFile("o8", "file", "unreadable", None)
      [] OTHER -> TFile("o7", "file", "plain", None)]
CheckoutOptions ==
  {[repo |-> m, parent |-> q, user |-> u, over |-> v, force |-> c = "force", nofallback |-> c = "link",
    whiteouts |-> w = "docker", passthrough |-> w = "overlay", ucache |-> m = "archive" /\ c = "cache",
    skip |-> IF w = "none" /\ c = "force" THEN {<<"d">>} ELSE {}] :
     m \in {"bare", "bare-user", "archive"}, q \in {"bare"}, u \in BOOLEAN,
     v \in {"none", "union", "add", "identical"}, c \in {"plain", "link", "force", "cache"},
     w \in {"none", "docker", "overlay"}}
  \cup {[repo |-> m, parent |-> q, user |-> u, over |-> v, force |-> FALSE, nofallback |-> TRUE, whiteouts |-> FALSE,
         passthrough |-> FALSE, ucache |-> FALSE, skip |-> {}] :
         m \in {"bare", "bare-user"}, q \in {None, "bare-user"}, u \in BOOLEAN, v \in {"union", "identical"}}
  \cup {[repo |-> "bare-user-only", parent |-> None, user |-> FALSE, over |-> v, force |-> FALSE,
         nofallback |-> FALSE, whiteouts |-> FALSE, passthrough |-> FALSE, ucache |-> FALSE, skip |-> {}] :
         v \in {"none", "union"}}

H == INSTANCE Checkout WITH TreeDirs <- CheckoutDirs, TreeFiles <- CheckoutFiles, InParent <- {"o7"},
       Clutter <- (<<"x">> :> {"dir"} @@ <<"f">> :> {"file", "dir"} @@ <<"d">> :> {"file", "dir"} @@ <<"y">> :> {"file"}), Options <- CheckoutOptions, MaxCheckouts <- 2, dest <- codest

-----------------------------------------------------------------------------
\* Names a, b, etc/c and etc/e/f: a file, links to it with and without contents
\* (of one inode, thus the same), directories described before, after or not at all.
LinkTo(p, v) == [path |-> p, type |-> "file", v |-> v, link |-> <<"a">>]
Listed(p, type, v) == [path |-> p, type |-> type, v |-> v, link |-> None]
ArchiveEntries ==
  {Listed(<<>>, "dir", "m0"), Listed(<<"etc">>, "dir", "m1"), Listed(<<"etc", "e", "f">>, "file", "y"),
   Listed(<<"z">>, "other", "x"),
   Listed(<<"a">>, "file", "x"), Listed(<<"a">>, "file", "empty"), Listed(<<"a">>, "symlink", "symlink"),
   LinkTo(<<"b">>, "x"), LinkTo(<<"b">>, "empty"), LinkTo(<<"etc", "c">>, "x"), LinkTo(<<"etc", "c">>, "empty")}
ArchiveSets ==
  {es \in UNION {kSubset(k, ArchiveEntries) : k \in 1 .. 4} :
     /\ \A e, f \in es : e.path = f.path => e = f
     /\ (\E e \in es : e.link # None) => \E e \in es : e.path = <<"a">>
     /\ (\E e \in es : e.type = "symlink") => \A e \in es : e.link # None => e.v = "empty"}
ArchiveJob(a, t, auto, conv, skip) ==
  [archive |-> a, tree |-> t, autocreate |-> auto, convention |-> conv, ignore |-> auto, skip |-> skip]
ArchiveTrees ==
  {[p \in {<<>>, <<"d">>, <<"a">>, <<"d", "b">>, <<"d", "c">>} |->
      IF p = <<>> THEN [dir |-> TRUE, v |-> "m0"] ELSE IF p = <<"d">> THEN [dir |-> TRUE, v |-> "m1"]
      ELSE [dir |-> FALSE, v |-> f[Last(p)]]] : f \in [{"a", "b", "c"} -> {"x", "y", "empty", "symlink"}]}
ArchiveJobs ==
  UNION {{ArchiveJob(a, None, auto, auto, {}) : a \in SetToSeqs(es), auto \in BOOLEAN} : es \in ArchiveSets}
  \cup {ArchiveJob(a, None, FALSE, FALSE, {<<"b">>}) :
          a \in {<<Listed(<<>>, "dir", "m0"), Listed(<<"a">>, "file", "x"), LinkTo(<<"b">>, "empty")>>}}
  \cup {ArchiveJob(<<>>, t, auto, FALSE, {}) : t \in ArchiveTrees, auto \in BOOLEAN}

R == INSTANCE ArchiveImport WITH ImportJobs <- ArchiveJobs, Sized <- {"x", "y"}, mtree <- itree

-----------------------------------------------------------------------------
DObj(k, d, m, x, n, r) == [kind |-> k, data |-> d, mode |-> m, xattrs |-> x, names |-> n, readable |-> r]

\* The old commit c1 has x1 and y1 where the new one, c2, has x2 and y2; both have k.
DeltaObjects(x2, y2, yn, rd) ==
  [o \in {"c1", "t1", "x1", "y1", "k", "c2", "t2", "x2", "y2", "l2"} |->
     CASE o \in {"c1", "t1"} -> DObj("meta", <<"m">>, "", "", {}, TRUE)
       [] o = "c2" -> DObj("meta", <<"n", "n">>, "", "", {}, TRUE)
       [] o = "t2" -> DObj("meta", <<"t", "a">>, "", "", {}, TRUE)
       [] o = "x1" -> DObj("reg", <<"a", "s", "b", "a", "s">>, "m1", "e", {<<"x", "">>}, rd)
       [] o = "y1" -> DObj("reg", <<"b", "b", "b">>, "m1", "e", {<<"y", "so">>}, TRUE)
       [] o = "k" -> DObj("reg", <<"a">>, "m1", "e", {<<"k", IF rd THEN "" ELSE "xz">>}, TRUE)
       [] o = "x2" -> DObj("reg", x2, "m1", "e", {<<"x", "">>}, TRUE)
       [] o = "y2" -> DObj("reg", y2, "m2", "e", {yn}, TRUE)
       [] o = "l2" -> DObj("lnk", <<"a", "b">>, "m3", "e", {<<"l", "">>}, TRUE)]

DeltaJob(obj, from, bs, fb, chunk) ==
  [obj |-> obj, from |-> from, to |-> {"c2", "t2", "x2", "y2", "l2", "k"}, fromCommit |-> "c1", commit |-> "c2",
   bsdiff |-> bs # 0, maxBsdiff |-> bs, minFallback |-> fb, maxChunk |-> chunk]

OldObjects == {"c1", "t1", "x1", "y1", "k"}
NewX == {<<"a", "s", "b", "a", "s">> \o <<"b">>, <<"a", "s", "a", "s">>, <<"b", "b", "a", "s">>, <<"a", "s", "b", "b", "a", "s">>}
NewY == {<<"b", "b", "b", "a">>, <<"b", "b">>, <<>>}

DeltaJobs ==
  {DeltaJob(DeltaObjects(x, y, n, r), OldObjects, bs, 0, 30)
     : x \in NewX, y \in NewY, n \in {<<"y", "so">>, <<"y", "b">>, <<"z", "xz">>}, r \in BOOLEAN, bs \in {0, 8, 40}}
  \cup {DeltaJob(DeltaObjects(x, <<"b", "b">>, <<"y", "so">>, TRUE), from, 40, fb, chunk)
          : x \in NewX, from \in {OldObjects, {}}, fb \in {0, 3}, chunk \in {7, 12, 30}}

\* Offline everywhere, the threads of a pull for the deltas of two or three parts.
DeltaTargets(j) ==
  [bare : BOOLEAN, how : {"offline"}, skip : BOOLEAN, missing : {{}}, extra : {{}}]
  \cup [bare : {TRUE}, how : {"offline"}, skip : {FALSE}, missing : {{}, {"x1"}, {"c1"}}, extra : {{}, {"x2"}, {"t2", "y2"}}]
  \cup IF j.maxChunk = 12 THEN [bare : {TRUE}, how : {"pull"}, skip : {FALSE}, missing : {{}}, extra : {{}, {"x2"}}] ELSE {}

A == INSTANCE DeltaApply WITH VarBase <- 4, BlobMax <- 3, Splits <- {"s"}, Jobs <- DeltaJobs, Targets <- DeltaTargets

-----------------------------------------------------------------------------
DeltaStyles == {[n |-> 2, inline |-> FALSE, sign |-> {}], [n |-> 1, inline |-> FALSE, sign |-> {"k1"}], [n |-> 1, inline |-> TRUE, sign |-> {}]}

S == INSTANCE DeltaStore WITH Procs <- {"p", "q"}, Deltas <- {"d1", "d2"}, ToCommit <- [d1 |-> "B", d2 |-> "B"], OldIndexes <- {"C"}, Styles <- DeltaStyles, MaxOps <- 3, MaxGen <- 2, index <- dindex

-----------------------------------------------------------------------------
NoStaging == tmp = None /\ actor = None
NoWrite == dest = None /\ disk = None /\ links = None /\ tombs = None /\ budget = None /\ index = None /\ writer = None /\ ended = None
NoMtree == mtree = None /\ dirtrees = None /\ ops = None
NoTree == conf = None /\ source = None /\ inodes = None /\ objs = None /\ recorded = None /\ stack = None /\ path = None /\ asked = None /\ walk = None
NoCheckout == copts = None /\ before = None /\ codest = None /\ todo = None /\ unpacked = None /\ existed = None /\ ucache = None /\ devino = None /\ result = None /\ tries = None
NoArchive == ijob = None /\ archive = None /\ itree = None /\ deferred = None /\ toexport = None /\ istatus = None
NoApply == job = None /\ plan = None /\ bld = None /\ tgt = None /\ exe = None
NoStore == dirs = None /\ dindex = None /\ indexed = None /\ dproc = None /\ dclock = None /\ dpast = None

Init ==
  /\ part \in Parts
  /\ IF part = "staging" THEN G!StagingInit ELSE NoStaging
  /\ IF part = "write" THEN W!WriteInit ELSE NoWrite
  /\ IF part = "mtree" THEN T!MutableTreeInit ELSE NoMtree
  /\ IF part = "tree" THEN C!TreeCommitInit ELSE NoTree
  /\ IF part = "checkout" THEN H!CheckoutInit ELSE NoCheckout
  /\ IF part = "archive" THEN R!ArchiveInit ELSE NoArchive
  /\ IF part = "apply" THEN A!ApplyInit ELSE NoApply
  /\ IF part = "store" THEN S!StoreInit ELSE NoStore

StagingNext == /\ part = "staging" /\ G!StagingNext
               /\ UNCHANGED <<part, writeVars, mtreeVars, treeVars, checkoutVars, archiveVars, applyVars, storeVars>>
WriteNext == /\ part = "write" /\ W!WriteNext
             /\ UNCHANGED <<part, stagingVars, mtreeVars, treeVars, checkoutVars, archiveVars, applyVars, storeVars>>
MtreeNext == /\ part = "mtree" /\ T!MutableTreeNext
             /\ UNCHANGED <<part, stagingVars, writeVars, treeVars, checkoutVars, archiveVars, applyVars, storeVars>>
TreeNext == /\ part = "tree" /\ C!TreeCommitNext
            /\ UNCHANGED <<part, stagingVars, writeVars, mtreeVars, checkoutVars, archiveVars, applyVars, storeVars>>
CheckoutNext == /\ part = "checkout" /\ H!CheckoutNext
                /\ UNCHANGED <<part, stagingVars, writeVars, mtreeVars, treeVars, archiveVars, applyVars, storeVars>>
ArchiveNext == /\ part = "archive" /\ R!ArchiveNext
               /\ UNCHANGED <<part, stagingVars, writeVars, mtreeVars, treeVars, checkoutVars, applyVars, storeVars>>
ApplyNext == /\ part = "apply" /\ A!ApplyNext
             /\ UNCHANGED <<part, stagingVars, writeVars, mtreeVars, treeVars, checkoutVars, archiveVars, storeVars>>
StoreNext == /\ part = "store" /\ S!StoreNext
             /\ UNCHANGED <<part, stagingVars, writeVars, mtreeVars, treeVars, checkoutVars, archiveVars, applyVars>>

\* The callers have had their say, or the bound on their calls is reached.
Finished == /\ \/ part = "mtree" /\ ops = 3
               \/ part = "tree" /\ walk \in {"done", "failed"}
               \/ part = "checkout" /\ result \in {"ok", "error", "aborted"}
               \/ part = "archive" /\ istatus \in {"done", "failed"}
               \/ part = "apply" /\ tgt.pc \in {"applied", "failed", "refused", "aborted"}
               \/ part = "store" /\ dclock.ops = 3 /\ \A p \in {"p", "q"} : dproc[p].pc = "free"
            /\ UNCHANGED vars

Next == \/ StagingNext
        \/ WriteNext
        \/ MtreeNext
        \/ TreeNext
        \/ CheckoutNext
        \/ ArchiveNext
        \/ ApplyNext
        \/ StoreNext
        \/ Finished

Spec == Init /\ [][Next]_vars

-----------------------------------------------------------------------------
(* A transaction has its staging directory to itself, and it stays.        *)
StagingSafe == part = "staging" => G!StagingSafe
(* Objects are what their names say, what was asked for is stored, and the *)
(* free-space budget covers it.                                            *)
WritesSound == part = "write" => W!WritesSound
(* A metadata write that succeeded has stored the expected object.         *)
ExpectedVerified == part = "write" => W!ExpectedVerified
(* The budget never exceeds what was free at the start.                    *)
BudgetSoundWithReflinks == part = "write" => W!BudgetSoundWithReflinks
(* A cached dirtree checksum is that of what the directory holds now, and  *)
(* names a tree of the repository.                                         *)
ChecksumsCurrent == part = "mtree" => T!ChecksumsCurrent
(* The tree names the objects that the files would have become, and        *)
(* consumed files are stored.                                              *)
RecordedFaithfully == part = "tree" => C!RecordedFaithfully
(* A checkout lays out the whole tree, and replaces and links only what    *)
(* its options say.                                                        *)
CheckoutFaithful == part = "checkout" => H!CheckoutFaithful
(* When a checkout is done no directory has the provisional mode.          *)
DirModesFinal == part = "checkout" => H!DirModesFinal
(* An import has what extracting the archive would give, and undoes an     *)
(* export.                                                                 *)
ArchivesFaithful == part = "archive" => R!ArchivesFaithful
(* A directory that the archive describes has the metadata it says.        *)
DirMetaKept == part = "archive" => R!DirMetaKept
(* A delta runs to its end on the old commit in a bare repository, or from *)
(* nothing in any, and leaves the new one complete.                        *)
DeltaSound == part = "apply" => A!DeltaSound
(* An applied delta leaves the new commit complete, also without           *)
(* validation.                                                             *)
AppliedUnvalidated == part = "apply" => A!AppliedUnvalidated
(* No finished part is larger than the maximum size of a chunk.            *)
PartsWithinChunk == part = "apply" => A!PartsWithinChunk
(* Readers find complete deltas of one generation, and indexing leaves the *)
(* indexes of exactly the deltas there are.                                *)
DeltasConsistent ==
  [][part = "store" => S!DeltasConsistentStep]_vars
=============================================================================
