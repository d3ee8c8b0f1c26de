------------------------------ MODULE MCMaint -------------------------------
(***************************************************************************)
(* Instance for TLC of the modules that keep a repository in order: refs,  *)
(* configuration, checks and clean-up. `part`, fixed in the initial state, *)
(* says which one runs; the variables of the others are None.              *)
(***************************************************************************)
EXTENDS Integers, Sequences, FiniteSets, SequencesExt, TLC

CONSTANTS None, Parts, Handles, Regenerators

VARIABLES part,
          refs, txn, calls,
          sconf, sobj, sstaged, sjob, smade, sblind, smixed, scmds,
          rdisk, creator, handle, rcalls,
          fobjs, fup, fpartial, ftomb, fsckrun, fruns,
          pstore, pheads, prune, pcalls,
          scoll, sref, sdelta, spub, sreg, sops

refsVars == <<refs, txn, calls>>
signVars == <<sconf, sobj, sstaged, sjob, smade, sblind, smixed, scmds>>
configVars == <<rdisk, creator, handle, rcalls>>
fsckVars == <<fobjs, fup, fpartial, ftomb, fsckrun, fruns>>
pruneVars == <<pstore, pheads, prune, pcalls>>
summaryVars == <<scoll, sref, sdelta, spub, sreg, sops>>
vars == <<part, refsVars,
          signVars,
          configVars,
          fsckVars,
          pruneVars,
          summaryVars>>

-----------------------------------------------------------------------------
\* Names of which one is a directory of others, in each kind of space; the remote has
\* the name of a directory of refs/heads.
RefPaths == "heads" :> {<<"a">>, <<"b">>, <<"a", "a">>, <<"a", "b">>} @@ "a" :> {<<>>, <<"a">>, <<"a", "b">>}
            @@ "org.C" :> {<<"a">>, <<"a", "b">>}
\* A parent repository whose own refs are a mirrored collection here.
RefNode(k, v) == [k |-> k, v |-> v, to |-> None]
RefsAbove ==
  [s \in DOMAIN RefPaths |->
     [p \in RefPaths[s] |->
        CASE <<s, p>> \in {<<"heads", <<"a", "b">>>>, <<"org.C", <<"a">>>>} -> RefNode("rev", "c1")
          [] <<s, p>> = <<"a", <<"a">>>> -> RefNode("rev", "c2")
          [] p = <<>> \/ <<s, p>> = <<"heads", <<"a">>>> -> RefNode("dir", None)
          [] OTHER -> RefNode("none", None)]]
RepoAbove == [refs |-> RefsAbove, collection |-> "org.C", remotes |-> ("a" :> "org.C")]

F == INSTANCE Refs WITH SpacePaths <- RefPaths,
       Remotes <- {"a"}, RemoteCollection <- ("a" :> "org.C"), Mirrors <- {"org.C"}, MainCollection <- "org.Main",
       ParentRepo <- RepoAbove,
       Revs <- {"c1", "c2"}, Parent <- ("c1" :> None @@ "c2" :> "c1"), MaxCalls <- 3,
       Pendable <- {<<"heads", <<"a">>, "refs">>, <<"heads", <<"a", "b">>, "refs">>, <<"heads", <<"b">>, "coll">>, <<"org.C", <<"a">>, "coll">>}

-----------------------------------------------------------------------------
\* Key files: the system's with and without revoked keys, and ones that hold more than keys.
Unset == [t \in {"ed25519", "spki"} |-> <<>>]
Unkeyed == [t \in {"ed25519", "spki"} |-> None]
SignConf(tr, rv, ring, g, s, types, file, key) ==
  [dirs |-> [trusted |-> tr, revoked |-> rv], home |-> {"b"},
   gpg |-> [ring |-> ring, global |-> {"a"}, keypath |-> {}, expired |-> {}],
   rc |-> [gpg |-> g, sign |-> s, types |-> types, file |-> file, key |-> key]]
SignSettings ==
  {SignConf(<<None, <<"a", "bad">>, <<"b">>>>, <<<<"b">>>>, None, FALSE, "any", {"ed25519", "spki"}, Unset, Unkeyed),
   SignConf(<<<<"b", "a">>>>, <<<<"junk">>, <<"b", "c">>>>, {"a", "b"}, TRUE, "list", {"ed25519"},
            [Unset EXCEPT !["ed25519"] = <<<<"b">>>>], Unkeyed),
   SignConf(<<>>, <<None>>, {"b"}, TRUE, "list", {"spki"}, Unset, [Unkeyed EXCEPT !["spki"] = "a"])}
SignCommands ==
  {[op |-> "sign", type |-> "ed25519", keys |-> <<"a", "b">>, txn |-> FALSE, del |-> FALSE],
   [op |-> "sign", type |-> "ed25519", keys |-> <<"b", "bad">>, txn |-> TRUE, del |-> FALSE],
   [op |-> "sign", type |-> "spki", keys |-> <<"b">>, txn |-> TRUE, del |-> FALSE],
   [op |-> "gpg_sign", keys |-> <<"a">>, txn |-> FALSE, homedir |-> FALSE],
   [op |-> "gpg_sign", keys |-> <<"b">>, txn |-> TRUE, homedir |-> TRUE],
   [op |-> "gpg_append", keys |-> <<"b">>, txn |-> FALSE],
   [op |-> "gpg_delete", keys |-> <<"a", "b">>, txn |-> FALSE],
   [op |-> "verify", type |-> "ed25519", keys |-> <<"bad", "b">>, file |-> <<>>, txn |-> FALSE],
   [op |-> "verify", type |-> "ed25519", keys |-> <<>>, file |-> <<>>, txn |-> FALSE],
   [op |-> "verify", type |-> "spki", keys |-> <<>>, file |-> <<>>, txn |-> FALSE],
   [op |-> "verify", type |-> "spki", keys |-> <<"a">>, file |-> <<<<"c", "b">>>>, txn |-> FALSE],
   [op |-> "gpg_verify", remote |-> "r", txn |-> FALSE],
   [op |-> "remote_verify", flags |-> {"gpg", "sign"}, txn |-> FALSE],
   [op |-> "remote_verify", flags |-> {"sign"}, txn |-> FALSE]}
SignMeta(e, s, g) == [ed25519 |-> e, spki |-> s, gpg |-> g]

G == INSTANCE Signing WITH Procs <- {"p", "q"}, Commands <- SignCommands, Settings <- SignSettings,
       FirstMetas <- {None, SignMeta(<<>>, <<"x", "b">>, <<"a">>)}, ParentMeta <- SignMeta(<<"x">>, <<>>, <<>>), MaxCommands <- 3, conf <- sconf, obj <- sobj, staged <- sstaged, job <- sjob, made <- smade, blind <- sblind, mixed <- smixed, cmds <- scmds

-----------------------------------------------------------------------------
\* Settings of repo/config.
Setting(f, s, p, q, d) == [mode |-> "bare", fsync |-> f, size |-> s, percent |-> p, parent |-> q, dir |-> d, rem |-> None]
ConfigEdits == {Setting(None, None, None, None, TRUE), Setting(FALSE, 1, None, "p", FALSE), Setting(None, None, 5, None, TRUE),
                Setting(None, None, 100, None, FALSE)}

RC == INSTANCE RepoConfig WITH Creators <- {"x", "y"}, Names <- {"r", "q"}, Urls <- {"u"}, Keys <- {"k"}, Edits <- ConfigEdits, MaxCalls <- 3

-----------------------------------------------------------------------------
\* Two commits that share a directory and its file; the parent of the first is not here.
FKind == "c1" :> "commit" @@ "c2" :> "commit" @@ "t1" :> "dirtree" @@ "t2" :> "dirtree" @@ "ts" :> "dirtree"
         @@ "m" :> "dirmeta" @@ "f1" :> "file" @@ "fs" :> "file"
FKids == "c1" :> {"t1", "m"} @@ "c2" :> {"t2", "m"} @@ "t1" :> {"f1", "ts", "m"} @@ "t2" :> {"ts", "m"}
         @@ "ts" :> {"fs"} @@ "m" :> {} @@ "f1" :> {} @@ "fs" :> {}
FOk == [o \in DOMAIN FKind |-> "ok"]
FDamages == {[FOk EXCEPT ![o] = s, ![p] = t] : o \in DOMAIN FKind, p \in {"fs", "c2"}, s \in {"ok", "bad", "none"}, t \in {"bad", "none", "ok"}} \cup {[FOk EXCEPT !["f1"] = "nolink"]}
FNothing == [o \in DOMAIN FKind |-> "none"]

K == INSTANCE Fsck WITH Archive <- FALSE, Objs <- DOMAIN FKind, Kind <- FKind, Kids <- FKids, ParentCommit <- ("c1" :> "c0" @@ "c2" :> "c1"),
       RefTo <- (<<None, "q">> :> "c1" @@ <<None, "r">> :> "c2" @@ <<"K", "r">> :> "c2"), Bound <- ("c2" :> [coll |-> "K", refs |-> {"r"}]),
       Options <- {{}, {"delete"}, {"all", "verify-back-refs"}, {"add-tombstones", "all", "verify-bindings"}},
       Damages <- FDamages, Shared <- {FNothing, [FNothing EXCEPT !["fs"] = "ok"]}, MaxRuns <- 2, objs <- fobjs, up <- fup, partial <- fpartial, tomb <- ftomb, fsck <- fsckrun, runs <- fruns

-----------------------------------------------------------------------------
\* A branch of three commits, and a fourth that forks off from the second.
PTree == [c \in {"c1", "c2", "c3", "c4"} |-> CASE c = "c1" -> "t1" [] c = "c2" -> "t2" [] c = "c3" -> "t3" [] OTHER -> "t2"]
PFiles == "t1" :> {"f1"} @@ "t2" :> {"f1", "f2"} @@ "t3" :> {"f3"}
PFull == [commits |-> DOMAIN PTree, trees |-> DOMAIN PFiles, files |-> {"f1", "f2", "f3", "fx"}, links |-> {"f2", "f3"}, partial |-> {}, tomb |-> {},
          tombstones |-> FALSE, deltas |-> {[from |-> None, to |-> "c3"], [from |-> "c1", to |-> "c2"]}, caches |-> {"r", "old"}]
PStores == {PFull, [PFull EXCEPT !.trees = @ \ {"t1"}], [PFull EXCEPT !.trees = @ \ {"t1"}, !.partial = {"c1"}],
            [PFull EXCEPT !.commits = @ \ {"c1"}]}
POpt == [refs_only |-> FALSE, depth |-> -1, retain |-> <<>>, younger |-> None, only |-> {}, commit_only |-> FALSE,
         no_prune |-> FALSE, delete |-> None, deltas_only |-> FALSE]
PInvocations ==
  {[POpt EXCEPT !.refs_only = r, !.depth = d, !.commit_only = o] : r \in BOOLEAN, d \in {-1, 0, 1}, o \in BOOLEAN}
  \cup {[POpt EXCEPT !.depth = d, !.only = x, !.retain = t] : d \in {0, 1}, x \in {{"a"}, {"b"}, {"a", "b"}}, t \in {<<>>, "a" :> 0, "b" :> 1}}
  \cup {[POpt EXCEPT !.younger = 2, !.retain = t] : t \in {<<>>, "a" :> 0, "b" :> 1}}
  \cup {[POpt EXCEPT !.delete = c, !.deltas_only = s, !.no_prune = n] : c \in {"c1", "c2", "c3"}, s \in BOOLEAN, n \in BOOLEAN}
  \cup {[POpt EXCEPT !.refs_only = TRUE, !.depth = 0, !.no_prune = TRUE], [POpt EXCEPT !.deltas_only = TRUE]}

U == INSTANCE PruneCmd WITH Parent <- ("c1" :> None @@ "c2" :> "c1" @@ "c3" :> "c2" @@ "c4" :> "c2"),
       Stamp <- ("c1" :> 1 @@ "c2" :> 2 @@ "c3" :> 3 @@ "c4" :> 1), TreeOf <- PTree, FilesOf <- PFiles, Big <- {"f1", "f2"},
       LocalRefs <- {"a", "b"}, MirrorRefs <- {"m"},
       Heads <- {"a" :> x @@ "b" :> y @@ "m" :> z : x \in {"c3", "c2"}, y \in {"c4", "c2", "c1"}, z \in {"c1", "c4"}},
       Stores <- PStores, Remotes <- {"r"}, Invocations <- PInvocations, MaxCalls <- 2, store <- pstore, heads <- pheads

-----------------------------------------------------------------------------


M == INSTANCE Summary WITH Procs <- Regenerators, AutoUpdate <- TRUE, Refs <- {"a", "r:a"}, RemoteRefs <- {"r:a"}, Revs <- {"v1", "v2"}, Deltas <- {"d1"}, MaxOps <- 3, MaxMeta <- 2, pub <- spub, reg <- sreg

-----------------------------------------------------------------------------
NoRefs == refs = None /\ txn = None /\ calls = None
NoSign == sconf = None /\ sobj = None /\ sstaged = None /\ sjob = None /\ smade = None /\ sblind = None /\ smixed = None /\ scmds = None
NoConfig == rdisk = None /\ creator = None /\ handle = None /\ rcalls = None
NoFsck == fobjs = None /\ fup = None /\ fpartial = None /\ ftomb = None /\ fsckrun = None /\ fruns = None
NoPrune == pstore = None /\ pheads = None /\ prune = None /\ pcalls = None
NoSummary == scoll = None /\ sref = None /\ sdelta = None /\ spub = None /\ sreg = None /\ sops = None

Init ==
  /\ part \in Parts
  /\ IF part = "refs" THEN F!RefsInit ELSE NoRefs
  /\ IF part = "sign" THEN G!SignInit ELSE NoSign
  /\ IF part = "config" THEN RC!RepoConfigInit ELSE NoConfig
  /\ IF part = "fsck" THEN K!FsckInit ELSE NoFsck
  /\ IF part = "prune" THEN U!PruneInit ELSE NoPrune
  /\ IF part = "summary" THEN M!SummaryInit ELSE NoSummary

RefsNext == /\ part = "refs" /\ F!RefsNext
            /\ UNCHANGED <<part, signVars, configVars, fsckVars, pruneVars, summaryVars>>
SignNext == /\ part = "sign" /\ G!SignNext
            /\ UNCHANGED <<part, refsVars, configVars, fsckVars, pruneVars, summaryVars>>
ConfigNext == /\ part = "config" /\ RC!RepoConfigNext
              /\ UNCHANGED <<part, refsVars, signVars, fsckVars, pruneVars, summaryVars>>
FsckNext == /\ part = "fsck" /\ K!FsckNext
            /\ UNCHANGED <<part, refsVars, signVars, configVars, pruneVars, summaryVars>>
PruneNext == /\ part = "prune" /\ U!PruneNext
             /\ UNCHANGED <<part, refsVars, signVars, configVars, fsckVars, summaryVars>>
SummaryNext == /\ part = "summary" /\ M!SummaryNext
               /\ UNCHANGED <<part, refsVars, signVars, configVars, fsckVars, pruneVars>>

\* The callers have had their say, or the bound on their calls is reached.
Finished == /\ \/ part = "refs" /\ txn = None /\ calls = 3
               \/ part = "sign" /\ scmds = 3 /\ \A p \in {"p", "q"} : sjob[p].pc = "done"
               \/ part = "config" /\ rcalls = 3
               \/ part = "fsck" /\ fsckrun.pc = "idle" /\ fruns = 2
               \/ part = "prune" /\ prune.pc = "idle" /\ pcalls = 2
               \/ part = "summary" /\ sops = 3 /\ \A p \in Regenerators : sreg[p].pc = "rest"
            /\ UNCHANGED vars

Next == \/ RefsNext
        \/ SignNext
        \/ ConfigNext
        \/ FsckNext
        \/ PruneNext
        \/ SummaryNext
        \/ Finished

Spec == Init /\ [][Next]_vars

-----------------------------------------------------------------------------
(* No write or deletion destroys a ref that another name depends on, and   *)
(* resolving agrees with listing.                                          *)
RefsConsistent ==
  [][part = "refs" => F!RefsConsistentStep]_vars
(* Writing a ref of any kind leaves the refs below a directory of its      *)
(* name.                                                                   *)
RefsKept ==
  [][part = "refs" => F!RefsKeptStep]_vars
(* A name that is no local ref does not resolve locally, nor does its      *)
(* parent.                                                                 *)
LocalOnlyResolves == part = "refs" => F!LocalOnlyResolves
(* Signatures stay until they are deleted, and only those of trusted keys  *)
(* are accepted.                                                           *)
SignaturesSound == part = "sign" => G!SignaturesSound
(* Commands that overlap lose no signature.                                *)
SignedStaysConcurrent == part = "sign" => G!SignedStaysConcurrent
(* The two readings of a deletion agree.                                   *)
ReadingsAgree == part = "sign" => G!ReadingsAgree
(* A deletion leaves no signature by its keys.                             *)
DeleteRemovesAll == part = "sign" => G!DeleteRemovesAll
(* Repositories, remotes and keyrings are whole, and handles know them.    *)
ConfigConsistent == part = "config" => RC!ConfigConsistent
(* A reload leaves the settings that opening the repository anew would     *)
(* give.                                                                   *)
ReloadFresh ==
  [][part = "config" => RC!ReloadFreshStep]_vars
(* A creation where there is a repository leaves its configuration alone.  *)
CreationHarmless ==
  [][part = "config" => RC!CreationHarmlessStep]_vars
(* A clean report means an intact repository, and the commits marked are   *)
(* the damaged ones.                                                       *)
FsckHonest ==
  [][part = "fsck" => K!FsckHonestStep]_vars
(* A commit that gets a tombstone was missing.                             *)
TombstoneForMissing ==
  [][part = "fsck" => K!TombstoneForMissingStep]_vars
(* A prune keeps what refs need, nothing beyond their depth and nothing    *)
(* that refers to what is gone.                                            *)
PruneExact ==
  [][part = "prune" => U!PruneExactStep]_vars
(* A ref that is not to be pruned keeps its history.                       *)
OnlyBranchPruned ==
  [][part = "prune" => U!OnlyBranchPrunedStep]_vars
(* A ref with a depth of 0 keeps its latest commit only.                   *)
RetainZero ==
  [][part = "prune" => U!RetainZeroStep]_vars
(* When nobody regenerates, the summary lists the refs as they are and its *)
(* signature is its own, unless a regeneration broke off or was overtaken. *)
SummaryConsistent == part = "summary" => M!SummaryConsistent
(* A published signature is always that of the published summary, when     *)
(* nobody regenerates.                                                     *)
SignatureAlwaysMatches == part = "summary" => M!SignatureAlwaysMatches
=============================================================================
