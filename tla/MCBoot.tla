------------------------------- MODULE MCBoot -------------------------------
(***************************************************************************)
(* Instance for TLC of the modules that put a deployment in place and boot *)
(* it. `part`, fixed in the initial state, says which one runs; the        *)
(* variables of the others are None.                                       *)
(***************************************************************************)
EXTENDS Integers, Sequences, FiniteSets, SequencesExt, TLC

CONSTANTS None, Parts

VARIABLES part,
          orig, modified, default, newetc, diff, edited, mergepc,
          deploys, svar, mnt, booted, djob,
          kargs, kfailed,
          how, boot, ljob,
          deps, bent, run, bjob,
          urefs, published, held, udeploys, running, ucmd

etcVars == <<orig, modified, default, newetc, diff, edited, mergepc>>
treeVars == <<deploys, svar, mnt, booted, djob>>
kargsVars == <<kargs, kfailed>>
loadersVars == <<how, boot, ljob>>
entriesVars == <<deps, bent, run, bjob>>
upgradeVars == <<urefs, published, held, udeploys, running, ucmd>>
vars == <<part, etcVars,
          treeVars,
          kargsVars,
          loadersVars,
          entriesVars,
          upgradeVars>>

-----------------------------------------------------------------------------
EtcPaths == {<<"d">>, <<"d", "e">>, <<"d", "e", "x">>}

E == INSTANCE EtcMerge WITH Paths <- EtcPaths, OrigNodes <- {"no", "f0", "d0"}, ModifiedNodes <- {"no", "f0", "f1", "d0", "d1", "p"}, NewNodes <- {"no", "f0", "f2", "d0"}, EditNodes <- {"no", "f1"}, MaxEdits <- 1

-----------------------------------------------------------------------------
NoVar == {"novar"}
TreeCommit(etc, usretc, var, good, tmpf) == [etc |-> etc, usretc |-> usretc, kernel |-> good, config |-> TRUE, var |-> var, tmpfiles |-> tmpf]
TreeCommits ==
  [c1 |-> TreeCommit("none", TRUE, {"x", "y"}, TRUE, TRUE), c2 |-> TreeCommit("empty", TRUE, {"x"}, TRUE, FALSE),
   c3 |-> TreeCommit("full", FALSE, NoVar, TRUE, TRUE), c4 |-> TreeCommit("full", TRUE, NoVar, TRUE, TRUE),
   c5 |-> TreeCommit("empty", FALSE, NoVar, FALSE, TRUE)]

T == INSTANCE DeployTree WITH Commits <- TreeCommits, MaxDeploys <- 2, job <- djob

-----------------------------------------------------------------------------
KA(v) == <<"a", "=">> \o v
KargsQuoted == KA(<<"q", "1", " ", "2", "q">>)
KargsArgs == {<<"a">>, KA(<<>>), KA(<<"1">>), KargsQuoted, KA(<<"1", "=", "2">>), <<"b", " ">> \o KA(<<"1">>)}
KargsCli == {KA(<<"1">>), <<"b">>}
KargsProc == <<"BOOT_IMAGE", "=", "x", " ">> \o KargsQuoted

K == INSTANCE KernelArgs WITH Args <- KargsArgs, CliArgs <- KargsCli, ProcCmdline <- KargsProc, MaxEntries <- 3, MaxPieces <- 9, failed <- kfailed

-----------------------------------------------------------------------------
AllKinds == {"none", "grub2-bios", "grub2-efi", "syslinux", "uboot", "zipl", "aboot"}
SysLine(t, kernel, id) == [t |-> t, kernel |-> kernel, id |-> id, e |-> <<>>]
SysConfigs ==
  {<<SysLine("default", "ostree", ""), SysLine("other", "", "prompt"), SysLine("label", "other", "memtest")>>,
   <<SysLine("default", "other", "rescue"), SysLine("label", "other", "rescue"), SysLine("label", "none", "hdt")>>,
   <<SysLine("label", "none", "hdt")>>}

L == INSTANCE BootLoaders WITH Kinds <- AllKinds, SyslinuxConfigs <- SysConfigs, MaxDeploys <- 3, job <- ljob

-----------------------------------------------------------------------------
Modules(kernel, initrd, dt, dtb) == <<[kver |-> "5", kernel |-> kernel, initrd |-> initrd, dt |-> dt, dtb |-> dtb, hmac |-> "h", aboot |-> ""]>>
Legacy(kernel, initrd, icsum) == <<[kver |-> "4", kernel |-> kernel, initrd |-> initrd, dt |-> "", kcsum |-> "c", icsum |-> icsum, dcsum |-> ""]>>
EntryTrees ==
  [t1 |-> [modules |-> Modules("k", "i", "", "d"), legacy |-> <<>>],
   t2 |-> [modules |-> Modules("k", "", "", ""), legacy |-> Legacy("k", "j", "c")],
   t3 |-> [modules |-> Modules("k", "j", "d", "e"), legacy |-> <<>>],
   t4 |-> [modules |-> <<>>, legacy |-> Legacy("k", "j", "b")]]

N == INSTANCE BootEntries WITH Trees <- EntryTrees, Overlays <- {"o"}, Tries <- {0, 1}, MaxDeploys <- 2, MaxCommands <- 2

-----------------------------------------------------------------------------
\* Branch A with commits a1, a2 of which a2 redirects to B; B with b1 older than
\* a2, and b2.
UpgradeTime == [a1 |-> 1, a2 |-> 3, b1 |-> 2, b2 |-> 4]
UpgradeEol == [a1 |-> None, a2 |-> "B", b1 |-> None, b2 |-> None]
UpgradeChoices ==
  {[older |-> k = "older", pullOnly |-> k = "pull", deployOnly |-> k = "deploy", override |-> IF k = "over" THEN "b1" ELSE None] :
     k \in {"both", "older", "pull", "deploy", "over"}}

U == INSTANCE Upgrader WITH Time <- UpgradeTime, Eol <- UpgradeEol, Branches <- [A |-> {"a1", "a2"}, B |-> {"b1", "b2"}],
       UpgradeOpts <- UpgradeChoices, MaxDeployments <- 3, deploys <- udeploys

-----------------------------------------------------------------------------
NoEtc == orig = None /\ modified = None /\ default = None /\ newetc = None /\ diff = None /\ edited = None /\ mergepc = None
NoTree == deploys = None /\ svar = None /\ mnt = None /\ booted = None /\ djob = None
NoKargs == kargs = None /\ kfailed = None
NoLoaders == how = None /\ boot = None /\ ljob = None
NoEntries == deps = None /\ bent = None /\ run = None /\ bjob = None
NoUpgrade == urefs = None /\ published = None /\ held = None /\ udeploys = None /\ running = None /\ ucmd = None

Init ==
  /\ part \in Parts
  /\ IF part = "etc" THEN E!EtcInit ELSE NoEtc
  /\ IF part = "tree" THEN T!TreeInit ELSE NoTree
  /\ IF part = "kargs" THEN K!KargsInit ELSE NoKargs
  /\ IF part = "loaders" THEN L!BlInit ELSE NoLoaders
  /\ IF part = "entries" THEN N!BeInit ELSE NoEntries
  /\ IF part = "upgrade" THEN U!UpgradeInit ELSE NoUpgrade

EtcNext == /\ part = "etc" /\ E!EtcNext
           /\ UNCHANGED <<part, treeVars, kargsVars, loadersVars, entriesVars, upgradeVars>>
TreeNext == /\ part = "tree" /\ T!TreeNext
            /\ UNCHANGED <<part, etcVars, kargsVars, loadersVars, entriesVars, upgradeVars>>
KargsNext == /\ part = "kargs" /\ K!KargsNext
             /\ UNCHANGED <<part, etcVars, treeVars, loadersVars, entriesVars, upgradeVars>>
LoadersNext == /\ part = "loaders" /\ L!BlNext
               /\ UNCHANGED <<part, etcVars, treeVars, kargsVars, entriesVars, upgradeVars>>
EntriesNext == /\ part = "entries" /\ N!BeNext
               /\ UNCHANGED <<part, etcVars, treeVars, kargsVars, loadersVars, upgradeVars>>
UpgradeNext == /\ part = "upgrade" /\ U!UpgradeNext
               /\ UNCHANGED <<part, etcVars, treeVars, kargsVars, loadersVars, entriesVars>>

\* The callers have had their say, or the bound on their calls is reached.
Finished == /\ \/ part = "etc" /\ mergepc \in {"done", "failed"}
               \/ part = "tree" /\ djob.pc = "idle"
            /\ UNCHANGED vars

Next == \/ EtcNext
        \/ TreeNext
        \/ KargsNext
        \/ LoadersNext
        \/ EntriesNext
        \/ UpgradeNext
        \/ Finished

Spec == Init /\ [][Next]_vars

-----------------------------------------------------------------------------
(* The new /etc has what was changed, lacks what was removed and follows   *)
(* the new defaults otherwise.                                             *)
EtcMerged == part = "etc" => E!EtcMerged
(* Whatever differs between /usr/etc and /etc is done to the new /etc.     *)
ModifiedWins == part = "etc" => E!ModifiedWins
(* A sealed deployment is whole, on a labelled /var that keeps what is in  *)
(* it.                                                                     *)
DeployedWhole ==
  [][part = "tree" => T!DeployedWholeStep]_vars
(* A commit's /var is in the stateroot's as a whole or not at all.         *)
VarComplete == part = "tree" => T!VarComplete
(* Table, order and text of the kernel arguments are one list, and         *)
(* operations act on it as on a plain one.                                 *)
KargsMatchList == part = "kargs" => K!KargsMatchList
(* Deleting an argument that is not there is no error.                     *)
DeleteIfExists == part = "kargs" => K!DeleteIfExists
(* set-kargs keeps the arguments its options do not name.                  *)
SetKargsOthersKept == part = "kargs" => K!SetKargsOthersKept
(* The boot loader offers a whole list that boots, or can be repaired.     *)
LoaderBoots == part = "loaders" => L!LoaderBoots
(* With a boot loader that says it is atomic the machine always boots.     *)
AtomicLoaderBoots == part = "loaders" => L!AtomicLoaderBoots
(* Every entry names the files of its own deployment, and they are there.  *)
EntriesBoot ==
  [][part = "entries" => N!EntriesBootStep]_vars
(* There is one entry for each deployment.                                 *)
OneEntryEach == part = "entries" => N!OneEntryEach
(* The default entry has no key of bls-append-except-default.              *)
DefaultNotAppended == part = "entries" => N!DefaultNotAppended
(* An entry names the device trees of its own deployment.                  *)
ManagedNotInherited == part = "entries" => N!ManagedNotInherited
(* An upgrade deploys nothing older unasked, from the ref its origin       *)
(* names, and drops no ref still followed.                                 *)
UpgradeSound ==
  [][part = "upgrade" => U!UpgradeSoundStep]_vars
(* The ref that the default deployment follows is in the repository.       *)
OriginRefKept == part = "upgrade" => U!OriginRefKept
(* An upgrade follows the ref that the last switch chose.                  *)
SwitchSticks ==
  [][part = "upgrade" => U!SwitchSticksStep]_vars
(* After an upgrade that found no change the default deployment is of the  *)
(* commit asked for.                                                       *)
NoChangeMeansDefault ==
  [][part = "upgrade" => U!NoChangeMeansDefaultStep]_vars
=============================================================================
