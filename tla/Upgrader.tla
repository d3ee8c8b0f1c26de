------------------------------ MODULE Upgrader ------------------------------
(***************************************************************************)
(* Following a ref: the upgrader (ostree-sysroot-upgrader.c) and the       *)
(* commands `ostree admin upgrade`, `switch` and `set-origin` that use it. *)
(* The commands hold the lock of the sysroot, but not one on the refs that *)
(* they read more than once: an `ostree pull` may move them in between.    *)
(* How a deployment is written is the subject of Sysroot.                  *)
(***************************************************************************)
EXTENDS Integers, Sequences, FiniteSets

CONSTANTS None,
          Time,         \* commit |-> its timestamp
          Eol,          \* commit |-> the ref it redirects to (endoflife-rebase), or None
          Branches,     \* ref |-> the commits that may be published under it
          UpgradeOpts,  \* options of upgrade: [older, pullOnly, deployOnly, override]
          MaxDeployments

VARIABLES urefs,     \* the refs of the remote, in the local repository: commit or None
          published, \* what the remote has
          held,      \* all that each local ref has ever been
          deploys,   \* deployments in the order they were made: [commit, ref of the origin]
          running,   \* index of the booted one
          ucmd       \* the command under way

upgradeVars == <<urefs, published, held, deploys, running, ucmd>>

NoCmd == [kind |-> None, pc |-> "idle", opts |-> None, ref |-> None, over |-> None, old |-> None,
          rev |-> None, rebased |-> FALSE]

UpgradeInit ==
  /\ \E r \in DOMAIN Branches : \E c \in Branches[r] :
       /\ published \in {f \in [DOMAIN Branches -> DOMAIN Time] : \A s \in DOMAIN Branches : f[s] \in Branches[s]}
       /\ urefs = [s \in DOMAIN Branches |-> IF s = r THEN c ELSE None]
       /\ held = [s \in DOMAIN Branches |-> IF s = r THEN {c} ELSE {}]
       /\ deploys = <<[commit |-> c, ref |-> r]>>
  /\ running = 1
  /\ ucmd = NoCmd

Merge == deploys[running]
Newest == deploys[Len(deploys)]
At(pc) == ucmd.pc = pc
Goto(pc) == ucmd' = [ucmd EXCEPT !.pc = pc]
End == ucmd' = NoCmd

\* Ref r becomes commit c.
SetRef(r, c) ==
  /\ urefs' = [urefs EXCEPT ![r] = c]
  /\ held' = [held EXCEPT ![r] = @ \cup ({c} \ {None})]

-----------------------------------------------------------------------------
(* The world around.                                                       *)

Publish(r, c) ==
  /\ c \in Branches[r] /\ c # published[r]
  /\ published' = [published EXCEPT ![r] = c]
  /\ UNCHANGED <<urefs, held, deploys, running, ucmd>>

\* `ostree pull` of the ref, which checks no timestamps.
OtherPull(r) ==
  /\ urefs[r] # published[r]
  /\ SetRef(r, published[r])
  /\ UNCHANGED <<published, deploys, running, ucmd>>

\* A reboot, with whatever is running.
Reboot ==
  /\ running # Len(deploys) \/ ~At("idle")
  /\ running' = Len(deploys)
  /\ End
  /\ UNCHANGED <<urefs, published, held, deploys>>

-----------------------------------------------------------------------------
(* The commands.                                                           *)

\* ot_admin_builtin_upgrade: the origin without its transient state.
BeginUpgrade(o) ==
  /\ At("idle") /\ Len(deploys) < MaxDeployments
  /\ ucmd' = [NoCmd EXCEPT !.kind = "upgrade", !.pc = IF o.deployOnly THEN "eol" ELSE "pull", !.opts = o,
                           !.ref = Merge.ref, !.over = o.override]
  /\ UNCHANGED <<urefs, published, held, deploys, running>>

\* ot_admin_builtin_switch: another ref, older commits allowed.
BeginSwitch(r) ==
  /\ At("idle") /\ Len(deploys) < MaxDeployments /\ r # Merge.ref
  /\ ucmd' = [NoCmd EXCEPT !.kind = "switch", !.pc = "pull", !.ref = r, !.old = Merge.ref,
                           !.opts = [older |-> TRUE, pullOnly |-> FALSE, deployOnly |-> FALSE, override |-> None]]
  /\ UNCHANGED <<urefs, published, held, deploys, running>>

\* ot_admin_builtin_set_origin
SetOrigin(r) ==
  /\ At("idle") /\ r # Merge.ref
  /\ deploys' = [deploys EXCEPT ![running] = [@ EXCEPT !.ref = r]]
  /\ UNCHANGED <<urefs, published, held, running, ucmd>>

\* _ostree_compare_timestamps
Newer(c) == Time[c] >= Time[Merge.commit]

-----------------------------------------------------------------------------
(* ostree_sysroot_upgrader_pull_one_dir.                                   *)

\* The ref, or the commit to override it with, is pulled; a commit older than
\* the deployment fails the pull.
PullRef ==
  /\ At("pull")
  /\ LET c == IF ucmd.over # None THEN ucmd.over ELSE published[ucmd.ref]
     IN IF ~ucmd.opts.older /\ ~Newer(c) THEN End /\ UNCHANGED <<urefs, held>>
        ELSE /\ IF ucmd.over # None THEN UNCHANGED <<urefs, held>> ELSE SetRef(ucmd.ref, c)
             /\ Goto("eol")
  /\ UNCHANGED <<published, deploys, running>>

\* A pull fails: nothing is resolved.
PullFails ==
  /\ At("pull") \/ At("eol")
  /\ ~ucmd.opts.deployOnly
  /\ At("eol") => urefs[ucmd.ref] # None /\ Eol[urefs[ucmd.ref]] # None
  /\ End
  /\ UNCHANGED <<urefs, published, held, deploys, running>>

\* The redirection is followed but not recorded.
MutCheckEol ==
  /\ At("eol")
  /\ LET c == urefs[ucmd.ref]
     IN IF c = None THEN End /\ UNCHANGED <<urefs, held>>
        ELSE IF Eol[c] = None THEN Goto("resolve") /\ UNCHANGED <<urefs, held>>
        ELSE /\ IF ucmd.opts.deployOnly THEN UNCHANGED <<urefs, held>> ELSE SetRef(Eol[c], published[Eol[c]])
             /\ IF urefs'[Eol[c]] = None THEN End
                ELSE ucmd' = [ucmd EXCEPT !.pc = "timestamps", !.rebased = TRUE, !.rev = urefs'[Eol[c]]]
  /\ UNCHANGED <<published, deploys, running>>

\* A commit at the end of its life names the ref to follow from now on, which is
\* pulled as well, whatever its age.
CheckEol ==
  /\ At("eol")
  /\ LET c == urefs[ucmd.ref]
     IN IF c = None THEN End /\ UNCHANGED <<urefs, held>>
        ELSE IF Eol[c] = None THEN Goto("resolve") /\ UNCHANGED <<urefs, held>>
        ELSE /\ IF ucmd.opts.deployOnly THEN UNCHANGED <<urefs, held>> ELSE SetRef(Eol[c], published[Eol[c]])
             /\ ucmd' = [ucmd EXCEPT !.pc = "resolve", !.ref = Eol[c], !.rebased = TRUE]
  /\ UNCHANGED <<published, deploys, running>>

\* The ref is set to the override, or resolved (again).
Resolve ==
  /\ At("resolve")
  /\ IF ucmd.over # None THEN SetRef(ucmd.ref, ucmd.over) ELSE UNCHANGED <<urefs, held>>
  /\ LET c == IF ucmd.over # None THEN ucmd.over ELSE urefs[ucmd.ref]
     IN IF c = None THEN End ELSE ucmd' = [ucmd EXCEPT !.pc = "timestamps", !.rev = c]
  /\ UNCHANGED <<published, deploys, running>>

\* The age was checked by the pull.
MutCheckTimestamps ==
  /\ At("timestamps")
  /\ IF ucmd.kind = "upgrade" /\ (ucmd.rev = Merge.commit \/ ucmd.opts.pullOnly) THEN End ELSE Goto("deploy")
  /\ UNCHANGED <<urefs, published, held, deploys, running>>

\* ostree_sysroot_upgrader_check_timestamps, if it is another commit.  An upgrade
\* that finds no change, or is to pull only, is done.
CheckTimestamps ==
  /\ At("timestamps")
  /\ IF ucmd.rev # Merge.commit /\ ~ucmd.opts.older /\ ~Newer(ucmd.rev) THEN End
     ELSE IF ucmd.kind = "upgrade" /\ (ucmd.rev = Merge.commit \/ ucmd.opts.pullOnly) THEN End
     ELSE Goto("deploy")
  /\ UNCHANGED <<urefs, published, held, deploys, running>>

\* A switch drops the ref it leaves at first.
MutDeploy(ok) ==
  /\ At("deploy")
  /\ IF ucmd.kind = "switch" /\ urefs[ucmd.old] # None
     THEN SetRef(ucmd.old, None) /\ UNCHANGED <<deploys, ucmd>>
     ELSE /\ deploys' = IF ok THEN Append(deploys, [commit |-> ucmd.rev, ref |-> ucmd.ref])
                        ELSE deploys
          /\ End /\ UNCHANGED <<urefs, held>>
  /\ UNCHANGED <<published, running>>

\* ostree_sysroot_upgrader_deploy, with the origin as it is now.
Deploy(ok) ==
  /\ At("deploy")
  /\ IF ok THEN /\ deploys' = Append(deploys, [commit |-> ucmd.rev, ref |-> ucmd.ref])
                /\ IF ucmd.kind = "switch" THEN Goto("delete") ELSE End
     ELSE End /\ UNCHANGED deploys
  /\ UNCHANGED <<urefs, published, held, running>>

\* A switch deletes the ref that it was told to leave.
DeleteOldRef ==
  /\ At("delete")
  /\ SetRef(ucmd.old, None)
  /\ End
  /\ UNCHANGED <<published, deploys, running>>

UpgradeNext ==
  \/ \E r \in DOMAIN Branches :
       OtherPull(r) \/ BeginSwitch(r) \/ SetOrigin(r) \/ \E c \in Branches[r] : Publish(r, c)
  \/ Reboot
  \/ \E o \in UpgradeOpts : BeginUpgrade(o)
  \/ PullRef \/ PullFails \/ CheckEol \/ Resolve \/ CheckTimestamps
  \/ \E ok \in BOOLEAN : Deploy(ok)
  \/ DeleteOldRef

-----------------------------------------------------------------------------
(* An upgrade that may not go back never deploys a commit older than the   *)
(* running one, whatever the remote publishes, redirects to, or another    *)
(* process pulls while it is at it.                                        *)
NotDowngradedStep ==
  deploys' # deploys /\ ucmd.kind = "upgrade" /\ ~ucmd.opts.older => Newer(deploys'[Len(deploys')].commit)

(* A deployment's commit is one that the ref named in its origin has had   *)
(* in this repository, unless the origin was edited: the next upgrade      *)
(* follows the ref that this commit came from.                             *)
OriginNamesSourceStep ==
  deploys' # deploys /\ Len(deploys') > Len(deploys) =>
    LET d == deploys'[Len(deploys')] IN d.commit \in held[d.ref]

(* A ref is not dropped while it is the one that the default deployment    *)
(* follows, with the exception of a redirection back to the ref a switch   *)
(* was told to leave.                                                      *)
RefKeptUntilDeployedStep ==
  \A r \in DOMAIN urefs : urefs[r] # None /\ urefs'[r] = None => Newest.ref # r \/ ucmd.rebased

(* The ref that the default deployment follows is in the repository.       *)
OriginRefKept == At("idle") /\ Newest.ref # Merge.ref => urefs[Newest.ref] # None

(* An upgrade follows the ref that the last switch chose.                  *)
SwitchSticksStep ==
  Len(deploys') > Len(deploys) /\ ucmd.kind = "upgrade" /\ ~ucmd.rebased =>
    deploys'[Len(deploys')].ref = Newest.ref

(* After an upgrade that found no change the default deployment is of the  *)
(* commit that it was asked for.                                           *)
NoChangeMeansDefaultStep ==
  At("timestamps") /\ ucmd'.pc = "idle" /\ ucmd.rev = Merge.commit /\ running' = running
    => Newest.commit = ucmd.rev

(* An upgrade deploys no older commit unless told to, records the ref the  *)
(* commit came from, and drops no ref still followed.                      *)
UpgradeSoundStep ==
  /\ NotDowngradedStep
  /\ OriginNamesSourceStep
  /\ RefKeptUntilDeployedStep
=============================================================================
