----------------------------- MODULE DeployTree -----------------------------
(***************************************************************************)
(* Putting a deployment in place: its tree, its /etc, the /var of its      *)
(* stateroot, and the last things that are done before it is sealed        *)
(* (sysroot_initialize_deployment, sysroot_finalize_deployment of          *)
(* ostree-sysroot-deploy.c).  The process may be killed at any point.      *)
(*                                                                         *)
(* A commit says what matters of its tree: etc is "none", "empty" or       *)
(* "full", usretc and kernel whether it has them, config whether           *)
(* prepare-root.conf can be read, var the files of its /var, or NoVar,     *)
(* tmpfiles whether it has /usr/lib/tmpfiles.d.                            *)
(***************************************************************************)
EXTENDS Integers, FiniteSets

CONSTANTS Commits,      \* commit -> [etc, usretc, kernel, config, var, tmpfiles]
          NoVar,
          MaxDeploys    \* bound on deployments

VARIABLES deploys,  \* <<commit, serial>> -> the deployment's directory
          svar,     \* /var of the stateroot: [there, files, stamp, labels, updated]
          mnt,      \* a file system mounted on /var: [there, updated]
          booted,   \* whether the running system is of the stateroot
          job       \* what the deployer is at

treeVars == <<deploys, svar, mnt, booted, job>>

Idle == [pc |-> "idle"]
NoFiles == [f \in {} |-> "u"]
LegacyDirs == {"legacy"} \* tmp, lib, log, run and lock, as one

TreeInit ==
  /\ deploys = [d \in {} |-> Idle]
  /\ svar = [there |-> FALSE, files |-> NoFiles, stamp |-> FALSE, labels |-> {}, updated |-> FALSE]
  /\ booted \in BOOLEAN
  /\ \E m \in BOOLEAN : mnt = [there |-> m, updated |-> m]
  /\ job = Idle

\* Files are put into a /var, unlabelled.
With(v, fs, owner) ==
  [v EXCEPT !.files = [f \in DOMAIN @ \cup fs |-> IF f \in fs THEN owner ELSE @[f]], !.labels = @ \ fs]

\* ostree_sysroot_init_osname: the directories of the stateroot.
ostree_sysroot_init_osname ==
  /\ job.pc = "idle" /\ ~svar.there
  /\ svar' = [svar EXCEPT !.there = TRUE]
  /\ UNCHANGED <<deploys, mnt, booted, job>>

\* The running system writes to its /var, and systemd marks it as updated.
UserWrites ==
  /\ job.pc = "idle" /\ booted /\ svar.there
  /\ IF mnt.there THEN mnt' = [mnt EXCEPT !.updated = TRUE] /\ UNCHANGED svar
     ELSE /\ svar' = [With(svar, {"data"}, "u") EXCEPT !.updated = TRUE]
          /\ "data" \notin DOMAIN svar.files /\ UNCHANGED mnt
  /\ UNCHANGED <<deploys, booted, job>>

Step(pc) == job' = [job EXCEPT !.pc = pc]
Fail == job' = Idle
Cur == <<job.c, job.serial>>
Dep == deploys[Cur]
SetDep(d) == deploys' = [x \in DOMAIN deploys \cup {Cur} |-> IF x = Cur THEN d ELSE deploys[x]]

-----------------------------------------------------------------------------
(* sysroot_initialize_deployment.                                          *)

allocate_deployserial(c) ==
  LET ss == {x[2] : x \in {y \in DOMAIN deploys : y[1] = c}}
  IN IF ss = {} THEN 0 ELSE 1 + CHOOSE s \in ss : \A t \in ss : t <= s

\* require_stateroot; the name of the new directory.
sysroot_initialize_deployment(c) ==
  /\ job.pc = "idle" /\ svar.there /\ Cardinality(DOMAIN deploys) < MaxDeploys
  /\ job' = [pc |-> "checkout", c |-> c, serial |-> allocate_deployserial(c)]
  /\ UNCHANGED <<deploys, svar, mnt, booted>>

\* checkout_deployment_tree: what an earlier one left under the name goes first, and
\* the checkout is not atomic.
BeginCheckout ==
  /\ job.pc = "checkout"
  /\ SetDep([tree |-> "part", etc |-> "none", usretc |-> FALSE, copied |-> FALSE, merged |-> FALSE,
             updated |-> FALSE, backing |-> FALSE, origin |-> FALSE, sealed |-> FALSE])
  /\ Step("tree")
  /\ UNCHANGED <<svar, mnt, booted>>

\* The whole tree; then its prepare-root.conf is read, and get_kernel_from_tree.
EndCheckout ==
  /\ job.pc = "tree"
  /\ LET c == Commits[job.c] IN
     /\ SetDep([Dep EXCEPT !.tree = "full", !.etc = c.etc, !.usretc = c.usretc])
     /\ IF c.config /\ c.kernel THEN Step("etc") ELSE Fail
  /\ UNCHANGED <<svar, mnt, booted>>

\* An empty /etc is left as it is.
MutPrepareEtc ==
  /\ job.pc = "etc"
  /\ IF Dep.etc = "full" /\ Dep.usretc THEN Fail /\ UNCHANGED deploys
     ELSE IF Dep.etc = "empty"
     THEN /\ UNCHANGED deploys /\ Step("var")
     ELSE LET usretc == Dep.usretc \/ Dep.etc = "full"
          IN /\ SetDep([Dep EXCEPT !.usretc = usretc, !.etc = IF usretc THEN "none" ELSE @])
             /\ Step(IF usretc THEN "copyetc" ELSE "var")
  /\ UNCHANGED <<svar, mnt, booted>>

\* prepare_deployment_etc: a tree has /etc or /usr/etc, and not both; an /etc with
\* something in it becomes /usr/etc.
prepare_deployment_etc ==
  /\ job.pc = "etc"
  /\ IF Dep.etc = "full" /\ Dep.usretc THEN Fail /\ UNCHANGED deploys
     ELSE LET usretc == Dep.usretc \/ Dep.etc = "full"
          IN /\ SetDep([Dep EXCEPT !.usretc = usretc, !.etc = IF usretc THEN "none" ELSE @])
             /\ Step(IF usretc THEN "copyetc" ELSE "var")
  /\ UNCHANGED <<svar, mnt, booted>>

\* /usr/etc is copied to /etc, with labels.
CopyEtc ==
  /\ job.pc = "copyetc"
  /\ SetDep([Dep EXCEPT !.etc = "full", !.copied = TRUE])
  /\ Step("var")
  /\ UNCHANGED <<svar, mnt, booted>>

\* /var of the commit is copied again over what is there.
MutPrepareVar ==
  /\ job.pc = "var"
  /\ IF Commits[job.c].var = NoVar THEN Step("finalize") ELSE Step("copyvar")
  /\ UNCHANGED <<deploys, svar, mnt, booted>>

\* prepare_deployment_var: the /var of the commit is copied only into an empty one.
prepare_deployment_var ==
  /\ job.pc = "var"
  /\ IF Commits[job.c].var = NoVar \/ DOMAIN svar.files # {} \/ svar.stamp \/ svar.updated
     THEN Step("finalize") ELSE Step("copyvar")
  /\ UNCHANGED <<deploys, svar, mnt, booted>>

\* One file after the other, each in place of one that is there.
CopyVarFile(f) ==
  /\ job.pc = "copyvar" /\ f \in Commits[job.c].var
  /\ (f \in DOMAIN svar.files => svar.files[f] # job.c)
  /\ svar' = With(svar, {f}, job.c)
  /\ UNCHANGED <<deploys, mnt, booted, job>>

\* _ostree_sysroot_stateroot_legacy_var_init, for a tree without tmpfiles.d.
EndCopyVar ==
  /\ job.pc = "copyvar"
  /\ \A f \in Commits[job.c].var : f \in DOMAIN svar.files /\ svar.files[f] = job.c
  /\ svar' = IF Commits[job.c].tmpfiles THEN svar ELSE With(svar, LegacyDirs \ DOMAIN svar.files, job.c)
  /\ Step("finalize")
  /\ UNCHANGED <<deploys, mnt, booted>>

-----------------------------------------------------------------------------
(* sysroot_finalize_deployment.                                            *)

\* The merge of /etc, which may fail, brings its .updated along; sysroot_finalize_selinux_policy
\* may fail as well.
MergeEtc(ok) ==
  /\ job.pc = "finalize"
  /\ SetDep([Dep EXCEPT !.merged = ok, !.updated = TRUE])
  /\ IF ok THEN Step("updated") ELSE Fail
  /\ UNCHANGED <<svar, mnt, booted>>

\* The /var of the stateroot, also where another one is mounted.
MutGetVar == "svar"

\* get_var_dfd: /var of the running system when that is of this stateroot.
get_var_dfd == IF booted /\ mnt.there THEN "mnt" ELSE "svar"

RemoveUpdated ==
  /\ job.pc = "updated"
  /\ SetDep([Dep EXCEPT !.updated = FALSE])
  /\ IF get_var_dfd = "mnt" THEN mnt' = [mnt EXCEPT !.updated = FALSE] /\ UNCHANGED svar
     ELSE svar' = [svar EXCEPT !.updated = FALSE] /\ UNCHANGED mnt
  /\ Step("relabel")
  /\ UNCHANGED booted

\* relabel_recursively: one after the other.
relabel_one_path(f) ==
  /\ job.pc = "relabel" /\ ~svar.stamp /\ f \in DOMAIN svar.files \ svar.labels
  /\ svar' = [svar EXCEPT !.labels = @ \cup {f}]
  /\ UNCHANGED <<deploys, mnt, booted, job>>

\* The stamp is written at first.
MutRelabelVar ==
  /\ job.pc = "relabel"
  /\ svar' = [svar EXCEPT !.stamp = TRUE]
  /\ Step("backing")
  /\ UNCHANGED <<deploys, mnt, booted>>

\* selinux_relabel_var_if_needed: only without the stamp, which is written at the end.
selinux_relabel_var_if_needed ==
  /\ job.pc = "relabel" /\ (svar.stamp \/ DOMAIN svar.files \subseteq svar.labels)
  /\ svar' = [svar EXCEPT !.stamp = TRUE]
  /\ Step("backing")
  /\ UNCHANGED <<deploys, mnt, booted>>

sysroot_initialize_deployment_backing ==
  /\ job.pc = "backing"
  /\ SetDep([Dep EXCEPT !.backing = TRUE])
  /\ Step("origin")
  /\ UNCHANGED <<svar, mnt, booted>>

write_origin_file_internal ==
  /\ job.pc = "origin"
  /\ SetDep([Dep EXCEPT !.origin = TRUE])
  /\ Step("seal")
  /\ UNCHANGED <<svar, mnt, booted>>

ostree_sysroot_deployment_set_mutable ==
  /\ job.pc = "seal"
  /\ SetDep([Dep EXCEPT !.sealed = TRUE])
  /\ job' = Idle
  /\ UNCHANGED <<svar, mnt, booted>>

\* The process is killed, or a step of it fails.  What it wrote stays.
Killed ==
  /\ job.pc # "idle"
  /\ job' = Idle
  /\ UNCHANGED <<deploys, svar, mnt, booted>>

TreeNext ==
  \/ ostree_sysroot_init_osname \/ UserWrites
  \/ \E c \in DOMAIN Commits : sysroot_initialize_deployment(c)
  \/ BeginCheckout \/ EndCheckout \/ prepare_deployment_etc \/ CopyEtc \/ prepare_deployment_var
  \/ (job.pc = "copyvar" /\ Commits[job.c].var # NoVar /\ \E f \in Commits[job.c].var : CopyVarFile(f))
  \/ EndCopyVar
  \/ \E ok \in BOOLEAN : MergeEtc(ok)
  \/ RemoveUpdated
  \/ \E f \in DOMAIN svar.files : relabel_one_path(f)
  \/ selinux_relabel_var_if_needed
  \/ sysroot_initialize_deployment_backing \/ write_origin_file_internal
  \/ ostree_sysroot_deployment_set_mutable
  \/ Killed

-----------------------------------------------------------------------------
(* A deployment that is sealed is whole: a tree, an /etc copied from its   *)
(* /usr/etc if it has any default configuration, and merged, its backing   *)
(* directory and its origin.                                               *)
SealedComplete ==
  \A d \in DOMAIN deploys :
    deploys[d].sealed =>
      /\ deploys[d].tree = "full" /\ deploys[d].merged /\ deploys[d].backing /\ deploys[d].origin
      /\ (deploys[d].usretc \/ deploys[d].etc = "full") => deploys[d].usretc /\ deploys[d].copied

(* When the stamp is there every file that came from a commit or was there *)
(* before it has its label, also if relabelling was interrupted.           *)
LabelledWhenStamped ==
  svar.stamp => \A f \in DOMAIN svar.files : svar.files[f] # "u" => f \in svar.labels

(* When a deployment gets sealed neither its /etc nor the /var that it     *)
(* will be used with is marked as updated.                                 *)
UpdatedGoneStep ==
  job.pc = "seal" /\ job'.pc = "idle" /\ deploys' # deploys =>
    /\ ~deploys'[Cur].updated
    /\ (mnt.there => booted) => ~(IF mnt.there THEN mnt.updated ELSE svar.updated)

(* What is in /var stays as it is, whatever is deployed.                   *)
VarKeptStep ==
  \A f \in DOMAIN svar.files : f \in DOMAIN svar'.files /\ svar'.files[f] = svar.files[f]

(* A commit's /var is in a stateroot's /var as a whole or not at all, when *)
(* no one is copying it.                                                   *)
VarComplete ==
  job.pc # "copyvar" =>
    \A f \in DOMAIN svar.files :
      LET o == svar.files[f] IN o # "u" => Commits[o].var \subseteq DOMAIN svar.files

(* What is sealed is a whole deployment on a labelled /var, whatever was   *)
(* cut short before; and what is in /var stays.                            *)
DeployedWholeStep ==
  /\ SealedComplete'
  /\ LabelledWhenStamped'
  /\ UpdatedGoneStep
  /\ VarKeptStep
=============================================================================
