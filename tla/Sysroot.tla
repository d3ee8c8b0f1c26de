------------------------------- MODULE Sysroot -------------------------------
(***************************************************************************)
(* The deployments of a booted system: `ostree admin deploy`, `deploy      *)
(* --stage`, `undeploy`, `set-kargs`, `cleanup` and the finalization of a  *)
(* staged deployment at shutdown, with /ostree and /boot on file systems   *)
(* of their own, each of which loses what was not synced when the power    *)
(* goes.  The processes hold the sysroot lock, so one runs at a time.      *)
(***************************************************************************)
EXTENDS Integers, FiniteSets, Sequences

CONSTANTS
    Commits,    \* the commits that get deployed
    Kernels,    \* boot checksums
    KernelOf,   \* commit -> the boot checksum of its tree
    Kargs,      \* kernel arguments, the ostree= one left out
    Boot0,      \* the commit deployed and booted at first
    MaxSerial,  \* bound on the deployserial
    MaxDeployments, \* bound on the positions a command names
    Workloads,  \* records: what the processes may do (see Begin)
    None

Versions == {0, 1}

Dirs == [commit : Commits, serial : 0..MaxSerial]

(* /run/ostree/staged-deployment: the deployment, what it was merged from, *)
(* and whether its finalization is locked.                                 *)
StagedFiles == [dir : Dirs, kargs : Kargs \cup {None}, merge : Dirs, locked : BOOLEAN]

ASSUME SysrootConstants ==
    /\ KernelOf \in [Commits -> Kernels]
    /\ Boot0 \in Commits
    /\ MaxSerial \in Nat /\ MaxDeployments \in Nat
    /\ Kargs # {} /\ None \notin Kargs \cup Versions /\ None \notin StagedFiles
    /\ Workloads \subseteq
         [kinds : SUBSET STRING, flags : SUBSET (SUBSET STRING), commits : SUBSET Commits,
          ops : Nat, kills : Nat, losses : Nat, capacity : Nat,
          died : BOOLEAN, direct : BOOLEAN, spared : SUBSET STRING]

VARIABLES
    workload,   \* the element of Workloads this behaviour runs, and what is left of it
    root,       \* /ostree as the processes see it
    rootDisk,   \* the states of /ostree a power loss may leave
    boot,       \* /boot as the processes see it
    bootDisk,   \* the states of /boot a power loss may leave
    staged,     \* /run/ostree/staged-deployment
    lockfile,   \* whether /run/ostree/staged-deployment-locked is there
    booted,     \* the directory the system runs from
    pc,         \* the step the running process is at
    script,     \* the calls it still has to make
    req,        \* its command line
    self,       \* OstreeSysroot: bootversion, subbootversion, deployments
    new,        \* the deployment being made
    plan,       \* new_deployments
    outer       \* new_deployments of the call that started an early prune

disks == <<root, rootDisk, boot, bootDisk>>
memory == <<script, req, self, new, plan, outer>>
runstate == <<staged, lockfile>>
vars == <<workload, disks, runstate, booted, pc, memory>>

(* An OstreeDeployment.  `same`: the object is one of self.deployments.    *)
Deployments ==
    [dir : Dirs, kargs : Kargs \cup {None}, staged : BOOLEAN, same : BOOLEAN]

Object(d, k) == [dir |-> d, kargs |-> k, staged |-> FALSE, same |-> FALSE]

Kernel(d) == KernelOf[d.commit]

KernelsOf(s) == {Kernel(s[i].dir) : i \in DOMAIN s}

DirsOf(s) == {s[i].dir : i \in DOMAIN s}

(* The elements of s at the positions I, in their order.                   *)
Kept(s, I) ==
    [k \in 1..Cardinality(I) |-> s[CHOOSE i \in I : Cardinality({j \in I : j <= i}) = k]]

(***************************************************************************)
(* The file systems.  In /ostree, link[v] is the symlink boot.v (None:     *)
(* absent), farm[v][s] the symlinks of the directory boot.v.s, deploys the *)
(* deployment directories, sealed the finished ones, commits the contents  *)
(* of the repository, tip the commit the branch names and refs the         *)
(* deployment refs ostree/v/s/i.  Both file systems keep the order of      *)
(* their updates: a power loss takes one back to a state it went through   *)
(* since it was last synced.                                               *)
(***************************************************************************)
OneFarm(v, s, f) == [x \in Versions |-> [y \in Versions |-> IF x = v /\ y = s THEN f ELSE <<>>]]

bootserial(s, i) == Cardinality({j \in 1..(i - 1) : Kernel(s[j].dir) = Kernel(s[i].dir)})

Key(s, i) == <<Kernel(s[i].dir), bootserial(s, i)>>

Entry(s, i) == [key |-> Key(s, i), kargs |-> s[i].kargs]

Farm(s) ==
    [k \in {Key(s, i) : i \in DOMAIN s} |-> s[CHOOSE i \in DOMAIN s : Key(s, i) = k].dir]

WriteRoot(r) == root' = r /\ rootDisk' = rootDisk \cup {r}

WriteBoot(b) == boot' = b /\ bootDisk' = bootDisk \cup {b}

(* _ostree_sysroot_read_current_subbootversion                             *)
Subversion(r, v) == IF r.link[v] = None THEN 0 ELSE r.link[v]

Links(r, b) == r.farm[b.loader][Subversion(r, b.loader)]

(* list_deployments_process_one_boot_entry succeeds on every entry of the  *)
(* active loader directory.                                                *)
Loadable(r, b) ==
    /\ b.entries[b.loader] # <<>>
    /\ \A i \in DOMAIN b.entries[b.loader] :
          /\ b.entries[b.loader][i].key \in DOMAIN Links(r, b)
          /\ Links(r, b)[b.entries[b.loader][i].key] \in r.deploys

(* The deployments the boot loader offers: directory and arguments.        *)
Offered(r, b) ==
    [i \in DOMAIN b.entries[b.loader] |->
        LET e == b.entries[b.loader][i] IN
        [dir |-> IF e.key \in DOMAIN Links(r, b) THEN Links(r, b)[e.key] ELSE None,
         kargs |-> e.kargs]]

(* sysroot_load_from_bootloader_configs; the staged deployment comes first *)
Load(r, b, st) ==
    [bootversion |-> b.loader,
     subbootversion |-> Subversion(r, b.loader),
     deployments |->
        (IF st = None THEN <<>>
         ELSE <<[dir |-> st.dir, kargs |-> st.kargs, staged |-> TRUE, same |-> TRUE]>>)
        \o [i \in DOMAIN Offered(r, b) |->
              [dir |-> Offered(r, b)[i].dir, kargs |-> Offered(r, b)[i].kargs,
               staged |-> FALSE, same |-> TRUE]]]

Init ==
    LET first == <<Object([commit |-> Boot0, serial |-> 0], CHOOSE k \in Kargs : TRUE)>> IN
    /\ workload \in Workloads
    /\ root = [link |-> [v \in Versions |-> IF v = 0 THEN 0 ELSE None],
               farm |-> OneFarm(0, 0, Farm(first)),
               deploys |-> DirsOf(first), sealed |-> DirsOf(first),
               commits |-> {Boot0}, tip |-> Boot0,
               refs |-> {[v |-> 0, s |-> 0, i |-> 1, commit |-> Boot0]}]
    /\ boot = [loader |-> 0, tmp |-> None, failed |-> FALSE, kernels |-> KernelsOf(first),
               entries |-> [v \in Versions |-> IF v = 0 THEN <<Entry(first, 1)>> ELSE <<>>]]
    /\ rootDisk = {root} /\ bootDisk = {boot}
    /\ staged = None /\ lockfile = FALSE
    /\ booted = first[1].dir
    /\ pc = "idle" /\ script = <<>> /\ req = None /\ self = None
    /\ new = None /\ plan = <<>> /\ outer = None

(***************************************************************************)
(* The commands.  Each takes the lock and loads the sysroot.               *)
(***************************************************************************)
Continue(s) == pc' = Head(s) /\ script' = Tail(s)

Exited ==
    /\ pc' = "idle" /\ script' = <<>> /\ req' = None /\ self' = None
    /\ new' = None /\ plan' = <<>> /\ outer' = None

Begin(r, s) ==
    /\ pc = "idle"
    /\ workload.ops > 0 /\ r.kind \in workload.kinds
    /\ Loadable(root, boot)
    /\ workload' = [workload EXCEPT !.ops = @ - 1]
    /\ req' = r
    /\ self' = Load(root, boot, staged)
    /\ Continue(s)
    /\ UNCHANGED <<disks, runstate, booted, new, plan, outer>>

(* A pull, then ot_admin_builtin_deploy, without and with --stage          *)
Deploy(c, flags) ==
    Begin([kind |-> "deploy", commit |-> c, flags |-> flags],
          <<"pull", "clean", "checkout", "seal", "write", "clean", "prune", "exit">>)

Stage(c, locked) ==
    Begin([kind |-> "stage", commit |-> c, locked |-> locked],
          IF locked
          THEN <<"pull", "clean", "touch", "checkout", "run", "restage", "reload", "clean",
                 "clean", "exit">>
          ELSE <<"pull", "clean", "checkout", "run", "restage", "reload", "clean", "clean",
                 "exit">>)

(* ostree_sysroot_write_deployments with some of the deployments in some   *)
(* order: `undeploy`, `set-default` and what a client of the library asks. *)
(* Behind the staged deployment it names one other at most: of more, the   *)
(* write compares each with its neighbour (see RequiresNewBootversion).    *)
Orderly(order, list) == Len(order) <= 2 \/ ~list[order[1]].staged

Select(order) ==
    /\ Begin([kind |-> "select", order |-> order], <<"write", "clean", "prune", "exit">>)
    /\ LET list == Load(root, boot, staged).deployments
       IN (\A i \in DOMAIN order : order[i] \in DOMAIN list) /\ Orderly(order, list)

(* ostree_sysroot_deployment_set_kargs, which asserts it is not staged     *)
SetKargs(i, k) ==
    LET list == Load(root, boot, staged).deployments IN
    /\ i \in DOMAIN list /\ ~list[i].staged
    /\ Begin([kind |-> "set_kargs", index |-> i, dir |-> list[i].dir, kargs |-> k],
             <<"write", "clean", "prune", "exit">>)

Cleanup == Begin([kind |-> "cleanup"], <<"clean", "prune", "exit">>)

(* _ostree_sysroot_finalize_staged: at shutdown, unless locked             *)
Finalize ==
    Begin([kind |-> "finalize", target |-> staged],
          IF staged = None \/ (staged # None /\ staged.locked) \/ lockfile
          THEN <<"stamp", "shutdown">>
          ELSE <<"unlink", "seal", "write", "clean", "stamp", "shutdown">>)

(* ostree_sysroot_change_finalization, which goes by the state file        *)
ChangeFinalization ==
    /\ staged # None
    /\ Begin([kind |-> "lock"],
             <<"relock", IF staged.locked THEN "untouch" ELSE "touch", "exit">>)

Relock ==
    /\ pc = "relock"
    /\ staged' = [staged EXCEPT !.locked = ~@]
    /\ Continue(script)
    /\ UNCHANGED <<workload, disks, lockfile, booted, req, self, new, plan, outer>>

(* The lock file of older versions, still written and still heeded         *)
TouchLockFile ==
    /\ pc \in {"touch", "untouch"}
    /\ lockfile' = (pc = "touch")
    /\ Continue(script)
    /\ UNCHANGED <<workload, disks, staged, booted, req, self, new, plan, outer>>

(* The pull: fetched objects are synced before the branch moves to them.   *)
Pull ==
    LET fetched == [root EXCEPT !.commits = @ \cup {req.commit}] IN
    /\ pc = "pull"
    /\ root' = [fetched EXCEPT !.tip = req.commit]
    /\ rootDisk' = {fetched, root'}
    /\ Continue(script)
    /\ UNCHANGED <<workload, boot, bootDisk, runstate, booted, req, self, new, plan, outer>>

Exit ==
    /\ pc = "exit"
    /\ Exited
    /\ UNCHANGED <<workload, disks, runstate, booted>>

(* There is no room for another kernel, and maybe not for a small file.    *)
BootFull == Cardinality(boot.kernels) >= workload.capacity

(* An error ends the command.  A failed finalization leaves a stamp, if    *)
(* there is room for it; if not, nothing but its exit status tells.        *)
Fail ==
    IF req.kind = "finalize"
    THEN /\ \/ WriteBoot([boot EXCEPT !.failed = TRUE])
            \/ BootFull /\ UNCHANGED <<boot, bootDisk>>
         /\ pc' = "shutdown"
         /\ UNCHANGED memory
    ELSE Exited /\ UNCHANGED <<boot, bootDisk>>

(***************************************************************************)
(* Making a deployment.                                                    *)
(***************************************************************************)
(* allocate_deployserial                                                   *)
NewSerial(c) ==
    LET used == {d.serial : d \in {e \in root.deploys : e.commit = c}} IN
    IF used = {} THEN 0 ELSE (CHOOSE n \in used : \A m \in used : m <= n) + 1

(* sysroot_initialize_deployment                                           *)
Checkout ==
    /\ pc = "checkout"
    /\ NewSerial(req.commit) <= MaxSerial
    /\ LET d == [commit |-> req.commit, serial |-> NewSerial(req.commit)] IN
       /\ new' = Object(d, None)
       /\ WriteRoot([root EXCEPT !.deploys = @ \cup {d}])
    /\ Continue(script)
    /\ UNCHANGED <<workload, boot, bootDisk, runstate, booted, req, self, plan, outer>>

(* sysroot_finalize_deployment: the arguments of the merge deployment, the *)
(* booted one, unless some were given; /etc merged and the tree sealed.    *)
Seal ==
    /\ pc = "seal"
    /\ new' = [new EXCEPT !.kargs =
                  IF @ = None
                  THEN self.deployments[CHOOSE i \in DOMAIN self.deployments :
                                           self.deployments[i].dir = booted].kargs
                  ELSE @]
    /\ WriteRoot([root EXCEPT !.sealed = @ \cup {new.dir}])
    /\ self' = IF req.kind = "finalize" THEN [self EXCEPT !.deployments = Tail(@)] ELSE self
    /\ Continue(script)
    /\ UNCHANGED <<workload, boot, bootDisk, runstate, booted, req, plan, outer>>

(* ostree_sysroot_stage_tree_with_options: the state file in /run          *)
WriteStaged ==
    /\ pc = "run"
    /\ staged' = [dir |-> new.dir, kargs |-> new.kargs, merge |-> booted, locked |-> req.locked]
    /\ Continue(script)
    /\ UNCHANGED <<workload, disks, lockfile, booted, req, self, new, plan, outer>>

StagedObject == self.deployments # <<>> /\ self.deployments[1].staged

(* _ostree_sysroot_rmrf_deployment, which skips the booted one             *)
RemoveDir(d) ==
    IF d = booted
    THEN UNCHANGED <<root, rootDisk>>
    ELSE WriteRoot([root EXCEPT !.deploys = @ \ {d}, !.sealed = @ \ {d}])

(* ... and the deployment that was staged before is deleted, then its lock *)
DeleteRestaged ==
    /\ pc = "restage"
    /\ IF StagedObject
       THEN /\ RemoveDir(self.deployments[1].dir)
            /\ pc' = "untouch" /\ UNCHANGED script
       ELSE Continue(script) /\ UNCHANGED <<root, rootDisk>>
    /\ UNCHANGED <<workload, boot, bootDisk, runstate, booted, req, self, new, plan, outer>>

Reload ==
    /\ pc = "reload"
    /\ self' = Load(root, boot, staged)
    /\ Continue(script)
    /\ UNCHANGED <<workload, disks, runstate, booted, req, new, plan, outer>>

(* _ostree_sysroot_finalize_impl_staged_deployment: the state file goes    *)
(* first, so that a half merged /etc is never taken up again.              *)
UnlinkStaged ==
    /\ pc = "unlink"
    /\ IF staged.merge \in DirsOf(self.deployments)
       THEN /\ staged' = None /\ UNCHANGED lockfile
            /\ new' = [self.deployments[1] EXCEPT !.staged = FALSE, !.same = FALSE]
            /\ Continue(script)
            /\ UNCHANGED <<boot, bootDisk, req, self, plan, outer>>
       ELSE Fail /\ UNCHANGED runstate
    /\ UNCHANGED <<workload, root, rootDisk, booted>>

(***************************************************************************)
(* Writing a list of deployments.                                          *)
(***************************************************************************)
BootedIndex(s) == CHOOSE i \in DOMAIN s : s[i].dir = booted

(* ostree_sysroot_simple_write_deployment; the merge deployment is the     *)
(* booted one.                                                             *)
SimpleWrite(s, d, flags) ==
    LET b == BootedIndex(s)
        Retain(i) ==
            \/ "retain" \in flags
            \/ i = b
            \/ "retain_pending" \in flags /\ i < b
            \/ "retain_rollback" \in flags /\ i > b
        Retained(from, to) == Kept(s, {i \in from..to : Retain(i)})
    IN  IF "not_default" \in flags
        THEN Retained(1, b) \o <<d>> \o Retained(b + 1, Len(s))
        ELSE <<d>> \o Retained(1, Len(s))

(* The list each command asks for.                                         *)
NewDeployments ==
    LET current == self.deployments IN
    CASE req.kind = "deploy"    -> SimpleWrite(current, new, req.flags)
      [] req.kind = "finalize"  -> SimpleWrite(current, new, {})
      [] req.kind = "select"    -> [i \in DOMAIN req.order |-> current[req.order[i]]]
      [] req.kind = "set_kargs" ->
            [current EXCEPT ![req.index] = Object(@.dir, req.kargs)]

WriteDeployments ==
    /\ pc = "write"
    /\ plan' = NewDeployments
    /\ pc' = "early"
    /\ UNCHANGED <<workload, disks, runstate, booted, script, req, self, new, outer>>

(* Mutant of ActiveKernels: cruft in /boot is not removed first.           *)
MutActiveKernels == boot.kernels

(* _ostree_sysroot_cleanup_bootfs: kernels of no loaded deployment go      *)
ActiveKernels == boot.kernels \cap KernelsOf(self.deployments)

(* Deployments whose kernel is not in /boot are counted one by one.        *)
NetNew == Cardinality({i \in DOMAIN plan : Kernel(plan[i].dir) \notin ActiveKernels})

ToRemove == Cardinality(ActiveKernels \ KernelsOf(plan))

Fits(n) == n <= workload.capacity - Cardinality(ActiveKernels)

(* Mutant of PruneHelps: nothing is pruned early.                          *)
MutPruneHelps == FALSE

PruneHelps == ~Fits(NetNew) /\ (NetNew <= ToRemove \/ Fits(NetNew - ToRemove))

Common ==
    Kept(self.deployments, {i \in DOMAIN self.deployments :
                               Kernel(self.deployments[i].dir) \in KernelsOf(plan)})

BootedIsPruned == Kernel(booted) \notin KernelsOf(plan)

(* auto_early_prune_old_deployments: when the kernels do not fit in /boot  *)
(* beside the old ones, the deployments in common are written first.       *)
EarlyPrune ==
    /\ pc = "early" /\ ~(PruneHelps /\ BootedIsPruned)
    /\ WriteBoot([boot EXCEPT !.kernels = ActiveKernels])
    /\ IF PruneHelps THEN plan' = Common /\ outer' = plan ELSE UNCHANGED <<plan, outer>>
    /\ pc' = "retain"
    /\ UNCHANGED <<workload, root, rootDisk, runstate, booted, script, req, self, new>>

(* ... which aborts when the list leaves out the booted deployment         *)
EarlyPruneAborts ==
    /\ pc = "early" /\ PruneHelps /\ BootedIsPruned
    /\ WriteBoot([boot EXCEPT !.kernels = ActiveKernels])
    /\ Exited
    /\ UNCHANGED <<workload, root, rootDisk, runstate, booted>>

(* ostree_sysroot_write_deployments_with_options: the staged deployment is *)
(* kept only when it is the first of the new list, compared by address.    *)
StagedRetained == plan # <<>> /\ plan[1].staged /\ plan[1].same

RetainStaged ==
    /\ pc = "retain"
    /\ plan' = Kept(plan, {i \in DOMAIN plan : ~plan[i].staged})
    /\ pc' = IF StagedObject /\ ~StagedRetained THEN "drop_run" ELSE "decide"
    /\ UNCHANGED <<workload, disks, runstate, booted, script, req, self, new, outer>>

(* Mutant of DropStagedState: the file in /run is not unlinked.            *)
MutDropStagedState ==
    /\ pc = "drop_run"
    /\ pc' = "drop_dir"
    /\ UNCHANGED <<workload, disks, runstate, booted, memory>>

DropStagedState ==
    /\ pc = "drop_run"
    /\ staged' = None
    /\ pc' = "drop_dir"
    /\ UNCHANGED <<workload, disks, lockfile, booted, memory>>

DropStagedDir ==
    /\ pc = "drop_dir"
    /\ RemoveDir(self.deployments[1].dir)
    /\ pc' = "drop_lock"
    /\ UNCHANGED <<workload, boot, bootDisk, runstate, booted, memory>>

(* Mutant of DropStagedLock: the lock is forgotten.                        *)
MutDropStagedLock ==
    /\ pc = "drop_lock"
    /\ self' = [self EXCEPT !.deployments = Tail(@)]
    /\ pc' = "decide_dropped"
    /\ UNCHANGED <<workload, disks, runstate, booted, script, req, new, plan, outer>>

DropStagedLock ==
    /\ pc = "drop_lock"
    /\ lockfile' = FALSE
    /\ self' = [self EXCEPT !.deployments = Tail(@)]
    /\ pc' = "decide_dropped"
    /\ UNCHANGED <<workload, disks, staged, booted, script, req, new, plan, outer>>

(* deployment_bootconfigs_equal, for deployments of one stateroot and one  *)
(* version, without initrd overlays                                        *)
SameConfig(a, b) == Kernel(a.dir) = Kernel(b.dir) /\ a.kargs = b.kargs

(* self->deployments and the filtered new list are compared index by index *)
Compared == {i \in DOMAIN plan : ~self.deployments[i].staged}

RequiresNewBootversion ==
    \/ Len(plan) # Len(self.deployments) - (IF StagedObject THEN 1 ELSE 0)
    \/ \E i \in Compared : ~SameConfig(self.deployments[i], plan[i])

IsNoop ==
    /\ ~RequiresNewBootversion
    /\ \A i \in Compared : plan[i].same /\ plan[i].dir = self.deployments[i].dir

(* do_postclean: these callers leave the cleanup to the write              *)
Postclean == req.kind \in {"select", "set_kargs"} /\ outer = None

(* The call returns to the command, or to the call it prunes for, which    *)
(* holds objects of before the reload.                                     *)
Return(rest) ==
    IF outer = None
    THEN Continue(rest) /\ UNCHANGED <<boot, bootDisk, plan, outer>>
    ELSE /\ WriteBoot([boot EXCEPT !.kernels = @ \cap KernelsOf(self'.deployments)])
         /\ plan' = [i \in DOMAIN outer |-> [outer[i] EXCEPT !.same = @ /\ pc = "decide"]]
         /\ outer' = None
         /\ pc' = "retain"
         /\ UNCHANGED script

Noop ==
    /\ pc \in {"decide", "decide_dropped"}
    /\ IsNoop
    /\ self' = IF pc = "decide_dropped" THEN Load(root, boot, staged) ELSE self
    /\ Return(IF Postclean THEN SubSeq(script, 3, Len(script)) ELSE script)
    /\ UNCHANGED <<workload, root, rootDisk, runstate, booted, req, new>>

(* Mutant of Writable: the booted deployment is not looked for.            *)
MutWritable == plan # <<>> /\ DirsOf(plan) \subseteq root.deploys

Writable == booted \in DirsOf(plan) /\ DirsOf(plan) \subseteq root.deploys

Refuse ==
    /\ pc \in {"decide", "decide_dropped"}
    /\ ~IsNoop /\ ~Writable
    /\ Fail
    /\ UNCHANGED <<workload, root, rootDisk, runstate, booted>>

Decide ==
    /\ pc \in {"decide", "decide_dropped"}
    /\ ~IsNoop /\ Writable
    /\ pc' = IF RequiresNewBootversion THEN "entries" ELSE "sub_clear"
    /\ UNCHANGED <<workload, disks, runstate, booted, memory>>

(***************************************************************************)
(* Swapping the boot configuration.  In the "sub" steps the boot entries   *)
(* stay and only the symlinks /ostree/boot.v are swapped; in the "new"     *)
(* steps entries and symlinks of the other bootversion are written and     *)
(* /boot/loader is swapped.                                                *)
(***************************************************************************)
target == IF pc \in {"sub_clear", "sub_links", "sub_swap"}
          THEN self.bootversion ELSE 1 - self.bootversion

(* write_deployments_bootswap: the other loader directory is emptied       *)
ClearEntries ==
    /\ pc = "entries"
    /\ WriteBoot([boot EXCEPT !.entries[target] = <<>>])
    /\ pc' = "install"
    /\ UNCHANGED <<workload, root, rootDisk, runstate, booted, memory>>

(* install_deployment_kernel, for the next deployment of the list          *)
InstallKernel ==
    LET i == Len(boot.entries[target]) + 1
        kernels == boot.kernels \cup {Kernel(plan[i].dir)}
    IN
    /\ pc = "install"
    /\ IF Cardinality(kernels) > workload.capacity
       THEN Fail
       ELSE /\ WriteBoot([boot EXCEPT !.kernels = kernels,
                                      !.entries[target] = Append(@, Entry(plan, i))])
            /\ pc' = IF i = Len(plan) THEN "new_clear" ELSE "install"
            /\ UNCHANGED memory
    /\ UNCHANGED <<workload, root, rootDisk, runstate, booted>>

(* Mutant of NewSub: the links in use are rewritten.                       *)
MutNewSub ==
    IF target = self.bootversion THEN self.subbootversion ELSE Subversion(root, target)

(* create_new_bootlinks writes the subbootversion that is not in use       *)
NewSub == 1 - (IF target = self.bootversion THEN self.subbootversion
               ELSE Subversion(root, target))

ClearLinks ==
    /\ pc \in {"sub_clear", "new_clear"}
    /\ WriteRoot([root EXCEPT !.farm[target][NewSub] = <<>>])
    /\ pc' = IF pc = "sub_clear" THEN "sub_links" ELSE "new_links"
    /\ UNCHANGED <<workload, boot, bootDisk, runstate, booted, memory>>

CreateLinks ==
    /\ pc \in {"sub_links", "new_links"}
    /\ WriteRoot([root EXCEPT !.farm[target][NewSub] = Farm(plan)])
    /\ pc' = IF pc = "sub_links" THEN "sync_sub" ELSE "new_swap"
    /\ UNCHANGED <<workload, boot, bootDisk, runstate, booted, memory>>

SwapLinks ==
    /\ pc \in {"sub_swap", "new_swap"}
    /\ WriteRoot([root EXCEPT !.link[target] = NewSub])
    /\ pc' = IF pc = "sub_swap" THEN "finish" ELSE "prepare"
    /\ UNCHANGED <<workload, boot, bootDisk, runstate, booted, memory>>

(* prepare_new_bootloader_link                                             *)
PrepareLoader ==
    /\ pc = "prepare"
    /\ WriteBoot([boot EXCEPT !.tmp = target])
    /\ pc' = "sync_new"
    /\ UNCHANGED <<workload, root, rootDisk, runstate, booted, memory>>

(* Mutant of FullSyncRoot: /ostree is not synced.                          *)
MutFullSyncRoot ==
    /\ pc \in {"sync_sub", "sync_new"}
    /\ pc' = IF pc = "sync_sub" THEN "freeze_sub" ELSE "freeze_new"
    /\ UNCHANGED <<workload, disks, runstate, booted, memory>>

(* full_system_sync: syncfs on /ostree, then freeze and thaw /boot         *)
FullSyncRoot ==
    /\ pc \in {"sync_sub", "sync_new"}
    /\ rootDisk' = {root}
    /\ pc' = IF pc = "sync_sub" THEN "freeze_sub" ELSE "freeze_new"
    /\ UNCHANGED <<workload, root, boot, bootDisk, runstate, booted, memory>>

FullSyncBoot ==
    /\ pc \in {"freeze_sub", "freeze_new"}
    /\ bootDisk' = {boot}
    /\ pc' = IF pc = "freeze_sub" THEN "sub_swap" ELSE "swap"
    /\ UNCHANGED <<workload, root, rootDisk, boot, runstate, booted, memory>>

(* swap_bootloader: the rename, then freeze and thaw again                 *)
SwapLoader ==
    /\ pc = "swap"
    /\ WriteBoot([boot EXCEPT !.loader = boot.tmp, !.tmp = None])
    /\ pc' = "freeze_again"
    /\ UNCHANGED <<workload, root, rootDisk, runstate, booted, memory>>

SyncLoader ==
    /\ pc = "freeze_again"
    /\ bootDisk' = {boot}
    /\ pc' = "finish"
    /\ UNCHANGED <<workload, root, rootDisk, boot, runstate, booted, memory>>

(* write_deployments_finish                                                *)
Finish ==
    /\ pc = "finish"
    /\ self' = Load(root, boot, staged)
    /\ Return(script)
    /\ UNCHANGED <<workload, root, rootDisk, runstate, booted, req, new>>

(***************************************************************************)
(* _ostree_sysroot_cleanup_internal                                        *)
(***************************************************************************)
(* cleanup_other_bootversions                                              *)
CleanLoader ==
    /\ pc = "clean"
    /\ WriteBoot([boot EXCEPT !.entries[1 - self.bootversion] = <<>>])
    /\ pc' = "clean_links"
    /\ UNCHANGED <<workload, root, rootDisk, runstate, booted, memory>>

CleanLinks ==
    LET v == self.bootversion IN
    /\ pc = "clean_links"
    /\ WriteRoot([root EXCEPT !.link[1 - v] = None,
                              !.farm = OneFarm(v, self.subbootversion, @[v][self.subbootversion])])
    /\ pc' = "clean_deploys"
    /\ UNCHANGED <<workload, boot, bootDisk, runstate, booted, memory>>

(* Mutant of Unused: unfinished directories are not looked at.             *)
MutUnused == root.sealed \ (DirsOf(self.deployments) \cup {booted})

Unused == root.deploys \ (DirsOf(self.deployments) \cup {booted})

(* cleanup_old_deployments, one directory at a time                        *)
CleanDeployment ==
    /\ pc = "clean_deploys" /\ Unused # {}
    /\ \E d \in Unused : RemoveDir(d)
    /\ UNCHANGED <<workload, boot, bootDisk, runstate, booted, pc, memory>>

(* _ostree_sysroot_cleanup_bootfs                                          *)
CleanBootfs ==
    /\ pc = "clean_deploys" /\ Unused = {}
    /\ WriteBoot([boot EXCEPT !.kernels = ActiveKernels])
    /\ pc' = "clean_refs"
    /\ UNCHANGED <<workload, root, rootDisk, runstate, booted, memory>>

OwnRef(r) == r.v = self.bootversion /\ r.s = self.subbootversion

(* generate_deployment_refs: the other versions' refs are deleted first    *)
CleanRefs ==
    /\ pc = "clean_refs"
    /\ WriteRoot([root EXCEPT !.refs = {r \in @ : OwnRef(r)}])
    /\ pc' = "write_refs"
    /\ UNCHANGED <<workload, boot, bootDisk, runstate, booted, memory>>

(* Mutant of WriteRefs: the loop stops one deployment early.               *)
MutWriteRefs ==
    LET list == self.deployments IN
    /\ pc = "write_refs"
    /\ root' = [root EXCEPT !.refs =
          {r \in @ : r.i >= Len(list)} \cup
          {[v |-> self.bootversion, s |-> self.subbootversion, i |-> i,
            commit |-> list[i].dir.commit] : i \in 1..(Len(list) - 1)}]
    /\ rootDisk' = {root, root'}
    /\ Continue(script)
    /\ UNCHANGED <<workload, boot, bootDisk, runstate, booted, req, self, new, plan, outer>>

(* ... and written by a transaction, which begins its commit with a syncfs *)
WriteRefs ==
    LET list == self.deployments IN
    /\ pc = "write_refs"
    /\ root' = [root EXCEPT !.refs =
          {r \in @ : r.i > Len(list)} \cup
          {[v |-> self.bootversion, s |-> self.subbootversion, i |-> i,
            commit |-> list[i].dir.commit] : i \in DOMAIN list}]
    /\ rootDisk' = {root, root'}
    /\ Continue(script)
    /\ UNCHANGED <<workload, boot, bootDisk, runstate, booted, req, self, new, plan, outer>>

Referenced == {root.tip} \cup {r.commit : r \in root.refs}

(* ostree_sysroot_cleanup_prune_repo                                       *)
PruneRepo ==
    /\ pc = "prune"
    /\ WriteRoot([root EXCEPT !.commits =
          @ \cap (Referenced \cup {d.commit : d \in DirsOf(self.deployments)})])
    /\ Continue(script)
    /\ UNCHANGED <<workload, boot, bootDisk, runstate, booted, req, self, new, plan, outer>>

(* A finalization that worked removes the stamp of an earlier one.         *)
ClearStamp ==
    /\ pc = "stamp"
    /\ WriteBoot([boot EXCEPT !.failed = FALSE])
    /\ Continue(script)
    /\ UNCHANGED <<workload, root, rootDisk, runstate, booted, req, self, new, plan, outer>>

(***************************************************************************)
(* The world around: the machine and other processes.                      *)
(***************************************************************************)
BootFrom(r, b) ==
    /\ root' = r /\ rootDisk' = {r} /\ boot' = b /\ bootDisk' = {b}
    /\ \E i \in DOMAIN Offered(r, b) : booted' = Offered(r, b)[i].dir
    /\ staged' = None /\ lockfile' = FALSE
    /\ Exited

(* A clean shutdown writes everything; /run is lost.                       *)
Reboot ==
    /\ pc = "shutdown"
    /\ BootFrom(root, boot)
    /\ UNCHANGED workload

(* _ostree_sysroot_boot_complete reports the stamp and removes it          *)
BootComplete ==
    /\ pc = "idle" /\ boot.failed
    /\ WriteBoot([boot EXCEPT !.failed = FALSE])
    /\ UNCHANGED <<workload, root, rootDisk, runstate, booted, pc, memory>>

PowerLoss ==
    /\ workload.losses > 0
    /\ workload' = [workload EXCEPT !.losses = @ - 1]
    /\ \E r \in rootDisk, b \in bootDisk : BootFrom(r, b)

(* The running process is killed; what it wrote stays visible.             *)
Die ==
    /\ pc \notin {"idle", "shutdown"} \cup workload.spared /\ workload.kills > 0
    /\ workload' = [workload EXCEPT !.kills = @ - 1, !.died = TRUE]
    /\ IF req.kind = "finalize"
       THEN /\ pc' = "shutdown" /\ req' = [kind |-> "killed"]
            /\ UNCHANGED <<script, self, new, plan, outer>>
       ELSE Exited
    /\ UNCHANGED <<disks, runstate, booted>>

(* `ostree prune --refs-only` by a process that does not use the sysroot   *)
DirectPrune ==
    /\ workload.direct /\ pc \notin workload.spared
    /\ WriteRoot([root EXCEPT !.commits = @ \cap Referenced])
    /\ UNCHANGED <<workload, boot, bootDisk, runstate, booted, pc, memory>>

(* Lists without repetitions.                                              *)
SelectOrders ==
    {o \in UNION {[1..n -> 1..MaxDeployments] : n \in 1..MaxDeployments} :
        \A i, j \in DOMAIN o : o[i] = o[j] => i = j}

Command ==
    \/ \E c \in workload.commits, flags \in workload.flags : Deploy(c, flags)
    \/ \E c \in workload.commits, locked \in BOOLEAN : Stage(c, locked)
    \/ \E order \in SelectOrders : Select(order)
    \/ \E i \in 1..MaxDeployments, k \in Kargs : SetKargs(i, k)
    \/ Cleanup \/ Finalize \/ ChangeFinalization \/ Exit

Make == Pull \/ Checkout \/ Seal \/ WriteStaged \/ DeleteRestaged \/ Reload \/ UnlinkStaged
    \/ Relock \/ TouchLockFile

Write ==
    \/ WriteDeployments \/ EarlyPrune \/ EarlyPruneAborts \/ RetainStaged \/ DropStagedState
    \/ DropStagedDir \/ DropStagedLock
    \/ Noop \/ Refuse \/ Decide \/ ClearEntries \/ InstallKernel \/ ClearLinks \/ CreateLinks
    \/ SwapLinks \/ PrepareLoader \/ FullSyncRoot \/ FullSyncBoot \/ SwapLoader \/ SyncLoader
    \/ Finish

Clean ==
    \/ CleanLoader \/ CleanLinks \/ CleanDeployment \/ CleanBootfs \/ CleanRefs \/ WriteRefs
    \/ PruneRepo \/ ClearStamp

Machine == Reboot \/ BootComplete \/ PowerLoss \/ Die \/ DirectPrune

Next == Command \/ Make \/ Write \/ Clean \/ Machine

Spec == Init /\ [][Next]_vars

(***************************************************************************)
(* Properties.                                                             *)
(***************************************************************************)
(* The running system is never taken away: its directory stays, and the    *)
(* list keeps an entry for it, whatever is deployed, undeployed or pruned. *)
BootedIsOffered ==
    booted \in root.sealed /\ booted \in DirsOf(Offered(root, boot))

(* Whenever the power goes, every entry of the active loader directory     *)
(* leads to a finished deployment whose kernel is in /boot, and the one    *)
(* that is running stays among them.                                       *)
Bootable ==
    /\ BootedIsOffered
    /\ \A r \in rootDisk, b \in bootDisk :
          /\ Loadable(r, b)
          /\ DirsOf(Offered(r, b)) \subseteq r.sealed
          /\ \A i \in DOMAIN b.entries[b.loader] : b.entries[b.loader][i].key[1] \in b.kernels

(* The list of deployments is replaced atomically: a power loss leaves the *)
(* list of before or of after the last swap (write_deployments).           *)
BootList == INSTANCE BootListAbs WITH
    list <- Offered(root, boot),
    fallback <- {Offered(r, b) : r \in rootDisk, b \in bootDisk}

AtomicList == BootList!Spec

(* The state file in /run never names a directory that is gone, also when  *)
(* a process died between the two.                                         *)
StagedHasDirectory == staged # None => staged.dir \in root.deploys

(* The repository keeps the commit of every deployment, booted or staged.  *)
DeployedIsBacked ==
    /\ \A r \in rootDisk, b \in bootDisk :
          \A d \in DirsOf(Offered(r, b)) : d.commit \in r.commits
    /\ staged # None => staged.dir.commit \in root.commits

(* When its caller keeps the booted deployment, the assertions of          *)
(* auto_early_prune_old_deployments hold: it too keeps the booted one, and *)
(* it removes at least one of the others.                                  *)
EarlyPruneAsserts ==
    pc = "early" /\ PruneHelps /\ booted \in DirsOf(plan) =>
        /\ booted \in DirsOf(Common)
        /\ Len(Common) < Len(self.deployments)

(* A cleanup that ran to its end left nothing behind by any command, also  *)
(* not by one that died: no directory, kernel or boot link without use.    *)
CleanupIsComplete ==
    pc = "clean_refs" =>
        /\ root.deploys = DirsOf(self.deployments)
        /\ boot.kernels \subseteq KernelsOf(self.deployments)
        /\ root.link[1 - boot.loader] = None

(* Pruning is neither too much nor too little: the early one keeps what is *)
(* booted, and a cleanup leaves nothing without use.                       *)
PruningIsExact == EarlyPruneAsserts /\ CleanupIsComplete

(* Unless a process was killed, which may leave its lock file behind, the  *)
(* lock file never locks what the state file calls unlocked: nothing that  *)
(* was staged unlocked inherits the lock of one staged before.             *)
LockFileAgrees ==
    pc = "idle" /\ lockfile /\ ~workload.died => staged # None /\ staged.locked

(* A staged deployment that was not locked is the default of the next boot,*)
(* with no failure on record, when its finalization ran to its end; unless *)
(* it was killed, it does when the kernels of the list it writes, without  *)
(* those of the deployments pruned early, fit in /boot.  Until then its    *)
(* directory stays, and nothing else locks it.                             *)
StagedIsFinalized ==
    [][/\ Reboot /\ req.kind = "finalize" /\ req.target # None
            /\ ~req.target.locked /\ ~lockfile =>
          IF script = <<>>
          THEN Offered(root, boot)[1].dir = req.target.dir /\ ~boot.failed
          ELSE Cardinality(KernelsOf(plan)) > workload.capacity
       /\ StagedHasDirectory'
       /\ LockFileAgrees']_vars

(* The staged deployment is dropped only when the list the caller gave     *)
(* ostree_sysroot_write_deployments does not start with it.                *)
StagedFirstIsRetained ==
    pc = "drop_run" /\ req.kind = "select" => req.order[1] # 1
=============================================================================
