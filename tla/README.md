# OSTree in TLA+

This directory holds a TLA+ model of libostree and of the commands built on it:
the repository with its lock, transactions, objects, refs, signatures and static
deltas; pulls; and the sysroot with its deployments and boot configuration. TLC
checks small instances of every part. TLAPS proves the central facts about the
lock, the staging directories, the object store, the delta store and the swap of
the boot configuration for every instance. The models follow the C code under `src/src`; `PROJECT.json` gives the
source lines of every definition.

To repeat a check: `tlc -config Repo.cfg MCRepo`. To repeat a proof:
`tlapm StagingProofs.tla`.

## The system and its modules

A repository is a directory of objects named by checksum, refs that name
commits, and a configuration. Processes share it through the file system. Few of
them talk to each other: they meet in the repository lock, in `tmp/`, in files
that are replaced by rename, and in what they leave behind when they die. The
sysroot deploys commits of the repository, protects them with refs of its own
and makes the machine boot them.

**Lock and object store**

| Module | Models |
|---|---|
| `RepoLockAbs` | what the lock promises: each `OstreeRepo` is unlocked, shared or exclusive, and the modes are compatible |
| `RepoLock` | `push_repo_lock`, `pop_repo_lock`, their retry loops, both kernel lock kinds (`ostree-repo.c`) |
| `RepoStore` | transactions, pulls, prunes and refs of several processes; crashes and power loss (`ostree-repo-commit.c`, `-pull.c`, `-prune.c`) |
| `Staging` | allocation, locking, expiry and removal of staging directories, step by step |
| `ObjectWrite` | the drivers that write, adopt and import objects, and the free-space budget |
| `MutableTree` | `OstreeMutableTree` with its lazy parts and cached checksums, and `write_mtree` |
| `TreeCommit` | the walk of a directory into a mutable tree: filters, adoption, device/inode cache, consuming |
| `Checkout` | checkouts over existing files, whiteouts, links and copies, the uncompressed cache |
| `ArchiveImport` | archives exported and imported, with deferred hard links |

**Static deltas**

| Module | Models |
|---|---|
| `DeltaCompile` | which object goes how into which part, similarity search, chunk limits |
| `DeltaApply` | the part operations and the execution of a delta |
| `DeltaStore` | generators, deleters, indexers and readers of deltas at the same time |

**Pull**

| Module | Models |
|---|---|
| `PullEngine` | the fetch loop: scan queue, pending tables, outstanding counters, retries, deltas, local caches |
| `PullSetup` | options, summary and signature with their cache, choice of refs, end of the pull |
| `FindRemotes` | finders in parallel, choosing the latest commits, pulling remote by remote |
| `Fetcher` | requests over libcurl, their main context, timers, mirrors (`ostree-fetcher-curl.c`) |
| `AsyncProgress` | values set by any thread, the idle source, emission and finish |

**Maintenance**

| Module | Models |
|---|---|
| `Refs` | refs, remote refs, collections and aliases; pending refs of a transaction; `ostree refs` |
| `RepoConfig` | creating and opening a repository, remotes, keyrings, reload |
| `Fsck`, `PruneCmd` | the two commands with their options |
| `Summary` | regeneration of the summary, its signature and the metadata commit |
| `Signing` | key sets and verification; detached metadata under concurrent signers |

**Sysroot**

| Module | Models |
|---|---|
| `BootListAbs` | what the boot configuration promises: the list is replaced as a whole, also by a power loss |
| `Sysroot` | the commands of `ostree admin`, step by step, over two file systems |
| `EtcMerge` | the three-way merge of `/etc` |
| `DeployTree` | how a deployment directory and its `/var` come about, by processes that may be killed |
| `KernelArgs` | the table of kernel arguments, against a plain list |
| `BootLoaders` | when the grub2, syslinux, U-Boot, zipl and aboot backends write what they boot from |
| `BootEntries` | entry files, kernels, overlay initrds, boot counters, `set_kargs_in_place` |
| `Upgrader` | `OstreeSysrootUpgrader`, `admin upgrade`, `switch`, `set-origin` |

`MCRepoLock`, `MCRepoStore`, `MCSysroot`, `MCPull`, `MCRepo`, `MCMaint` and
`MCBoot` are the small instances. `RepoLockProofs`, `StagingProofs`,
`RepoStoreProofs`, `DeltaStoreProofs` and `SysrootProofs` hold the theorems. The
last one rests on `SysrootInv` (the inductive invariant and its lemmas),
`SysrootCalls` (the commands, deployments and the cleanup keep it) and
`SysrootWrites` (so does `write_deployments`).

How modules are put together:

- `RepoLock` implements `RepoLockAbs` (checked and proved), and `RepoStore` takes
  every lock with `Lock!Change` of that same module.
- `Sysroot` implements `BootListAbs` (checked and proved).
- `Staging` is the detailed form of what `RepoStore` does in one step when it
  takes a staging directory.
- `DeltaApply` extends `DeltaCompile` and runs exactly the programs it emits.
- An MC module with several parts has a variable `part`, chosen in the initial
  state and never changed. Each part has its own variables; the others are
  `None`. One run thus checks several independent components, and the state
  count is the sum, not the product. `MCRepoLock`, `MCRepoStore` and `MCSysroot`
  use workloads in the same way.

Operators whose names begin with `Mut` are variants of the definition that
follows them with a plausible mistake in it. Substituted for it, the variant
makes TLC report the property or the conjunct it is about, which shows that the
property can fail. `PROJECT.json` lists one for each property.


## State and actions

### RepoLock

`shared` and `exclusive` are the counters in `repo->lock`, `kernel` is the mode
of its file descriptor, `mutex` the owner of `lock.mutex`. A thread has a
program counter, the guard its call is about, the type it wants and the seconds
it waited. A guard stands for one acquisition (an `OstreeRepoAutoLock`, or the
pair of a push and a pop).

`PushMaintain` is the path that needs no system call, `PushLock` the one that
gets the lock, `PushWait` the attempt that does not; the next ones are
`PushRetry` and `PushTimeout`. `PushCancelled` is the cancellable, looked at
before every non-blocking attempt. `PopLock`, `PopWait`, `PopRetry` and `PopFail`
are the same for a pop that changes the state. `FlockDrop` is the first half of a
conversion by `flock()`, which gives up the old lock. `PushOverflow` is the abort
at `G_MAXUINT`. `Crash` ends a process. A blocking call (`lock-timeout-secs` is
-1) waits with the mutex held, as in the code.

### RepoStore

The state is the names in `objects/`, those of them on disk (`durable`), those
whose data is not (`dirty`), the markers and refs with their state on disk, the
staging directories, the lock modes, and per process the phase of its operation.
A commit has a root directory object and further content, some of it shared.

A transaction is `Prepare`, then for a pull `FetchCommit`, `WriteFetched` and
`ScanCommit`, then `WriteContent` for each object, `WriteCommit` for a local
commit, `CommitSync` (syncfs), `RenameOne` for each object in any order,
`CommitObjects` (the directory fsyncs), `WriteRef`, `CommitUnlock` and, for a
pull, `Unmark`. `Abort` can take the place of any of these. A prune is
`PruneStart`, then `PruneUnmark` and `PruneDelete` for each object in any order,
then `PruneEnd`. `ResolveRev`, `SetRefImmediate` and `DeleteRef` work without the
lock. `Die` and `PowerLoss` are the environment. After a power loss each name
that changed since the last sync is in its old or its new state.

### Writing and reading trees

- `Staging`: every open, lock, check, creation and removal of a name in `tmp/` is
  an action, since processes interleave there without a common lock. A lock
  belongs to a file, not to its name: a process that locked a file which lost
  its name still believes that it holds the lock.
- `ObjectWrite`: threads of one transaction. A step ends where the code gives up
  `txn_lock` or touches the object directory. Data is the name it hashes to, so
  `disk[n]` is `n`, absent or corrupt.
- `MutableTree`: one action per function of the class and `write_mtree`. A
  checksum is modelled by the tree it is the checksum of.
- `TreeCommit`, `Checkout`: a step per directory entry. `Checkout` may stop
  after any of them and be repeated; another process collects the cache.
- `ArchiveImport`: a step per archive entry, then one per deferred link.
- `DeltaCompile` and `DeltaApply`: a compilation is computed by operators, an
  application is one step per operation of a part. `DeltaStore`: a step per file
  that is linked, renamed or removed.

### Pull

- `PullEngine`: `pull` is `OtPullData`. `pull.flight` and `pull.writes` are the
  fetches and writes really under way, where the code has only counters. Every
  callback of the main loop is one action. The checks a commit has to pass are
  one predicate.
- `PullSetup`: versions stand for summaries, signatures and commits. The server
  publishes refs, then a summary, then its signature, at any time; a pull may be
  killed at any step, and the next one finds the cache as it is.
- `FindRemotes`: one action per finder that answers and per stage of
  `find_remotes_cb`, then one per remote that is pulled from.
- `Fetcher`: `timer_cb`, `event_cb`, the steps of `check_multi_info`, callbacks
  that run at once or from the main context and may make the next request.
- `AsyncProgress`: setters hold the lock, emission does not; `finish` runs on the
  context's thread or on another.

### Maintenance

- `Refs`: a space of refs is a directory tree with files, directories and links;
  reading yields a revision or an errno, and every public call is an action. A name
  is looked for among the pending refs, the local refs, `refs/remotes/<name>`, every
  remote and then, in the same order, in the parent repository.
- `RepoConfig`: handles cache a configuration; files are shared. A creation looks for
  the configuration and writes it in two steps, so that two of them can overlap; a
  deletion of a remote removes its definition and then its keyring, and may fail or
  die in between. `rdisk.orphan` remembers the remotes that were left so.
- `Fsck`: a step per object; may be killed. `PruneCmd`: a step per root, in any
  order, since the code walks a hash table.
- `Summary`: a step per file that is read or replaced, by two processes that may die
  or fail at each.
- `Signing`: reading and writing the detached metadata are two steps.

### Sysroot

`root` is `/ostree` (deployment directories, boot symlinks, refs and commits) and
`boot` is `/boot` (loader directories, entries, kernels). `rootDisk` and
`bootDisk` are the states of each that a power loss may leave. A sync shrinks the
set to the current state; the two file systems are synced one after the other,
and a power loss takes any pair. `self` is the `OstreeSysroot` in memory, `plan`
the new list, `outer` the list of the caller while an early prune writes a
shorter one first.

A command (`Deploy`, `Stage`, `Select`, `SetKargs`, `Cleanup`, `Finalize`,
`ChangeFinalization`) sets up a script of calls; each call is a sequence of
actions, one for each change another process or a power loss can tell apart.
`Decide` chooses between the swap of symlinks only and the full swap, which is
`ClearEntries`, `InstallKernel`, `ClearLinks`, `CreateLinks`, `PrepareLoader`,
`FullSyncRoot`, `FullSyncBoot`, `SwapLoader`, `SyncLoader`. The cleanup is
`CleanLoader` to `PruneRepo`. The sysroot lock means that one process runs at a
time; other processes appear as `DirectPrune`. `lockfile` is the separate file in
`/run` that keeps a staged deployment from being finalized.

`EtcMerge` has one action per path and an editor next to it. `DeployTree` has one
per step of `sysroot_initialize_deployment` and of the finalization. In
`BootLoaders` the writes and renames of one configuration are separate. In `Upgrader` the pull,
the look at the end-of-life key, the resolution of the ref, the check of
timestamps, the deployment and the deletion of the old ref are steps between
which the server publishes and other pulls move refs.


## What the runs check

A property of a run is often the conjunction of what one component promises;
each conjunct is a definition of its own, with a comment, in the component's
module. Names ending in `Step` are what every step satisfies.

| Run | Question | Properties |
|---|---|---|
| `lock` | Three configurations of the lock: timeouts with upgrades, blocking, and the `flock()` fallback | `LocksAgree`, `NestedLocksSound`, `HeldIsKept`, `ImplementsContract`, `CallsReturn` |
| `store` | Two processes commit, pull, prune and set refs, fail, die and lose power | `RefsComplete`, `NormalIsComplete`, `StagedIsKept`, `RefedIsKept` |
| `sysroot` | Eight workloads of up to four commands, with one power loss or one kill | `Bootable`, `DeployedIsBacked`, `PruningIsExact`, `AtomicList`, `StagedIsFinalized` |
| `pull` | The fetch loop over ten workloads, the summary cache over three pulls, a search over three remotes, a fetcher, a progress object | `PullSound`, `PullTerminates`, `SummarySound`, `FindSound`, `RequestsAnswered`, `ProgressShown` |
| `repo` | Writing to a repository, reading out of it, and static deltas | `StagingSafe`, `WritesSound`, `ChecksumsCurrent`, `RecordedFaithfully`, `CheckoutFaithful`, `ArchivesFaithful`, `DeltaSound`, `DeltasConsistent` |
| `maint` | Refs, signatures, configuration, fsck, prune, summary | `RefsConsistent`, `SignaturesSound`, `ConfigConsistent`, `FsckHonest`, `PruneExact`, `SummaryConsistent` |
| `boot` | `/etc`, deployment directories, kernel arguments, boot loaders, entries, upgrades | `EtcMerged`, `DeployedWhole`, `KargsMatchList`, `LoaderBoots`, `EntriesBoot`, `UpgradeSound` |

What the most important ones say:

- `RefsComplete`: what a ref names is there with its whole tree, and no file of
  it would be found empty after a power loss.
- `NormalIsComplete`: a pulled commit without a `.commitpartial` marker is
  complete. The next pull relies on it and does not scan such a commit. Commits
  built locally never have a marker and are exempt.
- `Bootable`: whatever pair of states the two file systems fall back to, every
  boot entry leads to a finished deployment with its kernel, and the running
  deployment keeps its entry.
- `AtomicList`: the list of boot entries is replaced as a whole (refinement of
  `BootListAbs`).
- `StagedIsFinalized`: what was staged and not locked is the default after the
  reboot, with no failure on record, unless the kernels of the list to be written
  do not fit in `/boot` even after the early prune. In that case the stamp may be
  missing too, since it is written to the same full file system. Until then the
  directory stays and the lock file does not lock it by accident.
- `PullSound`: the six outstanding counters equal the requests and writes really
  under way, so the loop, which ends on the counters, ends with nothing pending;
  and a commit is verified before it is stored, and complete or marked.
- `SummarySound`: a verifying pull uses a summary that its signature covers and
  that is as new as the server's signature was when it asked, whatever an earlier
  pull left in the cache when it was killed.
- `StagingSafe`: a staging directory has one user, and stays, as long as its lock
  file is not expired while it is held.
- `WritesSound`: an object is what its name says whichever driver wrote it, and
  the free-space budget is never too large.
- `RecordedFaithfully`: cache hits, adopted files and ordinary writes give the
  same object.
- `DeltaSound`: whatever the compiler emits runs to its end and gives the new
  commit. An archive repository is the exception the code names itself: applied
  offline, a delta that builds on an old commit ends the process in the assertion of
  `dispatch_open` ("FIXME - lift this restriction"). A delta from nothing has no such
  operation, and runs to its end there too.
- `DeltasConsistent`: readers see one generation of a delta, with all its parts,
  next to generators, deleters and indexers.
- `EtcMerged`: three trees with files and directories in each other's place.
- `UpgradeSound`: no commit older than the merge deployment's is deployed unless
  that was allowed, although the ref is resolved again after it was checked.

### Disagreements with a run

In these runs TLC finds the property violated; each states what the
documentation, a comment or an assertion says.

| Run | What happens |
|---|---|
| `store_prune_crash` | A prune that stops half way leaves a commit without its marker and its tree (`ostree-repo-prune.c:277`). |
| `sysroot_links_only` | The loaded list, with a staged deployment in front, is compared index by index with a list without it, so the last deployment is never compared. Here it has a new kernel, only symlinks are swapped, and a boot entry is left that leads nowhere (`ostree-sysroot-deploy.c:2929`). In the same way new kernel arguments of the last deployment alone are taken for no change. |
| `sysroot_staged_dropped` | After an early prune the staged deployment is deleted although it comes first in the list (`ostree-sysroot-deploy.c:2853`). |
| `sysroot_foreign_prune` | A prune by another process while deployment refs are replaced deletes a deployed commit (`ostree-sysroot-cleanup.c:415`). |
| `boot_loader_atomic` | With zipl or aboot, a crash after the swap and before the record is written, then a cleanup: the record names files that are gone (`ostree-sysroot-deploy.c:2251`). |

### Disagreements without a run

The following are stated in the modules and not listed in a configuration. To
see one, put it into the configuration of its MC module instead of the other
properties. All were found violated.

| Property | Instance | What happens |
|---|---|---|
| `FlockExclusion` | `MCRepoLock` | With `flock()` an upgrade gives up the shared lock first (`ostree-repo.c:274`). |
| `IdleUnlocked` | `MCRepoStore`, workload `Cancel` | A commit cancelled at its last step keeps the shared lock, and abort does not release it (`ostree-repo-commit.c:2349`). |
| `Bootable` | `MCSysroot`, workload `KilledSwapping` | Killed after the rename of `/boot/loader`, then a cleanup, then a power loss: the old loader directory is back without its symlinks (`ostree-sysroot-deploy.c:2228`). |
| `ErrorWaitsForOutstanding` | `MCPull` | A request that fails to start makes the pull return with others in flight. |
| `MostUsefulFirst` | `MCPull` | Results with fewer refs and older summaries are sorted first (`ostree-repo-finder.c:486`). |
| `DeliveredFromOneMirror` | `MCPull` | Body, size and ETag of a mirror that failed are not reset for the next one. |
| `QuietAfterAnyFinish` | `MCPull` | After `finish` on another thread the signal may still come. |
| `ExpectedVerified` | `MCRepo` | A metadata write with an expected checksum that is present does not look at the data (`ostree-repo-commit.c:1388`). |
| `BudgetSoundWithReflinks` | `MCRepo` | A reflinked object that is there already is credited twice. |
| `DirModesFinal` | `MCRepo` | A checkout over the directory that an interrupted one had made leaves it with the provisional mode 0700. |
| `AppliedUnvalidated` | `MCRepo` | `skip_validation` is passed on as `stats_only`, so nothing is applied. |
| `PartsWithinChunk` | `MCRepo` | Rollsum and bsdiff objects are not counted against the chunk size. |
| `DirMetaKept` | `MCRepo` | The metadata of a directory entry that comes after files in it is dropped. |
| `RefsKept` | `MCMaint` | Writing a remote or mirrored ref removes the directory of its name with the refs in it (`ostree-repo-refs.c:104`). |
| `LocalOnlyResolves` | `MCMaint` | `x^` is looked for in remotes although only local refs are asked for (`ostree-repo-refs.c:386`). |
| `SignedStaysConcurrent`, `ReadingsAgree`, `DeleteRemovesAll` | `MCMaint` | Commands that sign or delete signatures at the same time lose updates; `gpg-sign --delete` reads the metadata twice. |
| `ReloadFresh` | `MCMaint` | A reload keeps `disable_fsync`, the free-space settings and the parent repository when their keys are gone. |
| `CreationHarmless` | `MCMaint` | Of two creations at once the slower one replaces the configuration that the other has written, with the remotes that were added since (`ostree-repo.c:2699`). |
| `SignatureAlwaysMatches` | `MCMaint` | Summary and signature are made in a directory of their own "so that the summary isn't published without a matching signature" (`ostree-repo.c:6200`); a process that dies between the two renames, a signature that cannot be removed, or two regenerations at once leave the signature of another summary. |
| `TombstoneForMissing` | `MCMaint` | `fsck --add-tombstones` replaces the commit whose parent is missing, not the missing one (`ot-builtin-fsck.c:292`). |
| `OnlyBranchPruned`, `RetainZero` | `MCMaint` | Walks share one set of visited commits, so the depth of one branch cuts or keeps another's history (`ostree-repo-traverse.c:547`). |
| `ModifiedWins` | `MCBoot` | Changed attributes of a directory of `/etc` are lost where the new defaults have the directory. |
| `VarComplete` | `MCBoot` | A `/var` half copied by a process that was killed is taken for a whole one. |
| `DeleteIfExists`, `SetKargsOthersKept` | `MCBoot` | Whether an argument is present is asked by its key, so deleting `key=value` fails when the key has another value; `set-kargs --merge` splits quoted arguments at their spaces. |
| `OneEntryEach`, `DefaultNotAppended`, `ManagedNotInherited` | `MCBoot` | With boot counting an edit in place leaves two entries; keys of the entry merged from, `fdtdir` and appended ones among them, are inherited. |
| `OriginRefKept`, `SwitchSticks`, `NoChangeMeansDefault` | `MCBoot` | A switch to a ref that redirects back deletes the ref now followed; an upgrade before the reboot goes by the booted origin; "No update available" is said of the booted deployment while another one is the default. |


### What the passing runs leave out

The models do not keep the properties in the following situations, so the
workloads avoid them. All other steps stay in the run.

- `store`: a prune interrupted while pulled commits are around
  (`store_prune_crash`).
- `store`: prunes next to pulls that abort or die before `CommitObjects`. The
  staging directory stays and is used again; when a prune has removed the marker
  of the commit in it, the next pull publishes the commit without one
  (`ostree-repo-commit.c:1912`).
- `store`: deleting the ref of a commit whose pull has not removed its marker
  yet. The removal happens after the lock is released (`ostree-repo-pull.c:4901`),
  and hits the marker of a later pull after a prune.
- `store`: `ostree_repo_set_ref_immediate` next to prunes. It takes no lock
  (`ostree-repo-commit.c:2214`), so the commit may be gone.
- `sysroot`: death at the step after `SwapLoader` and prunes by others at
  `write_refs` (`spared` in `MCSysroot`).
- `sysroot`: `--not-as-default` together with `--retain` or `--retain-pending`
  when there may be a staged deployment (`sysroot_links_only`).
- `sysroot`: `Select` writes any list of the deployments without repetition, but
  puts at most one other behind the staged one. Longer ones meet the comparison
  by index of `sysroot_links_only`.
- `sysroot`: `StagedIsFinalized` excuses a lock file that a killed process left.
- `pull`: two pulls sharing the summary cache (`ConcurrentSetups`). They set
  ETags by path on each other's files, and an old summary can stay.
- `repo`: `StagingSafe` exempts a directory whose lock file the cleanup expired
  while it was held (`tmp.expired`): a transaction longer than `tmp-expiry-secs`
  then shares its directory with the next one. Filters that change what is adopted
  are left out (`FilterChanges`).
- `maint`: `ConfigConsistent` exempts the keyring of a remote whose deletion stopped
  between the definition and the keyring (`ostree-repo.c:1860`), or whose definition a
  second creation overwrote.
- `maint`: `SummaryConsistent` exempts the summary of a regeneration that broke off
  between the two renames, failed to remove the signature, or had been overtaken by
  another, until one completes.
- `maint`: a second `OstreeRepo` that writes the configuration (`Handles`).
- `boot`: `UpgradeSound` exempts a redirection back to the ref a switch leaves.

## Bounds

- Lock: two or three `OstreeRepo`s, three threads, four or five guards,
  `G_MAXUINT` 2, one retry. Two guards for one thread allow nesting in any order;
  a counter that reaches `G_MAXUINT` makes the overflow check fire. The proofs
  have no such bound.
- Store: two processes suffice for each race (writer and pruner, two writers,
  reuse of a directory the other left), and either may do any number of
  operations. Commits share one file, so a prune of one can hurt the other.
  `Procs` is symmetric; the temporal properties are step properties, which
  symmetry does not spoil.
- Sysroot: four commits, three kernels (two commits share one, so both kinds of
  swap happen), two sets of kernel arguments, two to four commands, at most one
  power loss or one kill, three deployments, serials up to 1. `/boot` has room for
  one, two or three kernels. `CHECK_DEADLOCK FALSE`: the number of commands is
  bounded, so behaviours end.
- Pull: two commits, the second a child of the first, two trees, two files, two
  deltas, one with an inline part and a fallback; limits of two fetches, two writes
  and one delta part, so that they are reached; one retry. The server publishes
  once, in three steps, during three pulls, so that every file of the cache can be
  older or newer than the others. Three remotes and two refs; four requests, two
  main contexts, two mirrors; two progress keys set three times.
- Repo: two processes and two names in `tmp/`, one of them a leftover; two threads
  that make three writes, of three files and two metadata objects; four tree
  nodes; a source with a hard-linked file, a set-uid file, a link and a fifo;
  two checkouts of a tree with each kind of whiteout over clutter; every archive
  of up to four entries out of eleven, in every order; deltas whose varints take
  more than one digit (`VarBase` 4); two deltas, two processes, two generations.
- Maint: three spaces of refs with names that are prefixes of each other, a remote
  with the name of a directory of local refs, a parent repository, three calls; two signers with key files that are ill-formed, missing or revoke a key;
  two remotes; fsck over two commits that share a directory, with up to two
  damaged objects, run twice; prunes of three commits in a line and one beside
  it; two refs, one delta and three operations of two processes for the summary.
- Boot: three nested paths of `/etc` and all triples of trees over them; five
  commits that differ in `/etc`, `/var`, kernel and tmpfiles, two deployments;
  lists of up to three kernel arguments; three deployments with every backend;
  four trees with old and new kernel layouts, two commands; two branches with two
  commits each, one of which redirects.

## Fairness

- `CallsReturn` (lock): weak fairness of the steps of a thread inside
  `ostree_repo_lock_push` or `_pop`. The operating system schedules a running
  thread, and the retry loop sleeps a bounded time. Nothing is assumed about calls
  being made, locks being released by their users, or crashes. A blocking lock
  may wait for ever on a user that never releases, so the property is about
  timeouts.
- `PullTerminates`: weak fairness of the steps of the main loop. The pull iterates
  its own main context until it is done, and every request ends, if only by its
  timeout.
- `RequestsAnswered`: weak fairness of the fetcher's steps, strong fairness of
  socket events and callbacks. The caller iterates the context, which dispatches
  ready sources in turn, so one source does not starve another; libcurl's
  timeouts end transfers that hang.
- `ProgressShown`: weak fairness of the context's thread.

No other property assumes fairness.

## What is proved

TLAPS checks the following for every value of the constants, thus for any number
of processes, threads, directories, commits and deltas.

| Module | Theorem | States | Assumes |
|---|---|---|---|
| `RepoLockProofs` | `Agreement` | the counters are the numbers of guards held, the kernel lock is the one they stand for, and no two users of different `OstreeRepo`s hold incompatible locks (`LocksAgree`) | OFD locks |
| | `Kept` | no step takes the kernel lock away under a user that keeps its guard (`HeldIsKept`) | OFD locks |
| | `Refinement` | `Spec` implements `RepoLockAbs` (`ImplementsContract`) | OFD locks |
| | `NoCycle` | blocking calls never wait for each other in a circle | OFD locks, no upgrades, one thread for each `OstreeRepo` |
| `StagingProofs` | `Exclusive` | a staging directory has one user, unless its lock file was expired while held | names of processes are not marks of lock files |
| | `Stays` | it is not removed under its user | the same |
| `RepoStoreProofs` | `Types` | every variable has its type | |
| | `StagedKept` | what a transaction staged stays until it renames it (`StagedIsKept`) | |
| | `RefedKept` | no step takes an object that a complete commit with a ref needs (`RefedIsKept`) | no ref is set without a lock next to a prune of refs; power is lost only where nothing is pruned |
| | `Completeness` | what a ref names is there, whole or marked, and readable after a power loss (`RefsComplete`) | orderly workloads |
| | `Normality` | a pulled commit without a marker is complete (`NormalIsComplete`) | orderly workloads |
| `DeltaStoreProofs` | `Complete` | a delta with a superblock has all its parts, unless generators overlapped or a deletion is not over | |
| | `OneGeneration` | what an execution has read to the end is of one generation | |
| | `AlwaysAdvertised` | there is no index without `core/indexed-deltas` | |
| `SysrootProofs` | `AlwaysBootable` | whatever the two file systems fall back to, every boot entry leads to a finished deployment with its kernel, and the running one keeps its entry (`Bootable`) | careful workloads |
| | `ListIsAtomic` | `Spec` implements `BootListAbs` (`AtomicList`) | careful workloads |

"OFD locks" means open file description locks, which are converted in one step
(`FlockFallback` is `FALSE`). With `flock()` exclusion fails (`FlockExclusion`
above). The constants satisfy `LockConstants`, `StoreConstants` and
`SysrootConstants`, which TLC evaluates on its instances, `StagingConstants` and
`StyleConstants`. `Types` and
`StagedKept` hold for all workloads, power loss and death included. The bounds
of an instance, such as `MaxOps`, are constants like the others.

A workload of the store is orderly when nothing is pruned; or prunes delete no
commit, only content that no commit needs; or nothing is pulled; or pulls run
next to prunes, a ref stays with its commit and a process that dies leaves
nothing staged. Power may be lost in the first kind. Outside these workloads the
two theorems are false: a prune may delete a marker while the staging directory
of a dead transaction still has its commit, and a ref that moves lets a prune
delete a commit that is about to be unmarked (see "What the passing runs leave
out").

A workload of the sysroot is careful (`Careful` in `SysrootInv`) when no process
is killed between the rename of `/boot/loader` and its sync, and no deployment
that is not to be the default is made with `--retain` or `--retain-pending` while
something may be staged. Power may be lost at any step, that one included. Both
conditions are needed: the workload `KilledSwapping` and the run
`sysroot_links_only` violate `Bootable` without them. Numbers of commands, kills,
power losses, commits, kernels and deployments are any.

### Lock

`MutualExclusion` speaks of what users believe, which only the counters and the
kernel connect, so it is not inductive. `IInv` adds

- `CountersMatchGuards` and `KernelMatchesCounters`, the chain from beliefs to
  the kernel;
- `KernelExclusion`, what the kernel guarantees;
- `CallInv`: a call in progress is about a guard of its own thread, free during
  a push and held during a pop, so counters change exactly as the guards do;
- `MutexInv`: a thread that sleeps in the kernel owns the mutex, so the
  decision it took from the counters is still right when it wakes up;
- `DisabledInv`: without locking nothing is counted.

`TakeGuard` and `FreeGuard` connect one guard with one unit of a counter,
`NextIInv` has one case for each action, `HeldIsBacked` derives the properties.
`NoCycle` adds `WaitsWithNothing`: who sleeps in the kernel holds nothing there,
since only an upgrade waits with a lock.

### Staging directories

That two transactions are apart follows from the lock file, but a lock is on an
inode and its name may be gone. `ActorInv` says what a process knows at each
step: in a transaction, and when it removes or unlocks a directory, the file that
has the name now is the one it locked, and the directory of a transaction is
there. The cleanup removes a lock file it considers old without regard to the
lock, after which all of this may fail: for the old holder, and also for the next
one, whose directory and lock file the old holder removes by name. So the facts are
stated for the names outside `tmp.expired`, the history of such removals, and
nothing is assumed about which files get old.

### Object store

`StagedIsKept` needs no more than the types and that two processes never have one
directory. For `RefedIsKept` the list of objects that a prune made at its start
has to stay right while it deletes. `Control` says so: `LockHeld` ties the phase
of a process to its lock mode, so that transactions are kept out of `objects/` and
of the refs while a prune runs, and `Lists` says that the list has no object of a
complete commit with a ref. `ostree_repo_set_ref_immediate` takes no lock, hence
the assumption.

`RefsComplete` and `NormalIsComplete` are about commits that one process marks,
fills and unmarks while others prune, fail and reuse its directory. The invariant
is `StoreInv == Control /\ Complete /\ Durable`. `Complete` follows a commit
through its transaction: it is whole or marked (`AllMarked`), what is staged grows
towards what the phase promises (`AllProgress`), refs point to what is there
(`Named`), a commit about to be unmarked is whole (`Unmarking`), and in careful
workloads nothing is left staged (`Tidy`). `Durable` says the same of the disk:
nothing in `objects/` is ahead of its contents, and without prunes a power loss
finds every commit marked or whole. TLC has checked `StoreInv` on nine workloads
(22.7 million states).

### Static deltas

`Shape` gives the fields of the variables. `Sound` says that inode numbers are
handed out in order (`Inodes`), that a generator whose directory nobody else
generates into is alone there and finds no superblock (`Alone`), that the parts
it has linked are there (`Linked`), and that a directory some process deletes
from is known to go (`Going`). `OneSoFar` is the invariant of a reader: the parts
it has read are of the generation of its superblock.

### Sysroot

`Bootable` speaks of every pair of states that `/ostree` and `/boot` may fall back
to, so a step that changes one of them has to be right with all older states of
the other. `SysrootInvariant` is inductive. It has four parts.

- `Booting`: `Good(r, b)` holds for every pair. It adds to `Bootable` that the key
  of an entry (kernel and boot serial) is the one its deployment has in the list,
  which is what makes a swap of symlinks alone possible. Except between the
  rename of `/boot/loader` and its sync, all states of `/boot` have the same list.
- `Process`: what the process knows. Its list is the one on disk, with the staged
  deployment in front (`Knows`), except between a swap and the reload after it.
  What is staged has a directory and is not finished (`StagedSound`). The rest of
  its script fits its command (`Scripted`), and the deployment it is about to write
  is finished (`Made`).
- `Swap`: what is being written. The new list has finished deployments only and
  the running one among them (`Planned`, `Swapped`). A swap of symlinks is under
  way only if the keys of the new list are those of the entries in use. At each
  phase of a full swap the entries and symlinks written so far are those of the
  new list, first in memory and, after the sync of `/ostree`, in every state the
  disk may fall back to (`Linked`).
- `WorkSound`: the workload is careful.

That a comparison of the lists decides correctly for a swap of symlinks
(`LinksOnly`) is where the second condition of `Careful` is needed: a staged
deployment that is kept in front shifts the list, and the comparison is right only
if the rest of the list is as it was (`FrontKept`).

One lemma for each group of actions shows that the invariant is kept and that the
step is `ListStep`, which says what becomes of the list: it stays, it is switched
while everything else on disk has the old one, everything is flushed, or a power
loss picks one of the lists on disk. `ListStep` is a step of `BootListAbs` or a
stutter, and `StepSound` puts both together. The lists are parts of other lists
(`Kept`), and their keys are ranks among deployments with one kernel, so the
lemmas in `SysrootInv` count. They take the facts about finite sets they need as a
hypothesis, `Counting`, which `SysrootProofs` proves from the library
(`Counted`). TLC has checked `SysrootInvariant` on the workloads of the `sysroot`
run and on wider ones, with all commands, a power loss and a kill together (3.0
million states) and with a small `/boot` (134 thousand states).

## Only model-checked

Liveness under fairness (`CallsReturn`, `PullTerminates`, `RequestsAnswered`,
`ProgressShown`) is beyond the prover, and so is what a recursive definition
computes for every input: kernel arguments, delta programs, traversals, merges
and walks. Without a theorem are

- outside the workloads named above, `RefsComplete`, `NormalIsComplete`,
  `Bootable` and `AtomicList`, which the code does not keep there;
- `DeployedIsBacked`, `PruningIsExact` and `StagedIsFinalized` of `Sysroot`. They
  need invariants on the repository's commits and refs, on the room in `/boot` and
  on the lock file next to `SysrootInvariant`;
- the half of `NestedLocksSound` about `flock()`. The other half, about blocking
  locks, is what `Agreement` and `NoCycle` say of that instance;
- the properties of the other modules. What TLC shows for them is about the
  instances above.
