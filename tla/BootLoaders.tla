---------------------------- MODULE BootLoaders ----------------------------
(***************************************************************************)
(* The boot loader backends (ostree-bootloader-*.c) in a write of the      *)
(* deployments: what each of them makes of the entries in loader.V, when,  *)
(* and what the machine boots from after a crash or a failure in between.  *)
(* Sysroot has the same write with its syncs and without the backends.     *)
(*                                                                         *)
(* A deployment is a number.  Two deployments with one kernel differ in    *)
(* their boot serial, and swapping between them needs no new entries.  An  *)
(* entry is what the boot loader is told of a deployment: the boot version *)
(* and the serial of its ostree= argument and its kernel.                  *)
(***************************************************************************)
EXTENDS Integers, Sequences, FiniteSets

CONSTANTS Kinds,           \* the boot loaders
          SyslinuxConfigs, \* syslinux.cfg at first, but for the entry of ostree
          MaxDeploys       \* bound on the deployments made

VARIABLES how,  \* [kind, se]: the boot loader; whether zipl uses Secure Execution
          boot, \* /boot, /ostree/boot.V and what the boot loader installed
          job   \* [pc, list, n, running]: the command; deployments made; the one running, if any

blVars == <<how, boot, job>>

Kernel(d) == (d + 1) \div 2
Serial(list, i) == Cardinality({j \in 1..(i - 1) : Kernel(list[j]) = Kernel(list[i])})
Entry(ver, list, i) == [ver |-> ver, kernel |-> Kernel(list[i]), serial |-> Serial(list, i)]
Entries(ver, list) == [i \in DOMAIN list |-> Entry(ver, list, i)]

\* A line of syslinux.cfg: DEFAULT, a LABEL with its lines, or something else.  `kernel` is
\* "ostree" for what is ostree's, and "none" for a LABEL without a KERNEL line.
Line(t, kernel, id, e) == [t |-> t, kernel |-> kernel, id |-> id, e |-> e]
OstreeLabel(e) == Line("label", "ostree", "", <<e>>)

Pair(a, b) == [v \in 0..1 |-> IF v = 0 THEN a ELSE b]
First == <<1>> \* the deployment of the installation

BlInit ==
  /\ how \in [kind : Kinds, se : BOOLEAN] /\ (how.se => how.kind = "zipl")
  /\ \E lines \in IF how.kind = "syslinux" THEN SyslinuxConfigs ELSE {<<>>} :
       boot = [cur |-> 0, entries |-> Pair(Entries(0, First), <<>>), links |-> Pair(First, <<>>),
               kernels |-> {Kernel(1)}, cfg |-> Pair(lines \o <<OstreeLabel(Entry(0, First, 1))>>, <<>>),
               uenv |-> Pair(1, 0), efi |-> [cfg |-> Entries(0, First), new |-> <<>>, old |-> <<>>],
               record |-> Entry(0, First, 1), stamp |-> FALSE, mounted |-> FALSE, foreign |-> lines]
  /\ \E running \in {0, 1} : job = [pc |-> "idle", list |-> <<>>, n |-> 1, running |-> running]

Current == boot.links[boot.cur]
target == 1 - boot.cur
Go(pc) == job' = [job EXCEPT !.pc = pc]
Stop == job' = [job EXCEPT !.pc = "idle", !.list = <<>>]
InRange(list, x) == \E i \in DOMAIN list : list[i] = x

-----------------------------------------------------------------------------
(* What is in effect: the list the boot loader shows, and what it boots.   *)

LabelEntries(cfg) ==
  LET labels == SelectSeq(cfg, LAMBDA l : l.t = "label" /\ l.kernel = "ostree")
  IN [i \in DOMAIN labels |-> labels[i].e[1]]

Menu ==
  CASE how.kind \in {"zipl", "aboot"} -> <<boot.record>>
    [] how.kind = "grub2-efi" -> boot.efi.cfg
    [] how.kind = "none" -> boot.entries[boot.cur]
    [] OTHER -> LabelEntries(boot.cfg[boot.cur])

\* The deployment an entry leads to: its kernel is in /boot and its ostree= argument
\* names a link.
Leads(e) == {boot.links[e.ver][i] : i \in {j \in DOMAIN boot.links[e.ver] : Entry(e.ver, boot.links[e.ver], j) = e}}
Bootable(e) == e.kernel \in boot.kernels /\ Leads(e) # {}

-----------------------------------------------------------------------------
(* A write of the deployments.                                             *)

\* A deployment more, the two in the other order, or one less.
Lists ==
  {<<job.n + 1, Current[i]>> : i \in {i \in DOMAIN Current : job.n < MaxDeploys}}
    \cup {[i \in DOMAIN Current |-> Current[Len(Current) + 1 - i]]}
    \cup {<<Current[i]>> : i \in DOMAIN Current}

\* The load refuses a sysroot whose running deployment is not one of its own, and the
\* write a list without it.
Begin(list) ==
  /\ job.pc = "idle"
  /\ job.running # 0 => InRange(Current, job.running) /\ InRange(list, job.running)
  /\ job' = [job EXCEPT !.pc = "prepare_cleanup", !.list = list,
                        !.n = IF InRange(list, job.n + 1) THEN job.n + 1 ELSE job.n]
  /\ UNCHANGED <<how, boot>>

\* What is not of the boot version in use goes, and the kernels no entry names.
Cleaned ==
  [boot EXCEPT !.entries[target] = <<>>, !.links[target] = <<>>, !.cfg[target] = <<>>, !.uenv[target] = 0,
               !.kernels = {e.kernel : e \in {boot.entries[boot.cur][i] : i \in DOMAIN boot.entries[boot.cur]}}]

Kernels(list) == [i \in DOMAIN list |-> Kernel(list[i])]

PrepareCleanup ==
  /\ job.pc = "prepare_cleanup"
  /\ boot' = Cleaned
  /\ IF job.list = Current THEN Stop
     ELSE Go(IF Kernels(job.list) = Kernels(Current) THEN "links_only" ELSE "entries")
  /\ UNCHANGED how

LinksOnly ==
  /\ job.pc = "links_only"
  /\ boot' = [boot EXCEPT !.links[boot.cur] = job.list]
  /\ Go("cleanup") /\ UNCHANGED how

WriteEntries ==
  /\ job.pc = "entries"
  /\ boot' = [boot EXCEPT !.entries[target] = Entries(target, job.list),
                          !.kernels = @ \cup {Kernel(job.list[i]) : i \in DOMAIN job.list}]
  /\ Go("links") /\ UNCHANGED how

WriteLinks ==
  /\ job.pc = "links"
  /\ boot' = [boot EXCEPT !.links[target] = job.list]
  /\ Go("write_config") /\ UNCHANGED how

-----------------------------------------------------------------------------
(* write_config: each backend's own configuration for the new boot version. *)

None_write_config ==
  /\ job.pc = "write_config" /\ how.kind = "none"
  /\ Go("swap") /\ UNCHANGED <<how, boot>>

\* What grub2-mkconfig, or the generator, makes of the entries of a boot version.
generate_config(ver) == [i \in DOMAIN boot.entries[ver] |-> OstreeLabel(boot.entries[ver][i])]

\* Mutant: the configuration is written through the loader link.
MutGrub2 ==
  /\ job.pc = "write_config" /\ how.kind = "grub2-bios"
  /\ boot' = [boot EXCEPT !.cfg[boot.cur] = generate_config(target)] /\ Go("swap")
  /\ UNCHANGED how

\* The tool writes into loader.V, which nothing reads before the swap; it may fail.
Grub2_write_config ==
  /\ job.pc = "write_config" /\ how.kind = "grub2-bios"
  /\ \/ boot' = [boot EXCEPT !.cfg[target] = generate_config(target)] /\ Go("swap")
     \/ boot' = boot /\ Stop
  /\ UNCHANGED how

\* With EFI there is one grub.cfg, outside of loader.V.  It is also what query looks for:
\* a sysroot that lost it has no boot loader any more.
Grub2_query == boot.efi.cfg # <<>>

Grub2_efi_mkconfig ==
  /\ job.pc = "write_config" /\ how.kind = "grub2-efi"
  /\ IF ~Grub2_query THEN boot' = boot /\ Go("swap")
     ELSE \/ boot' = [boot EXCEPT !.efi.new = boot.entries[target]] /\ Go("efi_old")
          \/ boot' = [boot EXCEPT !.efi.new = <<>>] /\ Stop
  /\ UNCHANGED how

\* Mutant: grub.cfg is removed before it is copied.
MutEfiReplace ==
  /\ \/ job.pc = "efi_old" /\ boot' = [boot EXCEPT !.efi.cfg = <<>>] /\ Go("efi_unlink")
     \/ job.pc = "efi_unlink" /\ boot' = [boot EXCEPT !.efi.cfg = boot.efi.new, !.efi.new = <<>>] /\ Go("swap")
  /\ UNCHANGED how

\* cp grub.cfg grub.cfg.old; rm grub.cfg; mv grub.cfg.new grub.cfg: not atomic on FAT.
Grub2_efi_replace ==
  /\ \/ /\ job.pc = "efi_old"
        /\ boot' = [boot EXCEPT !.efi.old = boot.efi.cfg] /\ Go("efi_unlink")
     \/ /\ job.pc = "efi_unlink"
        /\ boot' = [boot EXCEPT !.efi.cfg = <<>>] /\ Go("efi_rename")
     \/ /\ job.pc = "efi_rename"
        /\ boot' = [boot EXCEPT !.efi.cfg = boot.efi.new, !.efi.new = <<>>] /\ Go("swap")
  /\ UNCHANGED how

\* Mutant: a label is judged by the kernel of the one before it.
MutSyslinuxLine(s, l) ==
  CASE l.t = "default" -> [s EXCEPT !.saw = TRUE, !.regenerate = @ \/ l.kernel = "ostree"]
    [] l.t = "label" -> [s EXCEPT !.karg = l.kernel, !.out = IF s.karg = "ostree" THEN @ ELSE Append(@, l)]
    [] OTHER -> [s EXCEPT !.out = Append(@, l)]

\* A pass over the lines of syslinux.cfg.  The labels of ostree are dropped and those of
\* others kept; `karg`, the kernel of the last KERNEL line, outlives its label.
SyslinuxLine(s, l) ==
  LET karg == IF l.t = "label" /\ l.kernel # "none" THEN l.kernel ELSE s.karg
  IN CASE l.t = "default" -> [s EXCEPT !.saw = TRUE, !.regenerate = @ \/ l.kernel = "ostree"]
       [] l.t = "label" -> [s EXCEPT !.karg = karg, !.failed = @ \/ karg = "none",
                                     !.out = IF karg = "ostree" THEN @ ELSE Append(@, l)]
       [] OTHER -> [s EXCEPT !.out = Append(@, l)]

SyslinuxPass(lines) ==
  LET f[i \in 0..Len(lines)] ==
        IF i = 0 THEN [out |-> <<>>, karg |-> "none", saw |-> FALSE, regenerate |-> FALSE, failed |-> FALSE]
        ELSE SyslinuxLine(f[i - 1], lines[i])
  IN f[Len(lines)]

append_config_from_loader_entries(lines, regenerate) ==
  lines \o (IF regenerate THEN <<Line("default", "ostree", "", <<>>)>> ELSE <<>>) \o generate_config(target)

Syslinux_write_config ==
  /\ job.pc = "write_config" /\ how.kind = "syslinux"
  /\ LET s == SyslinuxPass(boot.cfg[boot.cur])
     IN IF s.failed THEN boot' = boot /\ Stop
        ELSE /\ boot' = [boot EXCEPT !.cfg[target] = append_config_from_loader_entries(s.out, s.regenerate \/ ~s.saw)]
             /\ Go("swap")
  /\ UNCHANGED how

\* uEnv.txt has every entry, and the uEnv.txt of the tree the first one leads to.
append_system_uenv(e) == CHOOSE d \in Leads(e) : TRUE

Uboot_write_config ==
  /\ job.pc = "write_config" /\ how.kind = "uboot"
  /\ boot' = [boot EXCEPT !.cfg[target] = generate_config(target),
                          !.uenv[target] = append_system_uenv(boot.entries[target][1])]
  /\ Go("swap") /\ UNCHANGED how

\* zipl and aboot only leave a stamp: their tool runs after the swap.
Stamp_write_config ==
  /\ job.pc = "write_config" /\ how.kind \in {"zipl", "aboot"}
  /\ boot' = [boot EXCEPT !.stamp = TRUE]
  /\ Go("swap") /\ UNCHANGED how

Swap ==
  /\ job.pc = "swap"
  /\ boot' = [boot EXCEPT !.cur = target]
  /\ Go(IF how.kind \in {"zipl", "aboot"} THEN "post_bls_sync" ELSE "cleanup")
  /\ UNCHANGED how

-----------------------------------------------------------------------------
(* post_bls_sync: zipl or aboot-deploy takes the first entry.              *)

RunTool(pc) ==
  \/ boot' = [boot EXCEPT !.record = boot.entries[boot.cur][1]] /\ Go(pc)
  \/ boot' = boot /\ Stop

\* Mutant: the stamp goes before the tool runs.
MutPostSync ==
  /\ job.pc = "post_bls_sync" /\ ~how.se
  /\ \/ boot' = [boot EXCEPT !.stamp = FALSE, !.record = boot.entries[boot.cur][1]] /\ Go("cleanup")
     \/ boot' = [boot EXCEPT !.stamp = FALSE] /\ Stop
  /\ UNCHANGED how

\* The installer runs zipl in the first deployment: the record made is the same.
Post_bls_sync ==
  /\ job.pc = "post_bls_sync" /\ ~how.se
  /\ IF boot.stamp THEN RunTool("unlink_stamp") ELSE boot' = boot /\ Go("cleanup")
  /\ UNCHANGED how

UnlinkStamp ==
  /\ job.pc = "unlink_stamp"
  /\ boot' = [boot EXCEPT !.stamp = FALSE]
  /\ Go("cleanup") /\ UNCHANGED how

\* Secure Execution: mount the partition, make the image, zipl, unmount.  A failure leaves
\* the mount, over which the partition cannot be mounted again; the stamp always stays.
Secure_execution_enable ==
  /\ job.pc = "post_bls_sync" /\ how.se
  /\ IF boot.mounted THEN boot' = boot /\ Stop
     ELSE boot' = [boot EXCEPT !.mounted = TRUE] /\ Go("se_zipl")
  /\ UNCHANGED how

\* The image is made and zipl records it: either may fail.
SeZipl == job.pc = "se_zipl" /\ RunTool("se_umount") /\ UNCHANGED how

SeUmount ==
  /\ job.pc = "se_umount"
  /\ boot' = [boot EXCEPT !.mounted = FALSE]
  /\ Go("cleanup") /\ UNCHANGED how

Cleanup ==
  /\ job.pc = "cleanup"
  /\ boot' = Cleaned
  /\ Stop /\ UNCHANGED how

-----------------------------------------------------------------------------
Killed == job.pc # "idle" /\ Stop /\ UNCHANGED <<how, boot>>

\* The machine starts again, at any time, from an entry of the menu.
Reboot ==
  /\ \E i \in DOMAIN Menu : \E d \in Leads(Menu[i]) :
       job' = [job EXCEPT !.pc = "idle", !.list = <<>>, !.running = d]
  /\ boot' = [boot EXCEPT !.mounted = FALSE]
  /\ UNCHANGED how

BlNext ==
  \/ \E list \in Lists : Begin(list)
  \/ PrepareCleanup \/ LinksOnly \/ WriteEntries \/ WriteLinks
  \/ None_write_config \/ Grub2_write_config \/ Grub2_efi_mkconfig \/ Grub2_efi_replace
  \/ Syslinux_write_config \/ Uboot_write_config \/ Stamp_write_config
  \/ Swap \/ Post_bls_sync \/ UnlinkStamp
  \/ Secure_execution_enable \/ SeZipl \/ SeUmount \/ Cleanup
  \/ Killed \/ Reboot

-----------------------------------------------------------------------------
\* The boot loaders whose configuration is a file of loader.V, so that one rename replaces
\* it: whatever they offer, at any time and after any crash, boots, and it is the whole of
\* the old list or the whole of the new one.
MenuBoots ==
  how.kind \in {"none", "grub2-bios", "syslinux", "uboot"} =>
    /\ Len(Menu) = Len(Current)
    /\ \A i \in DOMAIN Menu : Bootable(Menu[i]) /\ Current[i] \in Leads(Menu[i])

\* zipl and aboot boot what their tool installed last.  When that is not the first entry in
\* use, after a crash or a failure of the tool, the stamp is there for the next run to see.
StampCovers ==
  how.kind \in {"zipl", "aboot"} /\ boot.record # boot.entries[boot.cur][1] => boot.stamp

\* The replacement of grub.cfg on the EFI partition is not atomic, but there is no time at
\* which it is gone and its successor and its copy are not both complete beside it.
EfiKeepsCopies ==
  how.kind = "grub2-efi" /\ boot.efi.cfg = <<>> => boot.efi.new # <<>> /\ boot.efi.old # <<>>

\* Other systems' labels in syslinux.cfg stay, in order, whatever is deployed, and of the
\* labels of ostree there are only those of the boot version in use.
Foreign(lines) == SelectSeq(lines, LAMBDA l : l.t = "other" \/ (l.t = "label" /\ l.kernel = "other"))

SyslinuxForeignKept ==
  how.kind = "syslinux" =>
    /\ Foreign(boot.cfg[boot.cur]) = Foreign(boot.foreign)
    /\ LabelEntries(boot.cfg[boot.cur]) = boot.entries[boot.cur]

\* What the documentation promises of every boot loader that says it is atomic: after a
\* crash, or with the power pulled, the machine has the old system or the new one.  zipl
\* and aboot say so; a record made for the boot version that was since replaced names links
\* the next command's cleanup removes.
is_atomic == how.kind # "grub2-efi"

AtomicLoaderBoots == is_atomic => \E i \in DOMAIN Menu : Leads(Menu[i]) # {}

(* Whatever the backend and wherever a write stopped, the boot loader      *)
(* offers a whole list that boots, or a stamp or a copy says how to repair *)
(* it.                                                                     *)
LoaderBoots ==
  /\ MenuBoots
  /\ StampCovers
  /\ EfiKeepsCopies
  /\ SyslinuxForeignKept
=============================================================================
