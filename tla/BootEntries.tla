---------------------------- MODULE BootEntries ----------------------------
(***************************************************************************)
(* What a boot entry says: the kernel, initramfs and device tree found in  *)
(* a tree, their copies under /boot/ostree, the keys of the entry in       *)
(* loader.V/entries (ostree-bootconfig-parser.c), its name with the boot   *)
(* counters, and the edits of the kernel arguments in place.               *)
(*                                                                         *)
(* A tree has the files of usr/lib/modules/$kver, or of the older layout   *)
(* (usr/lib/ostree-boot, whose names carry a checksum), or both; a content *)
(* "" is a missing file.  An entry is kept as its lines.                   *)
(***************************************************************************)
EXTENDS Integers, Sequences, FiniteSets, TLC

CONSTANTS Trees,      \* the trees, by name
          Overlays,   \* the overlay initrds a deployment may ask for
          Tries,      \* the values of boot-counting-tries
          MaxDeploys, \* bound on the deployments made
          MaxCommands \* bound on the commands run

VARIABLES deps, \* the deployments made: [tree, csum, overlays]
          bent, \* /boot: [cur, entries, links, files, overlays], and `max` (boot-counting-tries)
          run,  \* /run: [initrds, staged]
          bjob  \* the command: [pc, op, list, i], and `n`, the commands begun

beVars == <<deps, bent, run, bjob>>

-----------------------------------------------------------------------------
(* The kernel of a tree.                                                   *)

File(kind, kver, content) == [kind |-> kind, kver |-> kver, content |-> content]
Present(files) == {f \in files : f.content # ""}

\* What goes into the boot checksum: the kernel, the initramfs and the device tree, which
\* is one file or a directory; neither the HMAC of the kernel nor the Android image.
get_kernel_from_tree_usrlib_modules(m) ==
  [ok |-> TRUE, initrd |-> m.initrd # "",
   csum |-> <<m.kernel, m.initrd, IF m.dt # "" THEN m.dt ELSE m.dtb>>,
   files |-> Present({File("kernel", m.kver, m.kernel), File("initrd", m.kver, m.initrd),
                      File("dt", m.kver, m.dt), File("hmac", m.kver, m.hmac), File("aboot", m.kver, m.aboot),
                      File("dtb", "", IF m.dt = "" THEN m.dtb ELSE "")})]

get_kernel_from_tree_legacy_layouts(l) ==
  [ok |-> (l.initrd # "" => l.icsum = l.kcsum) /\ (l.dt # "" => l.dcsum = l.kcsum),
   initrd |-> l.initrd # "", csum |-> <<"legacy", l.kcsum, "">>,
   files |-> Present({File("kernel", l.kver, l.kernel), File("initrd", l.kver, l.initrd), File("dt", l.kver, l.dt)})]

NoKernel == [ok |-> FALSE, initrd |-> FALSE, csum |-> <<"", "", "">>, files |-> {}]

\* usr/lib/modules unless only the older layout has an initramfs.  A mismatch in the older
\* one is an error even where it would not be used.
get_kernel_from_tree(t) ==
  LET m == get_kernel_from_tree_usrlib_modules(t.modules[1])
      l == get_kernel_from_tree_legacy_layouts(t.legacy[1])
  IN CASE t.modules = <<>> /\ t.legacy = <<>> -> NoKernel
       [] t.legacy = <<>> -> m
       [] t.modules = <<>> -> l
       [] OTHER -> IF ~l.ok THEN NoKernel ELSE IF ~m.initrd /\ l.initrd THEN l ELSE m

Layout(d) == get_kernel_from_tree(Trees[deps[d].tree])
Has(d, kind) == \E f \in Layout(d).files : f.kind = kind
Of(d, kind) == CHOOSE f \in Layout(d).files : f.kind = kind

-----------------------------------------------------------------------------
(* An entry: keys with their values, and more than one initrd.             *)

\* The lines of an entry: the known keys in order, the overlays after the first initrd,
\* then the others.  The title is left out.
Fields == <<"version", "options", "devicetree", "linux", "initrd">>
Others == <<"fdtdir", "aboot", "abootcfg", "append">>
Keyed(conf, keys) ==
  LET has == SelectSeq(keys, LAMBDA k : k \in DOMAIN conf.opts)
  IN [i \in DOMAIN has |-> <<has[i], conf.opts[has[i]]>>]

\* Mutant: the overlays come before the initramfs of the tree.
MutWriteAt(conf) ==
  [i \in DOMAIN conf.overlays |-> <<"initrd", conf.overlays[i]>>] \o Keyed(conf, Fields) \o Keyed(conf, Others)

ostree_bootconfig_parser_write_at(conf) ==
  Keyed(conf, Fields) \o [i \in DOMAIN conf.overlays |-> <<"initrd", conf.overlays[i]>>] \o Keyed(conf, Others)

\* The first initrd is the key, the others are overlays; of another key the last line counts.
ostree_bootconfig_parser_parse_at(lines) ==
  LET initrds == SelectSeq(lines, LAMBDA l : l[1] = "initrd")
      last(k) == CHOOSE i \in DOMAIN lines : lines[i][1] = k /\ \A j \in (i + 1)..Len(lines) : lines[j][1] # k
  IN [opts |-> [k \in {lines[i][1] : i \in DOMAIN lines} |-> IF k = "initrd" THEN initrds[1][2] ELSE lines[last(k)][2]],
      overlays |-> [i \in 1..(Len(initrds) - 1) |-> initrds[i + 1][2]]]

Set(conf, key, value) == [conf EXCEPT !.opts = (key :> value) @@ @]

\* The keys a staged deployment takes over: all but those of this list.
standard_bls_keys == {"title", "version", "options", "linux", "initrd", "devicetree"}
get_extra_keys(conf) ==
  [k \in (DOMAIN conf.opts) \ standard_bls_keys |-> conf.opts[k]]

NoConf == [opts |-> [k \in {"options"} |-> [args |-> {}, link |-> <<>>]], overlays |-> <<>>]
set_bootconfig_from_kargs(args) == Set(NoConf, "options", [args |-> args, link |-> <<>>])

-----------------------------------------------------------------------------
(* The name of an entry: its number and the boot counters, which are empty, *)
(* "+LEFT" or "+LEFT-DONE".                                                *)

parse_bootloader_tries(counter) ==
  [left |-> IF counter = <<>> THEN 0 ELSE counter[1], done |-> IF Len(counter) < 2 THEN 0 ELSE counter[2]]

\* A deployment of the list: its entry, and whether it was read from a file, with its tries.
Item(d, conf, named, tries) == [d |-> d, conf |-> conf, named |-> named, tries |-> tries]
NoTries == [left |-> 0, done |-> 0]

\* Mutant: an entry starts counting again each time it is written.
MutFilename(item) == IF bent.max = 0 THEN <<>> ELSE <<bent.max>>

bootloader_entry_filename(item) ==
  CASE bent.max = 0 -> <<>>
    [] bent.max # 0 /\ ~item.named -> <<bent.max>>
    [] bent.max # 0 /\ item.named /\ item.tries = NoTries -> <<>>
    [] OTHER -> <<item.tries.left, item.tries.done>>

-----------------------------------------------------------------------------
(* The list on disk.                                                       *)

target == 1 - bent.cur
InUse == bent.entries[bent.cur]
Conf(e) == ostree_bootconfig_parser_parse_at(e.lines)

Serial(list, i) == Cardinality({j \in 1..(i - 1) : deps[list[j]].csum = deps[list[i]].csum})
Link(ver, list, i) == [ver |-> ver, csum |-> deps[list[i]].csum, serial |-> Serial(list, i)]
LeadsTo(conf) ==
  LET link == conf.opts["options"].link
      list == bent.links[link.ver]
  IN {list[i] : i \in {j \in DOMAIN list : Link(link.ver, list, j) = link}}
Leads(e) == LeadsTo(Conf(e))

\* The deployments in the order of their version keys, the highest first.
Loaded ==
  LET n == Cardinality(InUse)
      version == [e \in InUse |-> Conf(e).opts["version"]]
      order == CHOOSE s \in [1..n -> InUse] :
                 /\ \A i, j \in 1..n : i # j => s[i] # s[j]
                 /\ \A i \in 1..(n - 1) : version[s[i]] >= version[s[i + 1]]
      item(e) == Item(CHOOSE d \in Leads(e) : TRUE, Conf(e), TRUE, parse_bootloader_tries(e.counter))
  IN [i \in 1..n |-> item(order[i])]

Args(item) == item.conf.opts["options"].args
deployment_bootconfigs_equal(a, b) ==
  deps[a.d].csum = deps[b.d].csum /\ deps[a.d].overlays = deps[b.d].overlays /\ Args(a) = Args(b)

Ids(list) == [i \in DOMAIN list |-> list[i].d]

Begin(op, list) ==
  LET old == Loaded
      same == Len(list) = Len(old) /\ \A i \in DOMAIN list : deployment_bootconfigs_equal(list[i], old[i])
  IN bjob' = [pc |-> IF same THEN "links_only" ELSE "rm_entries", op |-> op, list |-> list, i |-> 1, n |-> bjob.n + 1]

Idle == [bjob EXCEPT !.pc = "idle", !.op = "", !.list = <<>>, !.i = 1]
Ready == bjob.pc = "idle" /\ bjob.n < MaxCommands
Dep(t, overlays) == [tree |-> t, csum |-> get_kernel_from_tree(Trees[t]).csum, overlays |-> overlays]
Makes(t) == Ready /\ Len(deps) < MaxDeploys /\ get_kernel_from_tree(Trees[t]).ok

\* An installation: the first tree, its entry and its files.
BeInit ==
  /\ \E t \in DOMAIN Trees, max \in Tries :
       LET layout == get_kernel_from_tree(Trees[t]) IN
         /\ layout.ok
         /\ deps = <<Dep(t, <<>>)>>
         /\ bent = [cur |-> 0, entries |-> [v \in 0..1 |-> {}], links |-> [v \in 0..1 |-> <<>>],
                    files |-> {}, overlays |-> {}, max |-> max]
  /\ run = [initrds |-> {}, staged |-> <<>>]
  /\ bjob = [pc |-> "rm_entries", op |-> "deploy", i |-> 1, n |-> 0,
             list |-> <<Item(1, set_bootconfig_from_kargs({}), FALSE, NoTries)>>]

-----------------------------------------------------------------------------
(* The commands.                                                           *)

ostree_sysroot_stage_overlay_initrd(o) ==
  /\ Ready /\ o \notin run.initrds
  /\ run' = [run EXCEPT !.initrds = @ \cup {o}]
  /\ UNCHANGED <<deps, bent, bjob>>

Deploy(t, overlays) ==
  /\ Makes(t)
  /\ deps' = Append(deps, Dep(t, overlays))
  /\ bjob' = [pc |-> "rm_entries", op |-> "deploy", i |-> 1, n |-> bjob.n + 1,
              list |-> <<Item(Len(deps) + 1, set_bootconfig_from_kargs({}), FALSE, NoTries), Loaded[1]>>]
  /\ UNCHANGED <<bent, run>>

\* The extra keys of the running deployment are kept with what is staged.
Stage(t) ==
  /\ Makes(t) /\ run.staged = <<>>
  /\ deps' = Append(deps, Dep(t, <<>>))
  /\ run' = [run EXCEPT !.staged = <<[d |-> Len(deps) + 1, args |-> {}, extra |-> get_extra_keys(Loaded[1].conf)]>>]
  /\ bjob' = [bjob EXCEPT !.n = @ + 1] /\ UNCHANGED bent

Finalize ==
  /\ Ready /\ run.staged # <<>>
  /\ LET st == run.staged[1]
         conf == set_bootconfig_from_kargs(st.args)
     IN Begin("finalize", <<Item(st.d, [conf EXCEPT !.opts = @ @@ st.extra], FALSE, NoTries), Loaded[1]>>)
  /\ run' = [run EXCEPT !.staged = <<>>]
  /\ UNCHANGED <<deps, bent>>

Rollback ==
  /\ Ready /\ Cardinality(InUse) > 1
  /\ LET old == Loaded IN Begin("rollback", [i \in DOMAIN old |-> old[Len(old) + 1 - i]])
  /\ UNCHANGED <<deps, bent, run>>

Undeploy(i) ==
  /\ Ready /\ Cardinality(InUse) > 1 /\ i <= Cardinality(InUse)
  /\ LET old == Loaded IN Begin("undeploy", [j \in 1..(Len(old) - 1) |-> old[IF j < i THEN j ELSE j + 1]])
  /\ UNCHANGED <<deps, bent, run>>

\* The clone of the deployment has its file name and not its tries.
ostree_sysroot_deployment_set_kargs(i) ==
  /\ Ready /\ i <= Cardinality(InUse)
  /\ LET old == Loaded
         item == old[i]
         conf == Set(item.conf, "options", [args |-> {"b"}, link |-> <<>>])
     IN Begin("set_kargs", [old EXCEPT ![i] = Item(item.d, conf, TRUE, NoTries)])
  /\ UNCHANGED <<deps, bent, run>>

-----------------------------------------------------------------------------
(* The write of the list.                                                  *)

RmEntries ==
  /\ bjob.pc = "rm_entries"
  /\ bent' = [bent EXCEPT !.entries[target] = {}]
  /\ bjob' = [bjob EXCEPT !.pc = "install"]
  /\ UNCHANGED <<deps, run>>

item == bjob.list[bjob.i]
InBoot(csum, f) == [csum |-> csum, kind |-> f.kind, kver |-> f.kver, content |-> f.content]
IsThere(csum, f) == \E g \in bent.files : g.csum = csum /\ g.kind = f.kind /\ g.kver = f.kver

\* In this order, each by its name if it is not there yet.
FileOrder == <<"kernel", "initrd", "dt", "dtb", "hmac", "aboot">>
Missing == SelectSeq(FileOrder, LAMBDA k : Has(item.d, k) /\ ~IsThere(deps[item.d].csum, Of(item.d, k)))

\* All of the files that are missing, or some and the command is killed or fails.
install_into_boot ==
  /\ bjob.pc = "install"
  /\ \E n \in 0..Len(Missing) :
       /\ n < Len(Missing) => InUse # {}
       /\ bent' = [bent EXCEPT !.files = @ \cup {InBoot(deps[item.d].csum, Of(item.d, Missing[k])) : k \in 1..n}]
       /\ bjob' = IF n = Len(Missing) THEN [bjob EXCEPT !.pc = "overlays"] ELSE Idle
  /\ UNCHANGED <<deps, run>>

\* An overlay that is neither in /boot nor in /run any more fails the write.
InstallOverlays ==
  /\ bjob.pc = "overlays"
  /\ LET wanted == {deps[item.d].overlays[j] : j \in DOMAIN deps[item.d].overlays}
     IN IF wanted \subseteq bent.overlays \cup run.initrds
        THEN bent' = [bent EXCEPT !.overlays = @ \cup wanted] /\ bjob' = [bjob EXCEPT !.pc = "write"]
        ELSE bent' = bent /\ bjob' = Idle
  /\ UNCHANGED <<deps, run>>

Path(d, kind) == <<deps[d].csum, kind, Of(d, kind).kver>>

\* What is set in the entry; keys it had and that are not set stay.
InstalledConf ==
  LET d == item.d
      set == [k \in {"version", "linux", "options"}
                      \cup {k \in {"initrd"} : Has(d, "initrd")} \cup {k \in {"aboot", "abootcfg"} : Has(d, "aboot")}
                      \cup {k \in {"devicetree"} : Has(d, "dt")} \cup {k \in {"fdtdir"} : Has(d, "dtb")}
                      \cup {k \in {"append"} : bjob.i > 1} |->
                CASE k = "version" -> Len(bjob.list) + 1 - bjob.i
                  [] k = "linux" -> Path(d, "kernel")
                  [] k = "options" -> [args |-> Args(item), link |-> Link(target, Ids(bjob.list), bjob.i)]
                  [] k = "initrd" -> Path(d, "initrd")
                  [] k = "aboot" -> Path(d, "aboot")
                  [] k = "abootcfg" -> d
                  [] k = "devicetree" -> Path(d, "dt")
                  [] k = "fdtdir" -> Path(d, "dtb")
                  [] OTHER -> "x"]
      overlays == IF Has(d, "initrd") /\ deps[d].overlays # <<>> THEN deps[d].overlays ELSE item.conf.overlays
  IN [opts |-> set @@ item.conf.opts, overlays |-> overlays]

Named(idx, counter, lines) == [idx |-> idx, counter |-> counter, lines |-> lines]
Put(entries, e) == {x \in entries : x.idx # e.idx \/ x.counter # e.counter} \cup {e}

install_deployment_kernel ==
  /\ bjob.pc = "write"
  /\ LET e == Named(Len(bjob.list) + 1 - bjob.i, bootloader_entry_filename(item),
                    ostree_bootconfig_parser_write_at(InstalledConf))
     IN bent' = [bent EXCEPT !.entries[target] = Put(@, e)]
  /\ bjob' = IF bjob.i = Len(bjob.list) THEN [bjob EXCEPT !.pc = "links"]
             ELSE [bjob EXCEPT !.pc = "install", !.i = @ + 1]
  /\ UNCHANGED <<deps, run>>

WriteLinks ==
  /\ \/ /\ bjob.pc = "links"
        /\ bent' = [bent EXCEPT !.links[target] = Ids(bjob.list)] /\ bjob' = [bjob EXCEPT !.pc = "swap"]
     \/ /\ bjob.pc = "links_only"
        /\ bent' = [bent EXCEPT !.links[bent.cur] = Ids(bjob.list)] /\ bjob' = [bjob EXCEPT !.pc = "cleanup"]
  /\ UNCHANGED <<deps, run>>

Swap ==
  /\ bjob.pc = "swap"
  /\ bent' = [bent EXCEPT !.cur = target] /\ bjob' = [bjob EXCEPT !.pc = "cleanup"]
  /\ UNCHANGED <<deps, run>>

\* Mutant: the overlays are looked up by their path, which no file is named by.
MutCleanup ==
  /\ bjob.pc = "cleanup"
  /\ bent' = [bent EXCEPT !.entries[target] = {}, !.links[target] = <<>>, !.overlays = {}]
  /\ bjob' = Idle /\ UNCHANGED <<deps, run>>

\* The kernels and the overlays that the deployments loaded again do not name go.
Cleanup ==
  /\ bjob.pc = "cleanup"
  /\ LET list == Loaded
         csums == {deps[list[i].d].csum : i \in DOMAIN list}
         named == UNION {{list[i].conf.overlays[j] : j \in DOMAIN list[i].conf.overlays} : i \in DOMAIN list}
     IN bent' = [bent EXCEPT !.entries[target] = {}, !.links[target] = <<>>,
                             !.files = {f \in @ : f.csum \in csums}, !.overlays = @ \cap named]
  /\ bjob' = Idle /\ UNCHANGED <<deps, run>>

-----------------------------------------------------------------------------
(* ostree admin kargs edit-in-place: the entries in use, one by one.       *)

EditInPlace ==
  /\ Ready /\ InUse # {}
  /\ bjob' = [pc |-> "edit", op |-> "edit", list |-> Loaded, i |-> 1, n |-> bjob.n + 1]
  /\ UNCHANGED <<deps, bent, run>>

\* Mutant: the entry is numbered by its index.
MutSetKargsInPlace ==
  /\ bjob.pc = "edit"
  /\ LET conf == Set(item.conf, "options", [item.conf.opts["options"] EXCEPT !.args = @ \cup {"c"}])
         e == Named(bjob.i, bootloader_entry_filename(item), ostree_bootconfig_parser_write_at(conf))
     IN bent' = [bent EXCEPT !.entries[bent.cur] = Put(@, e)]
  /\ bjob' = IF bjob.i = Len(bjob.list) THEN Idle ELSE [bjob EXCEPT !.i = @ + 1]
  /\ UNCHANGED <<deps, run>>

ostree_sysroot_deployment_set_kargs_in_place ==
  /\ bjob.pc = "edit"
  /\ LET conf == Set(item.conf, "options", [item.conf.opts["options"] EXCEPT !.args = @ \cup {"c"}])
         e == Named(Len(bjob.list) + 1 - bjob.i, bootloader_entry_filename(item),
                    ostree_bootconfig_parser_write_at(conf))
     IN bent' = [bent EXCEPT !.entries[bent.cur] = Put(@, e)]
  /\ bjob' = IF bjob.i < Len(bjob.list) THEN [bjob EXCEPT !.i = @ + 1]
             ELSE IF run.staged # <<>> THEN [bjob EXCEPT !.pc = "edit_staged"] ELSE Idle
  /\ UNCHANGED <<deps, run>>

\* A staged deployment has its arguments in /run.
SetStagedKargs ==
  /\ bjob.pc = "edit_staged"
  /\ run' = [run EXCEPT !.staged[1].args = @ \cup {"c"}]
  /\ bjob' = Idle /\ UNCHANGED <<deps, bent>>

-----------------------------------------------------------------------------
Killed ==
  /\ bjob.pc # "idle" /\ InUse # {}
  /\ bjob' = Idle /\ UNCHANGED <<deps, bent, run>>

\* External: the boot loader counts a try of an entry that counts, and /run is empty then.
\* (A crash is Killed and this.)
BootLoaderCounts ==
  /\ bjob.pc = "idle"
  /\ \E e \in InUse :
       LET tries == parse_bootloader_tries(e.counter)
           counter == IF tries.left = 0 THEN e.counter ELSE <<tries.left - 1, tries.done + 1>>
       IN bent' = [bent EXCEPT !.entries[bent.cur] = Put(@ \ {e}, [e EXCEPT !.counter = counter])]
  /\ run' = [initrds |-> {}, staged |-> <<>>]
  /\ UNCHANGED <<deps, bjob>>

\* External: a boot that succeeded takes the counters off.
Bless ==
  /\ bjob.pc = "idle"
  /\ \E e \in InUse :
       /\ e.counter # <<>>
       /\ bent' = [bent EXCEPT !.entries[bent.cur] = Put(@ \ {e}, [e EXCEPT !.counter = <<>>])]
  /\ UNCHANGED <<deps, run, bjob>>

BeNext ==
  \/ \E o \in Overlays : ostree_sysroot_stage_overlay_initrd(o)
  \/ \E t \in DOMAIN Trees, overlays \in {<<>>} \cup {<<o>> : o \in run.initrds} : Deploy(t, overlays)
  \/ \E t \in DOMAIN Trees : Stage(t)
  \/ Finalize \/ Rollback \/ (\E i \in 1..2 : Undeploy(i)) \/ \E i \in 1..2 : ostree_sysroot_deployment_set_kargs(i)
  \/ RmEntries \/ install_into_boot \/ InstallOverlays \/ install_deployment_kernel
  \/ WriteLinks \/ Swap \/ Cleanup
  \/ EditInPlace \/ ostree_sysroot_deployment_set_kargs_in_place \/ SetStagedKargs
  \/ Killed \/ BootLoaderCounts \/ Bless

-----------------------------------------------------------------------------
\* At any time, whatever was written, edited or cut short, each entry in use leads to one
\* deployment, and the kernel, the initramfs and the device tree it names are in /boot and
\* are those of that deployment's tree.
Names(conf, key, kind, d) ==
  IF Has(d, kind)
  THEN /\ key \in DOMAIN conf.opts
       /\ \E f \in bent.files : /\ <<f.csum, f.kind, f.kver>> = conf.opts[key]
                                /\ f.content = Of(d, kind).content
  ELSE key \notin DOMAIN conf.opts

EntryFilesMatch ==
  \A conf \in {Conf(e) : e \in InUse} :
    /\ Cardinality(LeadsTo(conf)) = 1
    /\ \A d \in LeadsTo(conf) : /\ Names(conf, "linux", "kernel", d)
                                /\ Names(conf, "initrd", "initrd", d)
                                /\ Names(conf, "devicetree", "dt", d)

\* The overlay initrds of a deployment are in its entry, and in /boot as long as it is.
OverlaysKept ==
  \A conf \in {Conf(e) : e \in InUse} : \A d \in LeadsTo(conf) :
    /\ Has(d, "initrd") => conf.overlays = deps[d].overlays
    /\ \A i \in DOMAIN conf.overlays : conf.overlays[i] \in bent.overlays

\* Without boot counting an edit in place replaces the entry: there are as many entries in
\* use as deployments, one for each link.
OneEntryEach ==
  /\ Cardinality(InUse) = Len(bent.links[bent.cur])
  /\ Cardinality({Leads(e) : e \in InUse}) = Cardinality(InUse)

PlainEntriesOneEach == bent.max = 0 => OneEntryEach

\* A new list keeps the boot counters of the deployments it keeps, but where the kernel
\* arguments were replaced: one that still counts is not blessed, one that failed is not
\* given new tries.
Counters(d) == {IF e.counter = <<>> THEN <<>> ELSE <<parse_bootloader_tries(e.counter)>> :
                  e \in {x \in InUse : d \in Leads(x)}}

CountersKeptStep ==
  bent'.cur # bent.cur /\ bjob.op # "set_kargs" /\ OneEntryEach =>
    \A d \in DOMAIN deps : Counters(d) # {} /\ Counters(d)' # {} => Counters(d)' = Counters(d)

\* The configuration's documentation: the entry of the default deployment is not affected
\* by bls-append-except-default.
DefaultNotAppended ==
  \A e \in InUse : Conf(e).opts["version"] = Cardinality(InUse) => "append" \notin DOMAIN Conf(e).opts

\* What ostree manages itself is not taken over from another deployment: a directory of
\* device trees an entry names is that of its own tree.
ManagedNotInherited == \A e \in InUse : \A d \in Leads(e) : Names(Conf(e), "fdtdir", "dtb", d)

(* Every entry names the kernel and the overlays of its own deployment,    *)
(* which are there; each deployment has one entry and keeps its boot       *)
(* counters.                                                               *)
EntriesBootStep ==
  \/ UNCHANGED <<deps, bent>>
  \/ EntryFilesMatch' /\ OverlaysKept' /\ PlainEntriesOneEach' /\ CountersKeptStep
=============================================================================
