----------------------------- MODULE SysrootInv -----------------------------
(***************************************************************************)
(* The inductive invariant of Sysroot, and what it says of the disks:      *)
(* lemmas on lists, keys and boot symlinks, on what the boot loader finds, *)
(* and on the steps that change /ostree and /boot.                         *)
(***************************************************************************)
EXTENDS Sysroot, TLAPS

-----------------------------------------------------------------------------
(* Phases *)

\* No process has the sysroot open.
Out == {"idle", "shutdown"}

Cleaning == {"clean_links", "clean_deploys", "clean_refs", "write_refs"}

SubPhases == {"sub_clear", "sub_links", "sync_sub", "freeze_sub", "sub_swap"}
NewPhases == {"new_clear", "new_links", "new_swap", "prepare", "sync_new", "freeze_new", "swap"}
Swapping == {"entries", "install"} \cup SubPhases \cup NewPhases
Dropping == {"drop_run", "drop_dir", "drop_lock"}
Deciding == {"decide", "decide_dropped"}

\* The list has been swapped and the process has not loaded it yet.
Stale == {"freeze_again", "finish"}

Writing == {"early", "retain"} \cup Deciding \cup Dropping \cup Swapping \cup Stale

-----------------------------------------------------------------------------
(* Types *)

BootConfigs == [key : Kernels \X Nat, kargs : Kargs \cup {None}]

IsRoot(r) ==
    /\ DOMAIN r = {"link", "farm", "deploys", "sealed", "commits", "tip", "refs"}
    /\ r.link \in [Versions -> Versions \cup {None}]
    /\ DOMAIN r.farm = Versions /\ \A v \in Versions : DOMAIN r.farm[v] = Versions
    /\ r.deploys \subseteq Dirs /\ r.sealed \subseteq r.deploys

IsBoot(b) ==
    /\ DOMAIN b = {"loader", "tmp", "failed", "kernels", "entries"}
    /\ b.loader \in Versions
    /\ b.entries \in [Versions -> Seq(BootConfigs)]

DiskTypes ==
    /\ root \in rootDisk /\ \A r \in rootDisk : IsRoot(r)
    /\ boot \in bootDisk /\ \A b \in bootDisk : IsBoot(b)

IsStaged(st) == st \in StagedFiles

ListTypes ==
    /\ staged # None => IsStaged(staged)
    /\ pc \notin Out =>
         self.deployments \in Seq(Deployments)
         /\ DOMAIN self = {"bootversion", "subbootversion", "deployments"}
    /\ pc \in Writing =>
         plan \in Seq(Deployments) /\ (outer # None => outer \in Seq(Deployments))

-----------------------------------------------------------------------------
(* What boots *)

InUse(b) == b.entries[b.loader]

\* Every entry finds a finished deployment, and has the key that the deployment
\* has in the list.
Good(r, b) ==
    /\ InUse(b) # <<>>
    /\ \A i \in DOMAIN InUse(b) :
          /\ InUse(b)[i].key \in DOMAIN Links(r, b)
          /\ Links(r, b)[InUse(b)[i].key] \in r.sealed
          /\ InUse(b)[i].key = Key(Offered(r, b), i)
          /\ InUse(b)[i].key[1] \in b.kernels

Boots ==
    /\ \A r \in rootDisk, b \in bootDisk : Good(r, b)
    /\ pc # "freeze_again" =>
         \A b \in bootDisk : b.loader = boot.loader /\ InUse(b) = InUse(boot)
    /\ booted \in DirsOf(Offered(root, boot))

-----------------------------------------------------------------------------
(* What the process knows *)

Shift == IF StagedObject THEN 1 ELSE 0

InSync ==
    /\ self.bootversion = boot.loader
    /\ self.subbootversion = Subversion(root, boot.loader)
    /\ Len(self.deployments) = Shift + Len(InUse(boot))
    /\ \A i \in DOMAIN InUse(boot) :
          /\ self.deployments[Shift + i].dir = Offered(root, boot)[i].dir
          /\ ~self.deployments[Shift + i].staged

Knows == pc \notin Out \cup Stale => InSync

\* Between the state file of a deployment and the deletion of the one before.
Restaging == req.kind = "stage" /\ pc \in {"restage", "untouch", "reload"}

StagedSound ==
    /\ staged # None => staged.dir \in root.deploys \ root.sealed
    /\ "stage" \notin workload.kinds => staged = None
    /\ pc \in {"drop_dir", "drop_lock"} => staged = None
    /\ pc \notin Out /\ StagedObject =>
         /\ self.deployments[1].dir \notin root.sealed
         /\ \/ staged # None /\ self.deployments[1].dir = staged.dir
            \/ Restaging \/ pc \in {"drop_dir", "drop_lock"}
            \/ req.kind = "finalize" /\ pc = "seal"
    /\ pc \notin Out /\ staged # None /\ ~Restaging =>
         StagedObject /\ self.deployments[1].dir = staged.dir
    /\ pc = "restage" /\ StagedObject => staged # None /\ self.deployments[1].dir # staged.dir

-----------------------------------------------------------------------------
(* What it still has to do *)

\* The call that a step is part of.
Call ==
    IF pc \in Cleaning THEN "clean"
    ELSE IF pc \in Writing THEN "write"
    ELSE IF pc = "untouch" /\ req.kind = "stage" THEN "restage"
    ELSE pc

\* A command of this kind calls y after x.
Then(kind, x, y) ==
    \/ x = "pull" /\ y = "clean" /\ kind \in {"deploy", "stage"}
    \/ x = "clean" /\ y = "checkout" /\ kind \in {"deploy", "stage"}
    \/ x = "checkout" /\ y = "seal" /\ kind = "deploy"
    \/ x = "checkout" /\ y = "run" /\ kind = "stage"
    \/ x = "run" /\ y = "restage" /\ kind = "stage"
    \/ x = "restage" /\ y = "reload" /\ kind = "stage"
    \/ x = "reload" /\ y = "clean" /\ kind = "stage"
    \/ x = "clean" /\ y \in {"touch", "clean", "exit"} /\ kind = "stage"
    \/ x = "touch" /\ y = "checkout" /\ kind = "stage"
    \/ x = "relock" /\ y \in {"touch", "untouch"} /\ kind = "lock"
    \/ x \in {"touch", "untouch"} /\ y = "exit" /\ kind = "lock"
    \/ x = "unlink" /\ y = "seal" /\ kind = "finalize"
    \/ x = "seal" /\ y = "write" /\ kind \in {"deploy", "finalize"}
    \/ x = "write" /\ y = "clean" /\ kind \in {"deploy", "finalize", "select", "set_kargs"}
    \/ x = "clean" /\ y = "stamp" /\ kind = "finalize"
    \/ x = "stamp" /\ y = "shutdown" /\ kind = "finalize"
    \/ x = "clean" /\ y = "prune" /\ kind \in {"deploy", "select", "set_kargs", "cleanup"}
    \/ x = "prune" /\ y = "exit" /\ kind \in {"deploy", "select", "set_kargs", "cleanup"}

Calls ==
    {"clean", "checkout", "seal", "run", "restage", "reload", "touch", "untouch", "write",
     "prune", "stamp", "exit", "shutdown"}

\* A script for a command of this kind that is at call x.
Follows(kind, x, s) ==
    /\ s \in Seq(Calls)
    /\ x # "exit" => s # <<>> /\ Then(kind, x, s[1])
    /\ \A i \in 1..(Len(s) - 1) : Then(kind, s[i], s[i + 1])
    /\ s # <<>> => s[Len(s)] \in {"exit", "shutdown"}

Scripted ==
    pc \notin Out =>
        /\ req.kind \in workload.kinds
        /\ Follows(req.kind, Call, script)
        /\ req.kind \in {"select", "set_kargs"} /\ Call = "write" =>
             Len(script) = 3 /\ script[3] = "exit"

\* The requests, and the deployment that is made.
Requested ==
    /\ pc \notin Out /\ req.kind = "deploy" => req.flags \in workload.flags
    /\ pc \notin Out /\ req.kind \in {"deploy", "stage"} => req.commit \in Commits
    /\ pc \notin Out /\ req.kind = "stage" => req.locked \in BOOLEAN
    /\ pc = "write" /\ req.kind = "select" =>
         /\ req.order \in SelectOrders
         /\ \A i \in DOMAIN req.order : req.order[i] \in DOMAIN self.deployments
         /\ Orderly(req.order, self.deployments)
    /\ pc = "write" /\ req.kind = "set_kargs" =>
         /\ req.index \in DOMAIN self.deployments /\ ~self.deployments[req.index].staged
         /\ req.kargs \in Kargs
    /\ pc \notin Writing /\ pc # "shutdown" => outer = None

Made ==
    /\ pc \in {"seal", "run"} => new \in Deployments
    /\ pc = "write" /\ req.kind \in {"deploy", "finalize"} =>
         new \in Deployments /\ ~new.staged /\ new.dir \in root.sealed
    /\ pc = "seal" /\ req.kind = "deploy" =>
         /\ ~new.staged /\ new.dir \in root.deploys
         /\ staged # None => new.dir # staged.dir
    /\ pc = "seal" /\ req.kind = "finalize" =>
         /\ StagedObject /\ staged = None
         /\ ~new.staged /\ new.dir = self.deployments[1].dir /\ new.dir \in root.deploys
    /\ pc \in {"unlink", "relock"} => staged # None
    /\ pc = "run" =>
         /\ new.dir \in root.deploys \ root.sealed
         /\ StagedObject => self.deployments[1].dir # new.dir

-----------------------------------------------------------------------------
(* The list it writes *)

\* Whatever is written as finished is.
Finished(s) ==
    \A i \in DOMAIN s : s[i].staged \/ (s[i].dir \in root.deploys => s[i].dir \in root.sealed)

\* When the staged deployment stays in front, the rest is of the loaded list.
FrontKept(s) ==
    StagedObject /\ s # <<>> /\ s[1].staged /\ s[1].same =>
        /\ \A i \in DOMAIN s : s[i].staged <=> i = 1
        /\ Len(s) = Len(self.deployments) =>
             \A i \in DOMAIN s : s[i].dir = self.deployments[i].dir

Planned ==
    /\ pc \in Writing => Finished(plan) /\ (outer # None => Finished(outer))
    /\ pc \in Writing /\ outer # None => FrontKept(outer)
    /\ pc \in {"early", "retain"} => FrontKept(plan)
    /\ pc = "early" => outer = None
    /\ pc \in Dropping => StagedObject
    /\ pc \in Deciding \cup Dropping => \A i \in DOMAIN plan : ~plan[i].staged
    /\ pc = "decide_dropped" => ~StagedObject
    /\ pc = "decide" /\ StagedObject /\ Len(plan) = Len(self.deployments) - 1 =>
         \A i \in DOMAIN plan : plan[i].dir = self.deployments[i + 1].dir

\* What is being swapped in.
Swapped ==
    /\ pc \in Swapping => booted \in DirsOf(plan) /\ DirsOf(plan) \subseteq root.sealed
    /\ pc \in SubPhases =>
         /\ Len(plan) = Len(InUse(boot))
         /\ \A i \in DOMAIN plan : Key(plan, i) = InUse(boot)[i].key
    /\ pc = "install" => Len(boot.entries[1 - boot.loader]) < Len(plan)
    /\ pc \in NewPhases => Len(boot.entries[1 - boot.loader]) = Len(plan)
    /\ pc \in {"install"} \cup NewPhases =>
         \A i \in DOMAIN boot.entries[1 - boot.loader] :
            /\ boot.entries[1 - boot.loader][i] = Entry(plan, i)
            /\ Key(plan, i)[1] \in boot.kernels
    /\ pc \in {"sync_new", "freeze_new", "swap"} => boot.tmp = 1 - boot.loader

Table(r, v) == r.farm[v][Subversion(r, v)]

Linked ==
    /\ pc = "new_swap" =>
         root.farm[1 - boot.loader][1 - Subversion(root, 1 - boot.loader)] = Farm(plan)
    /\ pc \in {"sync_sub", "freeze_sub", "sub_swap"} =>
         root.farm[boot.loader][1 - Subversion(root, boot.loader)] = Farm(plan)
    /\ pc \in {"prepare", "sync_new", "freeze_new", "swap"} =>
         Table(root, 1 - boot.loader) = Farm(plan)
    /\ pc \in {"freeze_new", "swap"} =>
         \A r \in rootDisk :
            Table(r, 1 - boot.loader) = Farm(plan) /\ DirsOf(plan) \subseteq r.sealed
    /\ pc \in {"freeze_sub", "sub_swap", "freeze_new", "swap", "freeze_again"} =>
         \A r \in rootDisk : Links(r, boot) = Links(root, boot)

-----------------------------------------------------------------------------
\* A process that has renamed /boot/loader is not killed before it has synced it,
\* and no staged deployment is kept in front of a new one.
Careful(w) ==
    /\ w.kills = 0 \/ "freeze_again" \in w.spared
    /\ \/ "stage" \notin w.kinds
       \/ \A f \in w.flags : "not_default" \in f => f \cap {"retain", "retain_pending"} = {}

WorkFields ==
    {"kinds", "flags", "commits", "ops", "kills", "losses", "capacity", "died", "direct", "spared"}

WorkSound == DOMAIN workload = WorkFields /\ workload.commits \subseteq Commits /\ Careful(workload)

Booting == DiskTypes /\ Boots
Process == ListTypes /\ Knows /\ StagedSound /\ Scripted /\ Requested /\ Made
Swap == Planned /\ Swapped /\ Linked

SysrootInvariant == Booting /\ Process /\ Swap /\ WorkSound

(***************************************************************************)
(* Lists, keys and boot symlinks.                                          *)
(***************************************************************************)

(* f takes different elements of S to different ones.                      *)
Injects(S, f) == \A i, j \in S : f[i] = f[j] => i = j

(* f reaches every element of T.                                           *)
Reaches(S, T, f) == \A t \in T : \E i \in S : f[i] = t

(* What the proofs use of finite sets.  The library proves it, and         *)
(* SysrootProofs cites it there; here it is a hypothesis, which keeps the  *)
(* library out of the provers' sight.                                      *)
Counting ==
    /\ \A a, b \in Int :
          IsFiniteSet(a..b) /\ Cardinality(a..b) = IF a > b THEN 0 ELSE b - a + 1
    /\ \A S : IsFiniteSet(S) => Cardinality(S) \in Nat /\ (Cardinality(S) = 0 <=> S = {})
    /\ \A S, x : IsFiniteSet(S) /\ x \notin S => Cardinality(S \cup {x}) = Cardinality(S) + 1
    /\ \A x : Cardinality({x}) = 1
    /\ \A S, T : IsFiniteSet(S) /\ T \in SUBSET S =>
          /\ IsFiniteSet(T) /\ Cardinality(T) <= Cardinality(S)
          /\ Cardinality(S) = Cardinality(T) => S = T
    /\ \A S, T : \A f \in [S -> T] :
          /\ IsFiniteSet(T) /\ Cardinality(S) = Cardinality(T)
          /\ Injects(S, f)
          => Reaches(S, T, f)
    /\ \A n \in Nat : \A S \in SUBSET (0..n) :
          S # {} => \E m \in S : \A k \in S : k <= m

(* An interval is finite and has the size of its length.                   *)
LEMMA Interval ==
    ASSUME Counting, NEW a \in Int, NEW b \in Int
    PROVE  IsFiniteSet(a..b) /\ Cardinality(a..b) = IF a > b THEN 0 ELSE b - a + 1
BY Zenon DEF Counting

(* The size of a finite set is a number, and 0 only of the empty set.      *)
LEMMA Size ==
    ASSUME Counting, NEW S, IsFiniteSet(S)
    PROVE  Cardinality(S) \in Nat /\ (Cardinality(S) = 0 => S = {})
BY Zenon DEF Counting

(* One more element is one more.                                           *)
LEMMA OneMore ==
    ASSUME Counting, NEW S, NEW x, IsFiniteSet(S), x \notin S
    PROVE  Cardinality(S \cup {x}) = Cardinality(S) + 1
BY Zenon DEF Counting

(* A subset is not larger, and smaller unless it is the set itself.        *)
LEMMA PartOf ==
    ASSUME Counting, NEW S, IsFiniteSet(S), NEW T \in SUBSET S
    PROVE  /\ IsFiniteSet(T) /\ Cardinality(T) <= Cardinality(S)
           /\ Cardinality(S) = Cardinality(T) => S = T
BY Zenon DEF Counting

(* An injection into a set of the same size reaches all of it.             *)
LEMMA Onto ==
    ASSUME Counting, NEW S, NEW T, NEW f \in [S -> T],
           IsFiniteSet(T), Cardinality(S) = Cardinality(T),
           Injects(S, f)
    PROVE  Reaches(S, T, f)
BY Zenon DEF Counting

(* There are two versions, and the other one is 1 - v.                     *)
LEMMA OtherVersion ==
    ASSUME NEW v \in Versions
    PROVE  1 - v \in Versions /\ 1 - v # v /\ \A w \in Versions : w = v \/ w = 1 - v
BY DEF Versions

(* A key depends on the kernels of the deployments up to its own.          *)
LEMMA SameKey ==
    ASSUME NEW s, NEW t, NEW i \in Nat,
           \A j \in 1..i : Kernel(s[j].dir) = Kernel(t[j].dir), i >= 1
    PROVE  Key(s, i) = Key(t, i)
<1>1. Kernel(s[i].dir) = Kernel(t[i].dir)
    OBVIOUS
<1>2. {j \in 1..(i - 1) : Kernel(s[j].dir) = Kernel(s[i].dir)}
        = {j \in 1..(i - 1) : Kernel(t[j].dir) = Kernel(t[i].dir)}
    BY <1>1
<1> QED
    BY <1>1, <1>2, Zenon DEF Key, bootserial

(* assign_bootserials gives no two deployments of a list the same key.     *)
LEMMA KeysDiffer ==
    ASSUME Counting, NEW s, NEW i \in Nat \ {0}, NEW j \in Nat, i < j,
           Kernel(s[i].dir) = Kernel(s[j].dir)
    PROVE  bootserial(s, i) # bootserial(s, j)
<1> DEFINE Before(n) == {m \in 1..(n - 1) : Kernel(s[m].dir) = Kernel(s[n].dir)}
<1>1. IsFiniteSet(1..(j - 1)) /\ IsFiniteSet(1..(i - 1))
    BY Interval
<1>2. IsFiniteSet(Before(j)) /\ IsFiniteSet(Before(i))
    <2>1. Before(j) \in SUBSET (1..(j - 1)) /\ Before(i) \in SUBSET (1..(i - 1))
        OBVIOUS
    <2> QED
        BY <2>1, <1>1, PartOf
<1>3. Before(i) \cup {i} \in SUBSET Before(j) /\ i \notin Before(i)
    OBVIOUS
<1>4. Cardinality(Before(i) \cup {i}) = Cardinality(Before(i)) + 1
    BY <1>2, <1>3, OneMore, Zenon
<1>5. Cardinality(Before(i) \cup {i}) <= Cardinality(Before(j))
    BY <1>2, <1>3, PartOf
<1>6. Cardinality(Before(i)) \in Nat /\ Cardinality(Before(j)) \in Nat
    BY <1>2, Size
<1>7. Cardinality(Before(i)) # Cardinality(Before(j))
    BY <1>4, <1>5, <1>6
<1> QED
    BY <1>7, Zenon DEF bootserial

(* A key is a boot checksum and a number.                                  *)
LEMMA KeyType ==
    ASSUME Counting, NEW s, NEW i \in Nat, s[i].dir \in Dirs
    PROVE  Key(s, i) \in Kernels \X Nat
<1> DEFINE B == {m \in 1..(i - 1) : Kernel(s[m].dir) = Kernel(s[i].dir)}
<1>1. IsFiniteSet(1..(i - 1)) /\ B \in SUBSET (1..(i - 1))
    BY Interval
<1>2. bootserial(s, i) = Cardinality(B)
    BY DEF bootserial
<1>3. Cardinality(B) \in Nat
    BY <1>1, PartOf, Size
<1>4. Kernel(s[i].dir) \in Kernels
    BY SysrootConstants DEF Kernel, Dirs
<1> QED
    BY <1>2, <1>3, <1>4 DEF Key

(* The links of a farm lead from the key of a deployment to its directory. *)
LEMMA FarmAt ==
    ASSUME Counting, NEW S, NEW s \in Seq(S), NEW i \in DOMAIN s
    PROVE  Key(s, i) \in DOMAIN Farm(s) /\ Farm(s)[Key(s, i)] = s[i].dir
<1> DEFINE j == CHOOSE n \in DOMAIN s : Key(s, n) = Key(s, i)
<1>1. j \in DOMAIN s /\ Key(s, j) = Key(s, i)
    OBVIOUS
<1>2. DOMAIN s = 1..Len(s) /\ Len(s) \in Nat
    OBVIOUS
<1> HIDE DEF j
<1>3. Kernel(s[j].dir) = Kernel(s[i].dir) /\ bootserial(s, j) = bootserial(s, i)
    BY <1>1 DEF Key
<1>4. ~(i < j) /\ ~(j < i)
    <2>1. i \in Nat \ {0} /\ j \in Nat \ {0}
        BY <1>1, <1>2
    <2> QED
        BY <2>1, <1>3, KeysDiffer
<1>5. j = i
    BY <1>1, <1>2, <1>4
<1>6. Farm(s)[Key(s, i)] = s[j].dir
    BY Zenon DEF Farm, j
<1> QED
    BY <1>5, <1>6, Zenon DEF Farm

(* The place a position gets in the list of the positions I.               *)
Rank(I, i) == Cardinality({j \in I : j <= i})

(* A list after another one.                                               *)
LEMMA Joined ==
    ASSUME NEW S, NEW s \in Seq(S), NEW t \in Seq(S)
    PROVE  /\ s \o t \in Seq(S) /\ Len(s \o t) = Len(s) + Len(t)
           /\ \A i \in 1..(Len(s) + Len(t)) :
                 (s \o t)[i] = IF i <= Len(s) THEN s[i] ELSE t[i - Len(s)]
OBVIOUS

(* There are n positions in a list of length n.                            *)
LEMMA UpTo ==
    ASSUME Counting, NEW n \in Nat
    PROVE  IsFiniteSet(1..n) /\ Cardinality(1..n) = n
BY Interval

(* The rank of a position among the positions I: ranks run from 1 to the   *)
(* number of positions, in the order of the positions, and leave none out. *)
LEMMA RankFacts ==
    ASSUME Counting, NEW n \in Nat, NEW I \in SUBSET (1..n)
    PROVE  /\ IsFiniteSet(I) /\ Cardinality(I) \in Nat /\ Cardinality(I) <= n
           /\ \A i \in I : Rank(I, i) \in 1..Cardinality(I)
           /\ \A i, j \in I : i < j => Rank(I, i) < Rank(I, j)
           /\ \A k \in 1..Cardinality(I) : \E i \in I : Rank(I, i) = k
<1> DEFINE U(i) == {j \in I : j <= i}
<1>0. \A i \in I : i \in Nat
    OBVIOUS
<1>1. IsFiniteSet(1..n) /\ Cardinality(1..n) = n
    BY Interval
<1>2. IsFiniteSet(I) /\ Cardinality(I) \in Nat /\ Cardinality(I) <= n
    BY <1>1, PartOf, Size, Zenon
<1>3. \A i \in I : IsFiniteSet(U(i)) /\ Cardinality(U(i)) <= Cardinality(I)
                   /\ Cardinality(U(i)) \in Nat
    BY <1>2, PartOf, Size
<1>4. \A i \in I : Cardinality(U(i)) # 0
    <2> TAKE i \in I
    <2>1. i \in U(i)
        BY <1>0
    <2> QED
        BY <2>1, <1>3, Size
<1>5. \A i, j \in I : i < j => Cardinality(U(i)) < Cardinality(U(j))
    <2> SUFFICES ASSUME NEW i \in I, NEW j \in I, i < j
                 PROVE  Cardinality(U(i)) < Cardinality(U(j))
        OBVIOUS
    <2>0. j \in U(j) /\ j \notin U(i) /\ \A x \in U(i) : x \in U(j)
        BY <1>0
    <2>1. U(i) \cup {j} \in SUBSET U(j) /\ j \notin U(i)
        BY <2>0, Zenon
    <2>2. Cardinality(U(i) \cup {j}) = Cardinality(U(i)) + 1
        BY <2>1, <1>3, OneMore
    <2>3. Cardinality(U(i) \cup {j}) <= Cardinality(U(j))
        BY <2>1, <1>3, PartOf
    <2> QED
        BY <2>2, <2>3, <1>3
<1>6. \A k \in 1..Cardinality(I) : \E i \in I : Cardinality(U(i)) = k
    <2> DEFINE f == [i \in I |-> Cardinality(U(i))]
               C == 1..Cardinality(I)
    <2>1. f \in [I -> C]
        BY <1>2, <1>3, <1>4
    <2>2. Injects(I, f)
        BY <1>3, <1>5 DEF Injects
    <2>4. IsFiniteSet(C) /\ Cardinality(C) = Cardinality(I)
        BY <1>2, Interval
    <2>6. \A k \in C : \E i \in I : f[i] = k
        <3> HIDE DEF f, C
        <3>1. Reaches(I, C, f)
            BY <2>1, <2>2, <2>4, Onto, Zenon
        <3> QED
            BY <3>1, Zenon DEF Reaches
    <2> QED
        BY <2>6
<1>7. \A i \in I : Cardinality(U(i)) \in 1..Cardinality(I)
    BY <1>2, <1>3, <1>4
<1> QED
    BY <1>2, <1>5, <1>6, <1>7, Zenon DEF Rank

(* Kept takes the elements at the positions I, each once and in their      *)
(* order.                                                                  *)
LEMMA KeptFacts ==
    ASSUME Counting, NEW S, NEW s \in Seq(S), NEW I \in SUBSET (1..Len(s))
    PROVE  /\ IsFiniteSet(I) /\ Cardinality(I) \in Nat /\ Cardinality(I) <= Len(s)
           /\ Kept(s, I) \in Seq(S) /\ Len(Kept(s, I)) = Cardinality(I)
           /\ \A k \in 1..Cardinality(I) : \E i \in I : Rank(I, i) = k /\ Kept(s, I)[k] = s[i]
           /\ \A i \in I : Rank(I, i) \in 1..Cardinality(I) /\ Kept(s, I)[Rank(I, i)] = s[i]
<1> DEFINE p(k) == CHOOSE i \in I : Rank(I, i) = k
<1>1. Kept(s, I) = [k \in 1..Cardinality(I) |-> s[p(k)]]
    BY Zenon DEF Kept, Rank
<1>2. Len(s) \in Nat
    OBVIOUS
<1>3. /\ IsFiniteSet(I) /\ Cardinality(I) \in Nat /\ Cardinality(I) <= Len(s)
      /\ \A i \in I : Rank(I, i) \in 1..Cardinality(I)
      /\ \A i, j \in I : i < j => Rank(I, i) < Rank(I, j)
      /\ \A k \in 1..Cardinality(I) : \E i \in I : Rank(I, i) = k
    BY <1>2, RankFacts
<1>4. \A k \in 1..Cardinality(I) : p(k) \in I /\ Rank(I, p(k)) = k
    BY <1>3, Zenon
<1> HIDE DEF p
<1>5. \A k \in 1..Cardinality(I) : s[p(k)] \in S
    <2>1. \A i \in I : i \in 1..Len(s) /\ s[i] \in S
        OBVIOUS
    <2> QED
        BY <2>1, <1>4, Zenon
<1>6. \A i \in I : p(Rank(I, i)) = i
    <2> SUFFICES ASSUME NEW i \in I PROVE p(Rank(I, i)) = i
        OBVIOUS
    <2>1. Rank(I, i) \in 1..Cardinality(I)
        BY <1>3
    <2>2. p(Rank(I, i)) \in I /\ Rank(I, p(Rank(I, i))) = Rank(I, i)
        BY <2>1, <1>4
    <2>3. \A j \in I : j \in Nat
        OBVIOUS
    <2>4. PICK q \in I : q = p(Rank(I, i)) /\ Rank(I, q) = Rank(I, i)
        BY <2>2, Zenon
    <2>5. ~(q < i) /\ ~(i < q)
        BY <2>1, <2>4, <1>3
    <2> QED
        BY <2>3, <2>4, <2>5
<1>7. Kept(s, I) \in Seq(S) /\ Len(Kept(s, I)) = Cardinality(I)
    <2>1. Kept(s, I) \in [1..Cardinality(I) -> S]
        BY <1>1, <1>5
    <2> QED
        BY <2>1, <1>3
<1>8. \A k \in 1..Cardinality(I) : Kept(s, I)[k] = s[p(k)]
    BY <1>1
<1> QED
    BY <1>3, <1>4, <1>6, <1>7, <1>8

(* All of a list is the list.                                              *)
LEMMA KeptAll ==
    ASSUME Counting, NEW S, NEW s \in Seq(S), NEW I \in SUBSET (1..Len(s)), Cardinality(I) = Len(s)
    PROVE  \A k \in 1..Len(s) : Kept(s, I)[k] = s[k]
<1>0. Len(s) \in Nat
    OBVIOUS
<1>1. IsFiniteSet(1..Len(s)) /\ Cardinality(1..Len(s)) = Len(s)
    BY <1>0, UpTo, Zenon
<1>2. I = 1..Len(s)
    BY <1>1, PartOf, Zenon
<1>3. \A k \in 1..Len(s) : Rank(I, k) = k
    <2> TAKE k \in 1..Len(s)
    <2>1. {j \in I : j <= k} = 1..k
        BY <1>0, <1>2
    <2>2. Cardinality(1..k) = k
        BY <1>0, UpTo
    <2> QED
        BY <2>1, <2>2, Zenon DEF Rank
<1> QED
    BY <1>2, <1>3, KeptFacts

(* All but the first is the tail.                                          *)
LEMMA KeptTail ==
    ASSUME Counting, NEW S, NEW s \in Seq(S), Len(s) >= 1
    PROVE  /\ Kept(s, 2..Len(s)) \in Seq(S) /\ Len(Kept(s, 2..Len(s))) = Len(s) - 1
           /\ \A k \in 1..(Len(s) - 1) : Kept(s, 2..Len(s))[k] = s[k + 1]
<1> DEFINE I == 2..Len(s)
<1>1. I \in SUBSET (1..Len(s)) /\ Cardinality(I) = Len(s) - 1
    BY Interval
<1>2. \A k \in 1..(Len(s) - 1) : Rank(I, k + 1) = k
    <2> TAKE k \in 1..(Len(s) - 1)
    <2>1. {j \in I : j <= k + 1} = 2..(k + 1)
        OBVIOUS
    <2>2. Cardinality(2..(k + 1)) = k
        BY Interval
    <2> QED
        BY <2>1, <2>2, Zenon DEF Rank
<1>3. \A k \in 1..(Len(s) - 1) : k + 1 \in I
    OBVIOUS
<1> HIDE DEF I
<1>4. /\ Kept(s, I) \in Seq(S) /\ Len(Kept(s, I)) = Cardinality(I)
      /\ \A i \in I : Kept(s, I)[Rank(I, i)] = s[i]
    BY <1>1, KeptFacts
<1> QED
    BY <1>1, <1>2, <1>3, <1>4 DEF I

(* The first of the list can only become the first.                        *)
LEMMA RankOne ==
    ASSUME Counting, NEW n \in Nat, NEW I \in SUBSET (1..n), 1 \in I
    PROVE  Rank(I, 1) = 1
<1>0. \A i \in I : i \in 1..n
    OBVIOUS
<1>1. \A j \in I : j <= 1 <=> j = 1
    BY <1>0
<1>2. {j \in I : j <= 1} = {1}
    BY <1>1, Zenon
<1> QED
    BY <1>2, Zenon DEF Rank, Counting

(* A bounded set of numbers has a largest one.                             *)
LEMMA Maximum ==
    ASSUME Counting, NEW n \in Nat, NEW S \in SUBSET (0..n), S # {}
    PROVE  \E m \in S : \A k \in S : k <= m
BY Zenon DEF Counting

(* allocate_deployserial: the directory does not exist yet.                *)
LEMMA Fresh ==
    ASSUME Counting, NEW c \in Commits, root.deploys \subseteq Dirs
    PROVE  /\ NewSerial(c) \in Nat
           /\ [commit |-> c, serial |-> NewSerial(c)] \notin root.deploys
<1> DEFINE used == {d.serial : d \in {e \in root.deploys : e.commit = c}}
           top == CHOOSE n \in used : \A m \in used : m <= n
<1>0. MaxSerial \in Nat
    BY SysrootConstants, Zenon
<1>1. used \in SUBSET (0..MaxSerial)
    BY DEF Dirs
<1>2. NewSerial(c) = IF used = {} THEN 0 ELSE top + 1
    BY Zenon DEF NewSerial
<1>3. \A d \in root.deploys : d.commit = c => d.serial \in used
    OBVIOUS
<1>4. used # {} => top \in used /\ \A m \in used : m <= top
    <2> HIDE DEF used
    <2>1. used # {} => \E m \in used : \A k \in used : k <= m
        BY <1>0, <1>1, Maximum, Zenon
    <2> QED
        BY <2>1, Zenon
<1> HIDE DEF used, top
<1>5. NewSerial(c) \in Nat /\ NewSerial(c) \notin used
    <2>1. \A m \in used : m \in Nat
        BY <1>1
    <2>2. used # {} => top + 1 \in Nat /\ top + 1 \notin used
        BY <2>1, <1>4
    <2> QED
        BY <2>2, <1>2
<1>6. [commit |-> c, serial |-> NewSerial(c)].commit = c
      /\ [commit |-> c, serial |-> NewSerial(c)].serial = NewSerial(c)
    OBVIOUS
<1> QED
    BY <1>3, <1>5, <1>6, Zenon

(***************************************************************************)
(* What the boot loader finds and a process loads.                         *)
(***************************************************************************)

(* The subbootversion in use is 0 or 1.                                    *)
LEMMA SubversionType ==
    ASSUME NEW r, IsRoot(r), NEW v \in Versions
    PROVE  Subversion(r, v) \in Versions
<1>1. r.link[v] \in Versions \cup {None}
    BY Zenon DEF IsRoot
<1> QED
    BY <1>1 DEF Subversion, Versions

(* The directories of the list are those the symlinks name.                *)
LEMMA GoodDirs ==
    ASSUME NEW r, NEW b, Good(r, b)
    PROVE  /\ DOMAIN Offered(r, b) = DOMAIN InUse(b)
           /\ \A i \in DOMAIN InUse(b) :
                 /\ Offered(r, b)[i].dir = Links(r, b)[InUse(b)[i].key]
                 /\ Offered(r, b)[i].dir \in r.sealed
                 /\ Offered(r, b)[i].kargs = InUse(b)[i].kargs
                 /\ InUse(b)[i].key[1] = Kernel(Offered(r, b)[i].dir)
           /\ DirsOf(Offered(r, b)) \subseteq r.sealed
<1>1. DOMAIN Offered(r, b) = DOMAIN InUse(b)
    BY DEF Offered, InUse
<1>2. ASSUME NEW i \in DOMAIN InUse(b)
      PROVE  /\ Offered(r, b)[i].dir = Links(r, b)[InUse(b)[i].key]
             /\ Offered(r, b)[i].kargs = InUse(b)[i].kargs
    <2>1. InUse(b)[i].key \in DOMAIN Links(r, b)
        BY Zenon DEF Good
    <2>2. Offered(r, b)[i] =
            [dir |-> IF InUse(b)[i].key \in DOMAIN Links(r, b)
                     THEN Links(r, b)[InUse(b)[i].key] ELSE None,
             kargs |-> InUse(b)[i].kargs]
        BY Zenon DEF Offered, InUse
    <2> QED
        BY <2>1, <2>2
<1>3. \A i \in DOMAIN InUse(b) :
         Links(r, b)[InUse(b)[i].key] \in r.sealed /\ InUse(b)[i].key = Key(Offered(r, b), i)
    BY Zenon DEF Good
<1>4. \A i \in DOMAIN InUse(b) : InUse(b)[i].key[1] = Kernel(Offered(r, b)[i].dir)
    BY <1>3 DEF Key
<1>5. \A i \in DOMAIN InUse(b) : Offered(r, b)[i].dir \in r.sealed
    BY <1>2, <1>3, Zenon
<1>6. DirsOf(Offered(r, b)) \subseteq r.sealed
    BY <1>1, <1>5, Zenon DEF DirsOf
<1> QED
    BY <1>1, <1>2, <1>4, <1>5, <1>6, Zenon

(* What boots does so as long as the entries in use, their symlinks, and   *)
(* the directories and kernels they lead to stay.                          *)
LEMMA GoodSame ==
    ASSUME NEW r, NEW b, NEW r2, NEW b2, Good(r, b),
           b2.loader = b.loader, InUse(b2) = InUse(b), Links(r2, b2) = Links(r, b),
           DirsOf(Offered(r, b)) \subseteq r2.sealed,
           \A i \in DOMAIN InUse(b) : InUse(b)[i].key[1] \in b2.kernels
    PROVE  Good(r2, b2) /\ Offered(r2, b2) = Offered(r, b)
<1>1. Offered(r2, b2) = Offered(r, b)
    BY Zenon DEF Offered, InUse
<1>2. \A i \in DOMAIN InUse(b) : Links(r, b)[InUse(b)[i].key] \in r2.sealed
    <2> TAKE i \in DOMAIN InUse(b)
    <2>1. /\ i \in DOMAIN Offered(r, b)
          /\ Offered(r, b)[i].dir = Links(r, b)[InUse(b)[i].key]
        BY GoodDirs
    <2>2. Offered(r, b)[i].dir \in DirsOf(Offered(r, b))
        BY <2>1, Zenon DEF DirsOf
    <2> QED
        BY <2>1, <2>2, Zenon
<1> QED
    BY <1>1, <1>2, Zenon DEF Good

(* A list whose entries and symlinks are in place boots.                   *)
LEMMA GoodNew ==
    ASSUME Counting, NEW r, NEW b, NEW p \in Seq(Deployments), p # <<>>,
           Links(r, b) = Farm(p), DirsOf(p) \subseteq r.sealed,
           DOMAIN InUse(b) = DOMAIN p,
           \A i \in DOMAIN p : InUse(b)[i].key = Key(p, i) /\ InUse(b)[i].key[1] \in b.kernels
    PROVE  Good(r, b) /\ DirsOf(Offered(r, b)) = DirsOf(p)
<1>1. \A i \in DOMAIN p : Key(p, i) \in DOMAIN Farm(p) /\ Farm(p)[Key(p, i)] = p[i].dir
    BY FarmAt, Zenon
<1>2. DOMAIN Offered(r, b) = DOMAIN p
    BY DEF Offered, InUse
<1>3. ASSUME NEW i \in DOMAIN p PROVE Offered(r, b)[i].dir = p[i].dir
    <2>1. Offered(r, b)[i] =
            [dir |-> IF InUse(b)[i].key \in DOMAIN Links(r, b)
                     THEN Links(r, b)[InUse(b)[i].key] ELSE None,
             kargs |-> InUse(b)[i].kargs]
        BY Zenon DEF Offered, InUse
    <2> QED
        BY <1>1, <2>1
<1>4. ASSUME NEW i \in DOMAIN p PROVE Key(Offered(r, b), i) = Key(p, i)
    <2>1. i \in Nat /\ i >= 1 /\ \A j \in 1..i : j \in DOMAIN p
        OBVIOUS
    <2>2. \A j \in 1..i : Kernel(Offered(r, b)[j].dir) = Kernel(p[j].dir)
        BY <2>1, <1>3, Zenon
    <2> QED
        BY <2>1, <2>2, SameKey
<1>5. \A i \in DOMAIN p : p[i].dir \in r.sealed
    BY Zenon DEF DirsOf
<1>6. InUse(b) # <<>>
    OBVIOUS
<1>7. Good(r, b)
    BY <1>1, <1>4, <1>5, <1>6, Zenon DEF Good
<1> QED
    BY <1>2, <1>3, <1>7, Zenon DEF DirsOf

(* What a process loads.                                                   *)
LEMMA LoadFacts ==
    ASSUME NEW r, NEW b, NEW st, IsRoot(r), IsBoot(b), Good(r, b), st # None => IsStaged(st),
           NEW L, L = Load(r, b, st), NEW sh, sh = (IF st = None THEN 0 ELSE 1)
    PROVE  /\ L.bootversion = b.loader /\ L.subbootversion = Subversion(r, b.loader)
           /\ DOMAIN L = {"bootversion", "subbootversion", "deployments"}
           /\ L.deployments \in Seq(Deployments) /\ L.deployments # <<>>
           /\ Len(L.deployments) = sh + Len(InUse(b))
           /\ \A i \in DOMAIN InUse(b) :
                 L.deployments[sh + i] =
                    [dir |-> Offered(r, b)[i].dir, kargs |-> InUse(b)[i].kargs,
                     staged |-> FALSE, same |-> TRUE]
           /\ st # None => /\ L.deployments[1].dir = st.dir /\ L.deployments[1].staged
                           /\ L.deployments[1].kargs = st.kargs
           /\ L.deployments[1].staged <=> st # None
<1> DEFINE
      front == IF st = None THEN <<>>
               ELSE <<[dir |-> st.dir, kargs |-> st.kargs, staged |-> TRUE, same |-> TRUE]>>
      rest == [i \in DOMAIN Offered(r, b) |->
                 [dir |-> Offered(r, b)[i].dir, kargs |-> Offered(r, b)[i].kargs,
                  staged |-> FALSE, same |-> TRUE]]
<1>1. /\ L.bootversion = b.loader /\ L.subbootversion = Subversion(r, b.loader)
      /\ DOMAIN L = {"bootversion", "subbootversion", "deployments"}
      /\ L.deployments = front \o rest
    BY DEF Load
<1>2. InUse(b) \in Seq(BootConfigs) /\ InUse(b) # <<>>
    <2>1. b.loader \in Versions /\ b.entries \in [Versions -> Seq(BootConfigs)]
        BY Zenon DEF IsBoot
    <2> QED
        BY <2>1, Zenon DEF InUse, Good
<1>3. front \in Seq(Deployments) /\ Len(front) = sh
    <2>1. CASE st = None
        BY <2>1
    <2>2. CASE st # None
        <3>1. [dir |-> st.dir, kargs |-> st.kargs, staged |-> TRUE, same |-> TRUE] \in Deployments
            BY <2>2 DEF IsStaged, StagedFiles, Deployments
        <3> QED
            BY <3>1, <2>2
    <2> QED
        BY <2>1, <2>2
<1>4. DOMAIN rest = 1..Len(InUse(b)) /\ Len(InUse(b)) \in Nat \ {0}
    BY <1>2, GoodDirs
<1>5. ASSUME NEW i \in 1..Len(InUse(b))
      PROVE  /\ rest[i] = [dir |-> Offered(r, b)[i].dir, kargs |-> InUse(b)[i].kargs,
                            staged |-> FALSE, same |-> TRUE]
             /\ rest[i] \in Deployments
    <2>1. Offered(r, b)[i].dir \in Dirs
        BY <1>4, GoodDirs DEF IsRoot
    <2>2. InUse(b)[i] \in BootConfigs
        BY <1>2
    <2>3. Offered(r, b)[i].kargs = InUse(b)[i].kargs
        BY <1>2, GoodDirs
    <2>4. rest[i] = [dir |-> Offered(r, b)[i].dir, kargs |-> Offered(r, b)[i].kargs,
                     staged |-> FALSE, same |-> TRUE]
        BY <1>4
    <2> HIDE DEF rest
    <2> QED
        BY <2>1, <2>2, <2>3, <2>4 DEF Deployments, BootConfigs
<1>6. rest \in Seq(Deployments) /\ Len(rest) = Len(InUse(b))
    <2>1. rest \in [1..Len(InUse(b)) -> Deployments]
        BY <1>4, <1>5
    <2> QED
        BY <2>1, <1>4
<1>7. st # None => front[1].dir = st.dir /\ front[1].staged /\ front[1].kargs = st.kargs
    OBVIOUS
<1> HIDE DEF front, rest
<1>8. /\ front \o rest \in Seq(Deployments)
      /\ Len(front \o rest) = sh + Len(InUse(b))
      /\ \A i \in 1..Len(InUse(b)) : (front \o rest)[sh + i] = rest[i]
      /\ sh = 1 => (front \o rest)[1] = front[1]
    <2>1. /\ front \o rest \in Seq(Deployments)
          /\ Len(front \o rest) = Len(front) + Len(rest)
          /\ \A i \in 1..(Len(front) + Len(rest)) :
                (front \o rest)[i] = IF i <= Len(front) THEN front[i] ELSE rest[i - Len(front)]
        BY <1>3, <1>6, Joined, Zenon
    <2>2. sh \in {0, 1}
        OBVIOUS
    <2> QED
        BY <2>1, <2>2, <1>3, <1>4, <1>6
<1>9. L.deployments[1].staged <=> st # None
    <2>1. CASE st = None
        <3>1. L.deployments[1] = rest[1] /\ 1 \in 1..Len(InUse(b))
            BY <2>1, <1>1, <1>4, <1>8
        <3>2. rest[1] = [dir |-> Offered(r, b)[1].dir, kargs |-> InUse(b)[1].kargs,
                         staged |-> FALSE, same |-> TRUE]
            BY <3>1, <1>5, Zenon
        <3> QED
            BY <2>1, <3>1, <3>2
    <2>2. CASE st # None
        BY <2>2, <1>1, <1>7, <1>8
    <2> QED
        BY <2>1, <2>2
<1>10. \A i \in DOMAIN InUse(b) : i \in 1..Len(InUse(b))
    BY <1>2
<1>11. L.deployments # <<>>
    BY <1>1, <1>4, <1>8
<1>12. \A i \in DOMAIN InUse(b) :
          L.deployments[sh + i] =
             [dir |-> Offered(r, b)[i].dir, kargs |-> InUse(b)[i].kargs,
              staged |-> FALSE, same |-> TRUE]
    BY <1>1, <1>5, <1>8, <1>10, Zenon
<1>13. st # None => L.deployments[1] = front[1]
    BY <1>1, <1>8
<1> QED
    BY <1>1, <1>7, <1>8, <1>9, <1>11, <1>12, <1>13, Zenon

(***************************************************************************)
(* Steps that leave the list alone.                                        *)
(***************************************************************************)

(* A state of /ostree in which the boot loader finds what it finds now.    *)
Quiet(r) ==
    /\ IsRoot(r)
    /\ \A b \in bootDisk :
          /\ Subversion(r, b.loader) = Subversion(root, b.loader)
          /\ Links(r, b) = Links(root, b)
          /\ DirsOf(Offered(root, b)) \subseteq r.sealed

(* What the boot loader offers, and the process sees of it, stays.         *)
SameView ==
    /\ boot'.loader = boot.loader /\ InUse(boot') = InUse(boot)
    /\ Offered(root', boot') = Offered(root, boot)
    /\ Links(root', boot') = Links(root, boot)
    /\ Subversion(root', boot'.loader) = Subversion(root, boot.loader)
    /\ booted' = booted

(* No process leaves the sync after the rename of /boot/loader half way.   *)
Settled == pc # "freeze_again" \/ pc' = "freeze_again"

(* The lists a power loss may leave: fallback of BootListAbs.              *)
Fallback == {Offered(r, b) : r \in rootDisk, b \in bootDisk}

(* It stays, or everything is written to disk.                             *)
Flushed == Fallback' = Fallback \/ Fallback' = {Offered(root, boot)}

(* The list is offered as before.                                          *)
Stands == DiskTypes /\ Boots /\ Settled => DiskTypes' /\ Boots' /\ SameView /\ Flushed

(* Unless /boot/loader was just renamed, all the states of /boot a power   *)
(* loss may leave offer the same entries.                                  *)
LEMMA OneView ==
    ASSUME Boots, pc # "freeze_again", NEW b \in bootDisk, NEW r
    PROVE  /\ b.loader = boot.loader /\ InUse(b) = InUse(boot)
           /\ Links(r, b) = Links(r, boot) /\ Offered(r, b) = Offered(r, boot)
<1>1. b.loader = boot.loader /\ InUse(b) = InUse(boot)
    BY Zenon DEF Boots
<1>2. Links(r, b) = Links(r, boot)
    BY <1>1, Zenon DEF Links
<1> QED
    BY <1>1, <1>2, Zenon DEF Offered, InUse

(* A change of /ostree to a state that offers the same list, with or       *)
(* without a sync, leaves the list alone.                                  *)
LEMMA RootStep ==
    ASSUME root' \in rootDisk', Quiet(root'),
           \/ rootDisk' = rootDisk \cup {root'}
           \/ pc # "freeze_again" /\ \A r \in rootDisk' : Quiet(r),
           boot' = boot, bootDisk' = bootDisk, booted' = booted
    PROVE  Stands
<1> SUFFICES ASSUME DiskTypes, Boots, Settled
               PROVE  DiskTypes' /\ Boots' /\ SameView /\ Flushed
    BY Zenon DEF Stands
<1>a. \A r \in rootDisk' : r \in rootDisk \/ Quiet(r)
    BY Zenon
<1>1. boot \in bootDisk /\ root \in rootDisk
    BY Zenon DEF DiskTypes
<1>2. DiskTypes'
    BY Zenon DEF DiskTypes, Quiet
<1>3. ASSUME NEW r, Quiet(r), NEW b \in bootDisk
      PROVE  Good(r, b) /\ Offered(r, b) = Offered(root, b)
    <2>1. Good(root, b)
        BY <1>1, Zenon DEF Boots
    <2>2. Links(r, b) = Links(root, b) /\ DirsOf(Offered(root, b)) \subseteq r.sealed
        BY <1>3, Zenon DEF Quiet
    <2>3. \A i \in DOMAIN InUse(b) : InUse(b)[i].key[1] \in b.kernels
        BY <2>1, Zenon DEF Good
    <2> QED
        BY <2>1, <2>2, <2>3, GoodSame
<1>4. \A r \in rootDisk', b \in bootDisk' : Good(r, b)
    BY <1>a, <1>3, Zenon DEF Boots
<1>5. Offered(root', boot') = Offered(root, boot)
    BY <1>1, <1>3, Zenon
<1>6. Boots'
    BY <1>4, <1>5, Zenon DEF Boots, Settled
<1>7. Flushed
    <2>1. CASE rootDisk' = rootDisk \cup {root'}
        <3>1. \A b \in bootDisk : Offered(root', b) = Offered(root, b)
            BY <1>3, Zenon
        <3>2. Fallback' = Fallback
            <4>1. \A x \in Fallback' : x \in Fallback
                <5> TAKE x \in Fallback'
                <5>1. PICK r \in rootDisk', b \in bootDisk : x = Offered(r, b)
                    BY DEF Fallback
                <5>2. \E q \in rootDisk : x = Offered(q, b)
                    BY <5>1, <2>1, <3>1, <1>1, Zenon
                <5> QED
                    BY <5>2 DEF Fallback
            <4>2. \A x \in Fallback : x \in Fallback'
                BY <2>1 DEF Fallback
            <4> QED
                BY <4>1, <4>2, Zenon
        <3> QED
            BY <3>2 DEF Flushed
    <2>2. CASE pc # "freeze_again" /\ \A r \in rootDisk' : Quiet(r)
        <3>1. \A r \in rootDisk', b \in bootDisk : Offered(r, b) = Offered(root, boot)
            BY <2>2, <1>3, OneView, Zenon
        <3>2. Fallback' = {Offered(root, boot)}
            <4>1. root' \in rootDisk' /\ boot \in bootDisk
                BY <1>1
            <4> QED
                BY <3>1, <4>1 DEF Fallback
        <3> QED
            BY <3>2 DEF Flushed
    <2> QED
        BY <2>1, <2>2, Zenon
<1> QED
    BY <1>1, <1>2, <1>5, <1>6, <1>7, Zenon DEF SameView, Quiet

(* So does a change of /boot that keeps the entries in use and their       *)
(* kernels.                                                                *)
LEMMA BootStep ==
    ASSUME bootDisk' = bootDisk \cup {boot'}, IsBoot(boot'), boot'.loader = boot.loader, InUse(boot') = InUse(boot),
           \A i \in DOMAIN InUse(boot) : InUse(boot)[i].key[1] \in boot'.kernels,
           root' = root, rootDisk' = rootDisk, booted' = booted
    PROVE  Stands
<1> SUFFICES ASSUME DiskTypes, Boots, Settled
               PROVE  DiskTypes' /\ Boots' /\ SameView /\ Flushed
    BY Zenon DEF Stands
<1>1. boot \in bootDisk /\ root \in rootDisk
    BY Zenon DEF DiskTypes
<1>2. DiskTypes'
    BY Zenon DEF DiskTypes
<1>3. ASSUME NEW r \in rootDisk
      PROVE  /\ Good(r, boot') /\ Offered(r, boot') = Offered(r, boot)
             /\ Links(r, boot') = Links(r, boot)
    <2>1. Good(r, boot)
        BY <1>1, Zenon DEF Boots
    <2>2. Links(r, boot') = Links(r, boot)
        BY Zenon DEF Links
    <2>3. DirsOf(Offered(r, boot)) \subseteq r.sealed
        BY <2>1, GoodDirs, Zenon
    <2> QED
        BY <2>1, <2>2, <2>3, GoodSame
<1>4. \A r \in rootDisk', b \in bootDisk' : Good(r, b)
    BY <1>3, Zenon DEF Boots
<1>5. Offered(root', boot') = Offered(root, boot) /\ Links(root', boot') = Links(root, boot)
    BY <1>1, <1>3, Zenon
<1>6. Boots'
    BY <1>4, <1>5, Zenon DEF Boots, Settled
<1>7. Flushed
    <2>1. Fallback' = Fallback
        <3>1. \A r \in rootDisk : Offered(r, boot') = Offered(r, boot)
            BY <1>3, Zenon
        <3>2. \A x \in Fallback' : x \in Fallback
            <4> TAKE x \in Fallback'
            <4>1. PICK r \in rootDisk, b \in bootDisk' : x = Offered(r, b)
                BY DEF Fallback
            <4>2. \E c \in bootDisk : x = Offered(r, c)
                BY <4>1, <3>1, <1>1, Zenon
            <4> QED
                BY <4>2 DEF Fallback
        <3>3. \A x \in Fallback : x \in Fallback'
            BY DEF Fallback
        <3> QED
            BY <3>2, <3>3, Zenon
    <2> QED
        BY <2>1 DEF Flushed
<1> QED
    BY <1>2, <1>5, <1>6, <1>7, Zenon DEF SameView

(* A step in memory leaves the list alone.                                 *)
LEMMA MemoryStep ==
    ASSUME UNCHANGED disks, booted' = booted
    PROVE  Stands
<1> SUFFICES ASSUME DiskTypes, Boots, Settled
               PROVE  DiskTypes' /\ Boots' /\ SameView /\ Flushed
    BY Zenon DEF Stands
<1>1. root' = root /\ rootDisk' = rootDisk /\ boot' = boot /\ bootDisk' = bootDisk
    BY DEF disks
<1>2. DiskTypes'
    BY <1>1, Zenon DEF DiskTypes
<1>3. Boots'
    BY <1>1, Zenon DEF Boots, Settled
<1>4. Flushed
    BY <1>1 DEF Flushed, Fallback
<1> QED
    BY <1>1, <1>2, <1>3, <1>4, Zenon DEF SameView

(* Commits and refs are not part of what boots.                            *)
LEMMA RootOther ==
    ASSUME NEW q, IsRoot(q), NEW x, NEW r,
           r \in {[q EXCEPT !.commits = x], [q EXCEPT !.refs = x], [q EXCEPT !.tip = x]}
    PROVE  /\ IsRoot(r) /\ r.link = q.link /\ r.farm = q.farm
           /\ r.deploys = q.deploys /\ r.sealed = q.sealed
<1>1. DOMAIN q = {"link", "farm", "deploys", "sealed", "commits", "tip", "refs"}
    BY Zenon DEF IsRoot
<1>2. /\ DOMAIN r = DOMAIN q /\ r.link = q.link /\ r.farm = q.farm
      /\ r.deploys = q.deploys /\ r.sealed = q.sealed
    BY <1>1
<1> QED
    BY <1>1, <1>2, Zenon DEF IsRoot

(* The symlinks f are written to the directory boot.v.s.                   *)
SetFarm(q, v, s, f) == [q EXCEPT !.farm[v][s] = f]

(* The symlink boot.v is made to lead to boot.v.s.                         *)
SetLink(q, v, s) == [q EXCEPT !.link[v] = s]

(* All boot symlinks but those of boot.v.s are removed.                    *)
OtherCleared(q, v, s) == [q EXCEPT !.link[1 - v] = None, !.farm = OneFarm(v, s, @[v][s])]

(* What an update of one directory of boot symlinks changes.               *)
LEMMA RootFarm ==
    ASSUME NEW q, IsRoot(q), NEW v \in Versions, NEW s \in Versions, NEW f, NEW r,
           r = SetFarm(q, v, s, f)
    PROVE  /\ IsRoot(r) /\ r.link = q.link /\ r.deploys = q.deploys /\ r.sealed = q.sealed
           /\ r.farm[v][s] = f
           /\ \A w \in Versions, t \in Versions :
                 w # v \/ t # s => r.farm[w][t] = q.farm[w][t]
<1>1. /\ DOMAIN q = {"link", "farm", "deploys", "sealed", "commits", "tip", "refs"}
      /\ DOMAIN q.farm = Versions /\ \A w \in Versions : DOMAIN q.farm[w] = Versions
    BY Zenon DEF IsRoot
<1>2. /\ DOMAIN r = DOMAIN q /\ r.link = q.link /\ r.deploys = q.deploys /\ r.sealed = q.sealed
      /\ r.farm = [q.farm EXCEPT ![v][s] = f]
    BY <1>1 DEF SetFarm
<1>3. /\ DOMAIN r.farm = Versions /\ r.farm[v] = [q.farm[v] EXCEPT ![s] = f]
      /\ \A w \in Versions : w # v => r.farm[w] = q.farm[w]
    BY <1>1, <1>2
<1>4. DOMAIN r.farm[v] = Versions /\ r.farm[v][s] = f
      /\ \A t \in Versions : t # s => r.farm[v][t] = q.farm[v][t]
    BY <1>1, <1>3
<1>5. \A w \in Versions : DOMAIN r.farm[w] = Versions
    BY <1>1, <1>3, <1>4, Zenon
<1>6. IsRoot(r)
    BY <1>1, <1>2, <1>3, <1>5, Zenon DEF IsRoot
<1> QED
    BY <1>2, <1>3, <1>4, <1>6, Zenon

(* What the swap of one boot.v symlink changes.                            *)
LEMMA RootLink ==
    ASSUME IsRoot(root), NEW v \in Versions, NEW s \in Versions,
           root' = SetLink(root, v, s)
    PROVE  /\ IsRoot(root') /\ root'.farm = root.farm /\ root'.deploys = root.deploys /\ root'.sealed = root.sealed
           /\ root'.link[v] = s /\ \A w \in Versions : w # v => root'.link[w] = root.link[w]
<1>1. /\ DOMAIN root = {"link", "farm", "deploys", "sealed", "commits", "tip", "refs"}
      /\ root.link \in [Versions -> Versions \cup {None}]
    BY Zenon DEF IsRoot
<1>2. /\ DOMAIN root' = DOMAIN root /\ root'.farm = root.farm /\ root'.deploys = root.deploys /\ root'.sealed = root.sealed
      /\ root'.link = [root.link EXCEPT ![v] = s]
    BY <1>1 DEF SetLink
<1>3. /\ root'.link \in [Versions -> Versions \cup {None}]
      /\ root'.link[v] = s /\ \A w \in Versions : w # v => root'.link[w] = root.link[w]
    BY <1>1, <1>2
<1> QED
    BY <1>1, <1>2, <1>3, Zenon DEF IsRoot

(* What the removal of the other bootversion's symlinks changes.           *)
LEMMA RootClean ==
    ASSUME IsRoot(root), NEW v \in Versions, NEW s \in Versions,
           root' = OtherCleared(root, v, s)
    PROVE  /\ IsRoot(root') /\ root'.deploys = root.deploys /\ root'.sealed = root.sealed
           /\ root'.link[v] = root.link[v] /\ root'.link[1 - v] = None
           /\ root'.farm[v][s] = root.farm[v][s]
<1>1. /\ DOMAIN root = {"link", "farm", "deploys", "sealed", "commits", "tip", "refs"}
      /\ root.link \in [Versions -> Versions \cup {None}]
    BY Zenon DEF IsRoot
<1>2. /\ DOMAIN root' = DOMAIN root /\ root'.deploys = root.deploys /\ root'.sealed = root.sealed
      /\ root'.link = [root.link EXCEPT ![1 - v] = None] /\ root'.farm = OneFarm(v, s, root.farm[v][s])
    BY <1>1 DEF OtherCleared
<1>3. 1 - v \in Versions /\ 1 - v # v
    BY OtherVersion
<1>4. root'.link \in [Versions -> Versions \cup {None}] /\ root'.link[v] = root.link[v]
      /\ root'.link[1 - v] = None
    BY <1>1, <1>2, <1>3
<1>5. /\ DOMAIN root'.farm = Versions /\ \A w \in Versions : DOMAIN root'.farm[w] = Versions
      /\ root'.farm[v][s] = root.farm[v][s]
    BY <1>2 DEF OneFarm
<1> QED
    BY <1>1, <1>2, <1>4, <1>5, Zenon DEF IsRoot

(* More finished directories do not change what the loader finds.          *)
LEMMA QuietMore ==
    ASSUME DiskTypes, Boots, NEW r, IsRoot(r), r.link = root.link, r.farm = root.farm,
           root.sealed \subseteq r.sealed
    PROVE  Quiet(r)
<1>1. root \in rootDisk
    BY Zenon DEF DiskTypes
<1>2. ASSUME NEW b \in bootDisk
      PROVE  /\ Subversion(r, b.loader) = Subversion(root, b.loader)
             /\ Links(r, b) = Links(root, b)
             /\ DirsOf(Offered(root, b)) \subseteq r.sealed
    <2>1. Subversion(r, b.loader) = Subversion(root, b.loader)
        BY Zenon DEF Subversion
    <2>2. Links(r, b) = Links(root, b)
        BY <2>1, Zenon DEF Links
    <2>3. Good(root, b)
        BY <1>1, Zenon DEF Boots
    <2>4. DirsOf(Offered(root, b)) \subseteq root.sealed
        BY <2>3, GoodDirs, Zenon
    <2> QED
        BY <2>1, <2>2, <2>4
<1> QED
    BY <1>2, Zenon DEF Quiet

(* Neither does the removal of a directory that is not offered.            *)
LEMMA QuietLess ==
    ASSUME DiskTypes, Boots, pc # "freeze_again", NEW d, d \notin DirsOf(Offered(root, boot)),
           NEW r, r = [root EXCEPT !.deploys = @ \ {d}, !.sealed = @ \ {d}]
    PROVE  Quiet(r) /\ r.deploys = root.deploys \ {d} /\ r.sealed = root.sealed \ {d}
<1>1. root \in rootDisk /\ boot \in bootDisk /\ IsRoot(root)
    BY Zenon DEF DiskTypes
<1>2. root.deploys \subseteq Dirs /\ root.sealed \subseteq root.deploys
    BY <1>1, Zenon DEF IsRoot
<1> DEFINE x == root.deploys \ {d}
           y == root.sealed \ {d}
<1>3. x \subseteq Dirs /\ y \subseteq x /\ r = [root EXCEPT !.deploys = x, !.sealed = y]
    BY <1>2
<1>4. IsRoot(r) /\ r.link = root.link /\ r.farm = root.farm /\ r.deploys = x /\ r.sealed = y
    <2>1. /\ DOMAIN root = {"link", "farm", "deploys", "sealed", "commits", "tip", "refs"}
          /\ root.link \in [Versions -> Versions \cup {None}]
          /\ DOMAIN root.farm = Versions /\ \A v \in Versions : DOMAIN root.farm[v] = Versions
        BY <1>1, Zenon DEF IsRoot
    <2>2. /\ DOMAIN r = DOMAIN root /\ r.link = root.link /\ r.farm = root.farm
          /\ r.deploys = x /\ r.sealed = y
        BY <2>1
    <2> QED
        BY <1>3, <2>1, <2>2 DEF IsRoot
<1>5. ASSUME NEW b \in bootDisk
      PROVE  /\ Subversion(r, b.loader) = Subversion(root, b.loader)
             /\ Links(r, b) = Links(root, b)
             /\ DirsOf(Offered(root, b)) \subseteq r.sealed
    <2>1. Subversion(r, b.loader) = Subversion(root, b.loader)
        BY <1>4 DEF Subversion
    <2>2. Links(r, b) = Links(root, b)
        BY <1>4, <2>1, Zenon DEF Links
    <2>3. Good(root, boot) /\ Offered(root, b) = Offered(root, boot)
        BY <1>1, OneView, Zenon DEF Boots
    <2>4. DirsOf(Offered(root, b)) \subseteq root.sealed
        BY <2>3, GoodDirs, Zenon
    <2> QED
        BY <1>4, <2>1, <2>2, <2>3, <2>4
<1> QED
    BY <1>4, <1>5, Zenon DEF Quiet

(* Neither do boot symlinks that are not in use.                           *)
LEMMA QuietFarm ==
    ASSUME DiskTypes, Boots, pc # "freeze_again", NEW r, IsRoot(r), r.sealed = root.sealed,
           r.link[boot.loader] = root.link[boot.loader],
           r.farm[boot.loader][Subversion(root, boot.loader)] = Links(root, boot)
    PROVE  Quiet(r)
<1>1. root \in rootDisk /\ boot \in bootDisk /\ Good(root, boot)
    BY Zenon DEF DiskTypes, Boots
<1>2. Subversion(r, boot.loader) = Subversion(root, boot.loader)
    BY Zenon DEF Subversion
<1>3. Links(r, boot) = Links(root, boot)
    BY <1>2, Zenon DEF Links
<1>4. DirsOf(Offered(root, boot)) \subseteq r.sealed
    BY <1>1, GoodDirs, Zenon
<1>5. ASSUME NEW b \in bootDisk
      PROVE  /\ Subversion(r, b.loader) = Subversion(root, b.loader)
             /\ Links(r, b) = Links(root, b)
             /\ DirsOf(Offered(root, b)) \subseteq r.sealed
    <2>1. /\ b.loader = boot.loader /\ Links(root, b) = Links(root, boot)
          /\ Links(r, b) = Links(r, boot) /\ Offered(root, b) = Offered(root, boot)
        BY OneView, Zenon
    <2> QED
        BY <1>2, <1>3, <1>4, <2>1, Zenon
<1> QED
    BY <1>5, Zenon DEF Quiet

(* What a process that has loaded the list knows of the disks.             *)
LEMMA Known ==
    ASSUME DiskTypes, Boots, InSync, self.deployments \in Seq(Deployments)
    PROVE  /\ self.bootversion = boot.loader
           /\ self.subbootversion = Subversion(root, boot.loader)
           /\ boot.loader \in Versions /\ Subversion(root, boot.loader) \in Versions
           /\ DirsOf(Offered(root, boot)) \subseteq DirsOf(self.deployments)
           /\ booted \in DirsOf(self.deployments) /\ booted \in root.sealed
           /\ \A i \in DOMAIN InUse(boot) : InUse(boot)[i].key[1] \in ActiveKernels
           /\ \A i \in DOMAIN InUse(boot) : Shift + i \in DOMAIN self.deployments
           /\ Len(InUse(boot)) \in Nat /\ DOMAIN InUse(boot) = 1..Len(InUse(boot))
           /\ Shift \in {0, 1}
<1>1. root \in rootDisk /\ boot \in bootDisk /\ Good(root, boot) /\ IsRoot(root) /\ IsBoot(boot)
    BY Zenon DEF DiskTypes, Boots
<1>2. boot.loader \in Versions /\ boot.entries \in [Versions -> Seq(BootConfigs)]
    BY <1>1, Zenon DEF IsBoot
<1>3. Subversion(root, boot.loader) \in Versions
    BY <1>1, <1>2, SubversionType, Zenon
<1>4. InUse(boot) \in Seq(BootConfigs)
    BY <1>2, Zenon DEF InUse
<1>5. Len(InUse(boot)) \in Nat /\ DOMAIN InUse(boot) = 1..Len(InUse(boot))
    BY <1>4
<1>6. Shift \in {0, 1}
    BY DEF Shift
<1>7. /\ Len(self.deployments) = Shift + Len(InUse(boot))
      /\ \A i \in DOMAIN InUse(boot) :
            self.deployments[Shift + i].dir = Offered(root, boot)[i].dir
    BY Zenon DEF InSync
<1>8. \A i \in DOMAIN InUse(boot) : Shift + i \in DOMAIN self.deployments
    BY <1>5, <1>6, <1>7
<1>9. /\ DOMAIN Offered(root, boot) = DOMAIN InUse(boot)
      /\ \A i \in DOMAIN InUse(boot) :
            InUse(boot)[i].key[1] = Kernel(Offered(root, boot)[i].dir)
      /\ DirsOf(Offered(root, boot)) \subseteq root.sealed
    BY <1>1, GoodDirs
<1>10. DirsOf(Offered(root, boot)) \subseteq DirsOf(self.deployments)
    <2> SUFFICES ASSUME NEW d \in DirsOf(Offered(root, boot))
                 PROVE  d \in DirsOf(self.deployments)
        BY Zenon
    <2>1. PICK i \in DOMAIN InUse(boot) : d = Offered(root, boot)[i].dir
        BY <1>9, Zenon DEF DirsOf
    <2> QED
        BY <2>1, <1>7, <1>8, Zenon DEF DirsOf
<1>11. booted \in DirsOf(Offered(root, boot))
    BY Zenon DEF Boots
<1>12. ASSUME NEW i \in DOMAIN InUse(boot)
       PROVE  InUse(boot)[i].key[1] \in ActiveKernels
    <2>1. InUse(boot)[i].key[1] \in boot.kernels
        BY <1>1, Zenon DEF Good
    <2>2. InUse(boot)[i].key[1] = Kernel(self.deployments[Shift + i].dir)
        BY <1>7, <1>9, Zenon
    <2>3. InUse(boot)[i].key[1] \in KernelsOf(self.deployments)
        BY <2>2, <1>8, Zenon DEF KernelsOf
    <2> QED
        BY <2>1, <2>3, Zenon DEF ActiveKernels
<1> QED
    BY <1>2, <1>3, <1>5, <1>6, <1>8, <1>9, <1>10, <1>11, <1>12, Zenon DEF InSync

(***************************************************************************)
(* The steps on /ostree.                                                   *)
(***************************************************************************)

(* The same, for a process at work on a sysroot in a sound state.          *)
LEMMA AtWork ==
    ASSUME SysrootInvariant, pc \notin Out, pc \notin Stale
    PROVE  /\ DiskTypes /\ Boots /\ InSync /\ IsRoot(root) /\ IsBoot(boot)
           /\ root \in rootDisk /\ boot \in bootDisk /\ pc # "freeze_again"
           /\ self.deployments \in Seq(Deployments)
           /\ DOMAIN self = {"bootversion", "subbootversion", "deployments"}
           /\ self.bootversion = boot.loader
           /\ self.subbootversion = Subversion(root, boot.loader)
           /\ boot.loader \in Versions /\ Subversion(root, boot.loader) \in Versions
           /\ DirsOf(Offered(root, boot)) \subseteq DirsOf(self.deployments)
           /\ booted \in DirsOf(self.deployments) /\ booted \in root.sealed
           /\ \A i \in DOMAIN InUse(boot) : InUse(boot)[i].key[1] \in ActiveKernels
           /\ \A i \in DOMAIN InUse(boot) : Shift + i \in DOMAIN self.deployments
           /\ Len(InUse(boot)) \in Nat /\ DOMAIN InUse(boot) = 1..Len(InUse(boot))
           /\ Shift \in {0, 1}
<1>1. DiskTypes /\ Boots /\ ListTypes /\ Knows
    BY Zenon DEF SysrootInvariant, Booting, Process
<1>2. InSync
    BY <1>1, Zenon DEF Knows
<1>3. self.deployments \in Seq(Deployments)
      /\ DOMAIN self = {"bootversion", "subbootversion", "deployments"}
    BY <1>1, Zenon DEF ListTypes
<1>4. IsRoot(root) /\ IsBoot(boot) /\ root \in rootDisk /\ boot \in bootDisk
    BY <1>1, Zenon DEF DiskTypes
<1>5. pc # "freeze_again"
    BY DEF Stale
<1> QED
    BY <1>1, <1>2, <1>3, <1>4, <1>5, Known

(* Writing such a state of /ostree leaves the list alone.                  *)
LEMMA WriteRootStands ==
    ASSUME NEW r, Quiet(r), WriteRoot(r), UNCHANGED <<boot, bootDisk, booted>>
    PROVE  Stands
BY RootStep, Zenon DEF WriteRoot

(* The steps on /ostree that leave the boot symlinks alone.                *)
LEMMA RepoSteps ==
    ASSUME SysrootInvariant, \/ Pull \/ CleanRefs \/ WriteRefs \/ PruneRepo
    PROVE  Stands /\ pc # "freeze_again"
<1>1. pc \in {"pull", "clean_refs", "write_refs", "prune"}
    BY Zenon DEF Pull, CleanRefs, WriteRefs, PruneRepo
<1>2. pc \notin Out /\ pc \notin Stale
    BY <1>1 DEF Out, Stale
<1>3. DiskTypes /\ Boots /\ IsRoot(root) /\ pc # "freeze_again"
    BY <1>2, AtWork, Zenon
<1>4. ASSUME NEW q, IsRoot(q), q.link = root.link, q.farm = root.farm, q.sealed = root.sealed,
             NEW x, NEW r,
             r \in {[q EXCEPT !.commits = x], [q EXCEPT !.refs = x], [q EXCEPT !.tip = x]}
      PROVE  Quiet(r) /\ IsRoot(r) /\ r.link = root.link /\ r.farm = root.farm
             /\ r.sealed = root.sealed
    <2>1. /\ IsRoot(r) /\ r.link = q.link /\ r.farm = q.farm /\ r.sealed = q.sealed
        BY <1>4, RootOther
    <2> QED
        BY <1>3, <1>4, <2>1, QuietMore
<1>5. CASE Pull
    <2> DEFINE fetched == [root EXCEPT !.commits = root.commits \cup {req.commit}]
    <2>1. /\ root' = [fetched EXCEPT !.tip = req.commit] /\ rootDisk' = {fetched, root'}
          /\ boot' = boot /\ bootDisk' = bootDisk /\ booted' = booted
        BY <1>5, Zenon DEF Pull
    <2>2. Quiet(fetched) /\ IsRoot(fetched) /\ fetched.link = root.link
          /\ fetched.farm = root.farm /\ fetched.sealed = root.sealed
        BY <1>3, <1>4, Zenon
    <2> HIDE DEF fetched
    <2>3. Quiet(root')
        BY <2>1, <2>2, <1>4, Zenon
    <2> QED
        BY <2>1, <2>2, <2>3, <1>3, RootStep, Zenon
<1>6. CASE CleanRefs
    <2>1. PICK x : WriteRoot([root EXCEPT !.refs = x]) /\ UNCHANGED <<boot, bootDisk, booted>>
        BY <1>6, Zenon DEF CleanRefs
    <2> QED
        BY <2>1, <1>3, <1>4, WriteRootStands, Zenon
<1>7. CASE WriteRefs
    <2>1. PICK x : root' = [root EXCEPT !.refs = x]
        BY <1>7, Zenon DEF WriteRefs
    <2>2. rootDisk' = {root, root'} /\ boot' = boot /\ bootDisk' = bootDisk /\ booted' = booted
        BY <1>7, Zenon DEF WriteRefs
    <2>3. Quiet(root') /\ Quiet(root)
        BY <2>1, <1>3, <1>4, QuietMore, Zenon
    <2> QED
        BY <2>2, <2>3, <1>3, RootStep, Zenon
<1>8. CASE PruneRepo
    <2>1. PICK x : WriteRoot([root EXCEPT !.commits = x]) /\ UNCHANGED <<boot, bootDisk, booted>>
        BY <1>8, Zenon DEF PruneRepo
    <2> QED
        BY <2>1, <1>3, <1>4, WriteRootStands, Zenon
<1> QED
    BY <1>3, <1>5, <1>6, <1>7, <1>8, Zenon

(* A prune of the repository leaves the list alone.                        *)
LEMMA DirectStep ==
    ASSUME SysrootInvariant, DirectPrune
    PROVE  Stands
<1>1. DiskTypes /\ Boots /\ IsRoot(root)
    BY Zenon DEF SysrootInvariant, Booting, DiskTypes
<1>2. PICK x : WriteRoot([root EXCEPT !.commits = x]) /\ UNCHANGED <<boot, bootDisk, booted>>
    BY Zenon DEF DirectPrune
<1>3. ASSUME NEW r, r = [root EXCEPT !.commits = x] PROVE Quiet(r)
    <2>1. /\ IsRoot(r) /\ r.link = root.link /\ r.farm = root.farm /\ r.sealed = root.sealed
        BY <1>1, <1>3, RootOther, Zenon
    <2> QED
        BY <1>1, <2>1, QuietMore
<1> QED
    BY <1>2, <1>3, WriteRootStands, Zenon

(* The checkout makes a new, unfinished directory and no more.             *)
LEMMA CheckoutStep ==
    ASSUME Counting, SysrootInvariant, Checkout
    PROVE  /\ Stands /\ pc # "freeze_again"
           /\ new' \in Deployments /\ ~new'.staged /\ new'.kargs = None
           /\ new'.dir \notin root.deploys
           /\ root'.deploys = root.deploys \cup {new'.dir} /\ root'.sealed = root.sealed
<1>1. pc \notin Out /\ pc \notin Stale
    BY DEF Out, Stale, Checkout
<1>2. DiskTypes /\ Boots /\ IsRoot(root) /\ pc # "freeze_again"
    BY <1>1, AtWork, Zenon
<1>3. req.commit \in Commits /\ root.deploys \subseteq Dirs
    <2>1. req.kind \in {"deploy", "stage"}
        <3>1. Follows(req.kind, Call, script)
            BY <1>1, Zenon DEF SysrootInvariant, Process, Scripted
        <3>2. Call = "checkout"
            BY DEF Call, Checkout, Cleaning, Writing, Deciding, Dropping, Swapping, Stale,
               SubPhases, NewPhases
        <3> QED
            BY <3>1, <3>2 DEF Follows, Then
    <2> QED
        BY <1>1, <1>2, <2>1, Zenon DEF SysrootInvariant, Process, Requested, IsRoot
<1> DEFINE d == [commit |-> req.commit, serial |-> NewSerial(req.commit)]
<1>4. NewSerial(req.commit) \in Nat /\ d \notin root.deploys
    BY <1>3, Fresh
<1>5. NewSerial(req.commit) \in 0..MaxSerial /\ d \in Dirs
    BY <1>3, <1>4, SysrootConstants DEF Checkout, Dirs
<1>6. /\ new' = Object(d, None) /\ WriteRoot([root EXCEPT !.deploys = @ \cup {d}])
      /\ UNCHANGED <<boot, bootDisk, booted>>
    BY Zenon DEF Checkout
<1> HIDE DEF d
<1>7. new' \in Deployments /\ ~new'.staged /\ new'.kargs = None /\ new'.dir = d
    BY <1>5, <1>6 DEF Object, Deployments
<1>8. root' = [root EXCEPT !.deploys = @ \cup {d}]
    BY <1>6, Zenon DEF WriteRoot
<1>9. /\ IsRoot(root') /\ root'.link = root.link /\ root'.farm = root.farm
      /\ root'.deploys = root.deploys \cup {d} /\ root'.sealed = root.sealed
    <2>1. /\ DOMAIN root = {"link", "farm", "deploys", "sealed", "commits", "tip", "refs"}
          /\ root.link \in [Versions -> Versions \cup {None}]
          /\ DOMAIN root.farm = Versions /\ \A v \in Versions : DOMAIN root.farm[v] = Versions
          /\ root.sealed \subseteq root.deploys
        BY <1>2, Zenon DEF IsRoot
    <2>2. /\ DOMAIN root' = DOMAIN root /\ root'.link = root.link /\ root'.farm = root.farm
          /\ root'.deploys = root.deploys \cup {d} /\ root'.sealed = root.sealed
        BY <1>8, <2>1
    <2> QED
        BY <1>3, <1>5, <2>1, <2>2 DEF IsRoot
<1>10. Quiet(root')
    BY <1>2, <1>9, QuietMore
<1> QED
    BY <1>2, <1>4, <1>6, <1>7, <1>8, <1>9, <1>10, WriteRootStands, Zenon

(* Finishing a deployment adds it to the finished ones.                    *)
LEMMA SealStep ==
    ASSUME SysrootInvariant, Seal
    PROVE  /\ Stands /\ pc # "freeze_again"
           /\ root'.deploys = root.deploys /\ root'.sealed = root.sealed \cup {new.dir}
<1>1. pc \notin Out /\ pc \notin Stale
    BY DEF Out, Stale, Seal
<1>2. DiskTypes /\ Boots /\ IsRoot(root) /\ pc # "freeze_again"
    BY <1>1, AtWork, Zenon
<1>3. new.dir \in root.deploys
    <2>1. req.kind \in {"deploy", "finalize"}
        <3>1. Follows(req.kind, Call, script)
            BY <1>1, Zenon DEF SysrootInvariant, Process, Scripted
        <3>2. Call = "seal"
            BY DEF Call, Seal, Cleaning, Writing, Deciding, Dropping, Swapping, Stale,
               SubPhases, NewPhases
        <3> QED
            BY <3>1, <3>2 DEF Follows, Then
    <2>2. Made /\ pc = "seal"
        BY Zenon DEF SysrootInvariant, Process, Seal
    <2> QED
        BY <2>1, <2>2, Zenon DEF Made
<1> DEFINE d == new.dir
<1>4. WriteRoot([root EXCEPT !.sealed = @ \cup {d}]) /\ UNCHANGED <<boot, bootDisk, booted>>
    BY Zenon DEF Seal
<1> HIDE DEF d
<1>5. root' = [root EXCEPT !.sealed = @ \cup {d}]
    BY <1>4, Zenon DEF WriteRoot
<1>6. /\ IsRoot(root') /\ root'.link = root.link /\ root'.farm = root.farm
      /\ root'.deploys = root.deploys /\ root'.sealed = root.sealed \cup {d}
    <2>1. /\ DOMAIN root = {"link", "farm", "deploys", "sealed", "commits", "tip", "refs"}
          /\ root.link \in [Versions -> Versions \cup {None}]
          /\ DOMAIN root.farm = Versions /\ \A v \in Versions : DOMAIN root.farm[v] = Versions
          /\ root.deploys \subseteq Dirs /\ root.sealed \subseteq root.deploys
        BY <1>2, Zenon DEF IsRoot
    <2>2. /\ DOMAIN root' = DOMAIN root /\ root'.link = root.link /\ root'.farm = root.farm
          /\ root'.deploys = root.deploys /\ root'.sealed = root.sealed \cup {d}
        BY <1>5, <2>1
    <2>3. d \in root.deploys
        BY <1>3 DEF d
    <2> QED
        BY <2>1, <2>2, <2>3 DEF IsRoot
<1>7. Quiet(root')
    BY <1>2, <1>6, QuietMore
<1> QED
    BY <1>2, <1>4, <1>5, <1>6, <1>7, WriteRootStands, Zenon DEF d

(* Removing a directory that is not offered leaves the list alone.         *)
LEMMA RemoveStep ==
    ASSUME DiskTypes, Boots, pc # "freeze_again", NEW d, d \notin DirsOf(Offered(root, boot)),
           RemoveDir(d), UNCHANGED <<boot, bootDisk, booted>>
    PROVE  /\ Stands
           /\ root'.deploys = root.deploys \ {d} /\ root'.sealed = root.sealed \ {d}
<1>1. d # booted
    BY Zenon DEF Boots
<1>2. WriteRoot([root EXCEPT !.deploys = @ \ {d}, !.sealed = @ \ {d}])
    BY <1>1, Zenon DEF RemoveDir
<1>3. root' = [root EXCEPT !.deploys = @ \ {d}, !.sealed = @ \ {d}]
    BY <1>2, Zenon DEF WriteRoot
<1>4. Quiet(root') /\ root'.deploys = root.deploys \ {d} /\ root'.sealed = root.sealed \ {d}
    BY <1>3, QuietLess, Zenon
<1> QED
    BY <1>2, <1>3, <1>4, WriteRootStands, Zenon

(* The directory of a staged deployment is never one that is offered.      *)
LEMMA RemoveSteps ==
    ASSUME SysrootInvariant, (DeleteRestaged /\ StagedObject) \/ DropStagedDir
    PROVE  /\ Stands /\ pc # "freeze_again"
           /\ root'.deploys = root.deploys \ {self.deployments[1].dir}
           /\ root'.sealed = root.sealed
<1>1. pc \in {"restage", "drop_dir"}
    BY Zenon DEF DeleteRestaged, DropStagedDir
<1>2. pc \notin Out /\ pc \notin Stale
    BY <1>1 DEF Out, Stale
<1>3. DiskTypes /\ Boots /\ IsRoot(root) /\ pc # "freeze_again" /\ Good(root, boot)
    BY <1>2, AtWork, Zenon DEF Boots
<1>4. StagedObject
    BY <1>1, Zenon DEF SysrootInvariant, Swap, Planned, Dropping, DropStagedDir
<1>5. self.deployments[1].dir \notin root.sealed
    BY <1>2, <1>4, Zenon DEF SysrootInvariant, Process, StagedSound
<1>6. self.deployments[1].dir \notin DirsOf(Offered(root, boot))
    BY <1>3, <1>5, GoodDirs, Zenon
<1>7. RemoveDir(self.deployments[1].dir) /\ UNCHANGED <<boot, bootDisk, booted>>
    BY Zenon DEF DeleteRestaged, DropStagedDir
<1>8. /\ Stands /\ root'.deploys = root.deploys \ {self.deployments[1].dir}
      /\ root'.sealed = root.sealed \ {self.deployments[1].dir}
    BY <1>3, <1>6, <1>7, RemoveStep, Zenon
<1> QED
    BY <1>3, <1>5, <1>8

(* A cleanup removes directories of no loaded deployment only.             *)
LEMMA CleanDeploymentStep ==
    ASSUME SysrootInvariant, CleanDeployment
    PROVE  /\ Stands /\ pc # "freeze_again"
           /\ \E d \in Unused : /\ root'.deploys = root.deploys \ {d}
                                /\ root'.sealed = root.sealed \ {d}
<1>1. pc \notin Out /\ pc \notin Stale
    BY DEF Out, Stale, CleanDeployment
<1>2. /\ DiskTypes /\ Boots /\ pc # "freeze_again"
      /\ DirsOf(Offered(root, boot)) \subseteq DirsOf(self.deployments)
    BY <1>1, AtWork, Zenon
<1>3. PICK d \in Unused : RemoveDir(d)
    BY Zenon DEF CleanDeployment
<1>4. d \notin DirsOf(Offered(root, boot)) /\ UNCHANGED <<boot, bootDisk, booted>>
    BY <1>2, <1>3, Zenon DEF Unused, CleanDeployment
<1>5. Stands /\ root'.deploys = root.deploys \ {d} /\ root'.sealed = root.sealed \ {d}
    BY <1>2, <1>3, <1>4, RemoveStep, Zenon
<1> QED
    BY <1>2, <1>5, Zenon

(* Writing boot symlinks that are not in use leaves the list alone.        *)
LEMMA FarmStep ==
    ASSUME SysrootInvariant, pc \notin Out, pc \notin Stale,
           NEW v \in Versions, NEW s \in Versions, NEW f,
           v # boot.loader \/ s # Subversion(root, boot.loader),
           WriteRoot(SetFarm(root, v, s, f)), UNCHANGED <<boot, bootDisk, booted>>
    PROVE  /\ Stands /\ root'.link = root.link
           /\ root'.deploys = root.deploys /\ root'.sealed = root.sealed
           /\ root'.farm[v][s] = f
<1>1. /\ DiskTypes /\ Boots /\ pc # "freeze_again" /\ IsRoot(root)
      /\ boot.loader \in Versions /\ Subversion(root, boot.loader) \in Versions
    BY AtWork, Zenon
<1>2. root' = SetFarm(root, v, s, f) /\ WriteRoot(root')
    BY Zenon DEF WriteRoot
<1>3. /\ IsRoot(root') /\ root'.link = root.link
      /\ root'.deploys = root.deploys /\ root'.sealed = root.sealed
      /\ root'.farm[v][s] = f
      /\ \A w \in Versions, t \in Versions :
            w # v \/ t # s => root'.farm[w][t] = root.farm[w][t]
    BY <1>1, <1>2, RootFarm
<1>4. root'.farm[boot.loader][Subversion(root, boot.loader)] = Links(root, boot)
    BY <1>1, <1>3, Zenon DEF Links
<1>5. Quiet(root')
    BY <1>1, <1>3, <1>4, QuietFarm, Zenon
<1> QED
    BY <1>2, <1>3, <1>5, WriteRootStands, Zenon

(* create_new_bootlinks writes symlinks that are not in use.               *)
LEMMA Targets ==
    ASSUME SysrootInvariant, pc \notin Out, pc \notin Stale
    PROVE  /\ target \in Versions /\ NewSub \in Versions
           /\ target # boot.loader \/ NewSub # Subversion(root, boot.loader)
           /\ NewSub = 1 - Subversion(root, target)
           /\ target = IF pc \in {"sub_clear", "sub_links", "sub_swap"}
                       THEN boot.loader ELSE 1 - boot.loader
<1>1. /\ self.bootversion = boot.loader /\ IsRoot(root)
      /\ self.subbootversion = Subversion(root, boot.loader)
      /\ boot.loader \in Versions /\ Subversion(root, boot.loader) \in Versions
    BY AtWork, Zenon
<1>2. 1 - boot.loader \in Versions /\ 1 - boot.loader # boot.loader
    BY <1>1, OtherVersion, Zenon
<1>3. /\ target \in Versions
      /\ target = IF pc \in {"sub_clear", "sub_links", "sub_swap"}
                  THEN boot.loader ELSE 1 - boot.loader
    BY <1>1, <1>2, Zenon DEF target
<1>4. NewSub = 1 - Subversion(root, target)
    BY <1>1, Zenon DEF NewSub
<1>5. Subversion(root, target) \in Versions
    BY <1>1, <1>3, SubversionType, Zenon
<1>6. 1 - Subversion(root, target) \in Versions
      /\ 1 - Subversion(root, target) # Subversion(root, target)
    BY <1>5, OtherVersion, Zenon
<1> QED
    BY <1>3, <1>4, <1>6, Zenon

(* The steps of create_new_bootlinks, up to the symlinks of the new list.  *)
LEMMA LinkSteps ==
    ASSUME SysrootInvariant, ClearLinks \/ CreateLinks
    PROVE  /\ Stands /\ pc # "freeze_again" /\ root'.link = root.link
           /\ root'.deploys = root.deploys /\ root'.sealed = root.sealed
           /\ CreateLinks => root'.farm[target][1 - Subversion(root, target)] = Farm(plan)
<1>1. pc \in {"sub_clear", "new_clear", "sub_links", "new_links"}
    BY Zenon DEF ClearLinks, CreateLinks
<1>2. pc \notin Out /\ pc \notin Stale /\ pc # "freeze_again"
    BY <1>1 DEF Out, Stale
<1>3. /\ target \in Versions /\ NewSub \in Versions
      /\ target # boot.loader \/ NewSub # Subversion(root, boot.loader)
      /\ NewSub = 1 - Subversion(root, target)
    BY <1>2, Targets, Zenon
<1>4. CASE ClearLinks /\ ~CreateLinks
    <2>1. WriteRoot(SetFarm(root, target, NewSub, <<>>))
          /\ UNCHANGED <<boot, bootDisk, booted>>
        BY <1>4, Zenon DEF ClearLinks, SetFarm
    <2> QED
        BY <1>2, <1>3, <1>4, <2>1, FarmStep, Zenon
<1>5. CASE CreateLinks
    <2>1. WriteRoot(SetFarm(root, target, NewSub, Farm(plan)))
          /\ UNCHANGED <<boot, bootDisk, booted>>
        BY <1>5, Zenon DEF CreateLinks, SetFarm
    <2>2. /\ Stands /\ root'.link = root.link
          /\ root'.deploys = root.deploys /\ root'.sealed = root.sealed
          /\ root'.farm[target][NewSub] = Farm(plan)
        BY <1>2, <1>3, <2>1, FarmStep, Zenon
    <2> QED
        BY <1>2, <1>3, <2>2, Zenon
<1> QED
    BY <1>4, <1>5, Zenon

(* The swap of the boot.v symlink of a bootversion not in use shows to no  *)
(* one, and makes the new list that bootversion's.                         *)
LEMMA NewSwapStep ==
    ASSUME SysrootInvariant, SwapLinks, pc = "new_swap"
    PROVE  /\ Stands /\ pc # "freeze_again"
           /\ root'.deploys = root.deploys /\ root'.sealed = root.sealed
           /\ Table(root', 1 - boot.loader) = Farm(plan)
<1>1. pc \notin Out /\ pc \notin Stale /\ pc # "freeze_again"
    BY DEF Out, Stale
<1>2. DiskTypes /\ Boots /\ IsRoot(root) /\ boot.loader \in Versions
    BY <1>1, AtWork, Zenon
<1>3. /\ target \in Versions /\ NewSub \in Versions /\ NewSub = 1 - Subversion(root, target)
      /\ target = 1 - boot.loader
    BY <1>1, Targets
<1>4. target # boot.loader
    BY <1>2, <1>3, OtherVersion
<1>5. WriteRoot([root EXCEPT !.link[target] = NewSub]) /\ UNCHANGED <<boot, bootDisk, booted>>
    BY Zenon DEF SwapLinks
<1>6. root' = SetLink(root, target, NewSub) /\ WriteRoot(root')
    BY <1>5, Zenon DEF WriteRoot, SetLink
<1>7. /\ IsRoot(root') /\ root'.farm = root.farm
      /\ root'.deploys = root.deploys /\ root'.sealed = root.sealed
      /\ root'.link[target] = NewSub
      /\ \A w \in Versions : w # target => root'.link[w] = root.link[w]
    BY <1>2, <1>3, <1>6, RootLink, Zenon
<1>a. root'.link[boot.loader] = root.link[boot.loader]
    BY <1>2, <1>4, <1>7, Zenon
<1>8. root'.farm[boot.loader][Subversion(root, boot.loader)] = Links(root, boot)
    BY <1>7, Zenon DEF Links
<1>9. Quiet(root')
    BY <1>1, <1>2, <1>a, <1>7, <1>8, QuietFarm, Zenon
<1>10. Subversion(root', target) = NewSub
    <2>1. NewSub # None
        BY <1>3, SysrootConstants, Zenon
    <2> QED
        BY <1>7, <2>1, Zenon DEF Subversion
<1>11. root.farm[target][NewSub] = Farm(plan)
    BY <1>3, Zenon DEF SysrootInvariant, Swap, Linked
<1>12. Table(root', 1 - boot.loader) = Farm(plan)
    BY <1>3, <1>7, <1>10, <1>11, Zenon DEF Table
<1> QED
    BY <1>1, <1>5, <1>6, <1>7, <1>9, <1>12, WriteRootStands, Zenon

(* The removal of the other bootversion's symlinks shows to no one.        *)
LEMMA CleanLinksStep ==
    ASSUME SysrootInvariant, CleanLinks
    PROVE  /\ Stands /\ pc # "freeze_again"
           /\ root'.deploys = root.deploys /\ root'.sealed = root.sealed
           /\ root'.link[1 - boot.loader] = None
<1>1. pc \notin Out /\ pc \notin Stale /\ pc # "freeze_again"
    BY DEF Out, Stale, CleanLinks
<1>2. /\ DiskTypes /\ Boots /\ IsRoot(root)
      /\ self.bootversion = boot.loader
      /\ self.subbootversion = Subversion(root, boot.loader)
      /\ boot.loader \in Versions /\ Subversion(root, boot.loader) \in Versions
    BY <1>1, AtWork, Zenon
<1> DEFINE v == boot.loader
           s == Subversion(root, boot.loader)
<1>3. WriteRoot([root EXCEPT !.link[1 - v] = None, !.farm = OneFarm(v, s, @[v][s])])
      /\ UNCHANGED <<boot, bootDisk, booted>>
    BY <1>2, Zenon DEF CleanLinks
<1>4. v \in Versions /\ s \in Versions
    BY <1>2
<1> HIDE DEF v, s
<1>5. root' = OtherCleared(root, v, s) /\ WriteRoot(root')
    BY <1>3, Zenon DEF WriteRoot, OtherCleared
<1>6. /\ IsRoot(root') /\ root'.deploys = root.deploys /\ root'.sealed = root.sealed
      /\ root'.link[v] = root.link[v] /\ root'.link[1 - v] = None
      /\ root'.farm[v][s] = root.farm[v][s]
    BY <1>2, <1>4, <1>5, RootClean, Zenon
<1>7. root'.farm[boot.loader][Subversion(root, boot.loader)] = Links(root, boot)
    BY <1>6, Zenon DEF Links, v, s
<1>8. Quiet(root')
    BY <1>1, <1>2, <1>6, <1>7, QuietFarm, Zenon DEF v
<1> QED
    BY <1>1, <1>3, <1>5, <1>6, <1>8, WriteRootStands, Zenon DEF v

(***************************************************************************)
(* The steps on /boot.                                                     *)
(***************************************************************************)

(* Nor do the failure stamp and the temporary loader symlink.              *)
LEMMA OtherFieldStep ==
    ASSUME DiskTypes, Boots, UNCHANGED <<root, rootDisk, booted>>, NEW x,
           WriteBoot([boot EXCEPT !.failed = x]) \/ WriteBoot([boot EXCEPT !.tmp = x])
    PROVE  /\ Stands /\ boot'.kernels = boot.kernels /\ boot'.entries = boot.entries
           /\ boot'.loader = boot.loader
           /\ WriteBoot([boot EXCEPT !.tmp = x]) => boot'.tmp = x
<1>1. IsBoot(boot) /\ Good(root, boot)
    BY Zenon DEF DiskTypes, Boots
<1>2. DOMAIN boot = {"loader", "tmp", "failed", "kernels", "entries"}
    BY <1>1, Zenon DEF IsBoot
<1>3. /\ bootDisk' = bootDisk \cup {boot'}
      /\ boot' = [boot EXCEPT !.failed = x] \/ boot' = [boot EXCEPT !.tmp = x]
      /\ WriteBoot([boot EXCEPT !.tmp = x]) => boot' = [boot EXCEPT !.tmp = x]
    BY Zenon DEF WriteBoot
<1>4. /\ DOMAIN boot' = DOMAIN boot /\ boot'.loader = boot.loader
      /\ boot'.entries = boot.entries /\ boot'.kernels = boot.kernels
      /\ boot' = [boot EXCEPT !.tmp = x] => boot'.tmp = x
    BY <1>2, <1>3
<1>5. IsBoot(boot') /\ InUse(boot') = InUse(boot)
    BY <1>1, <1>4, Zenon DEF IsBoot, InUse
<1>6. \A i \in DOMAIN InUse(boot) : InUse(boot)[i].key[1] \in boot'.kernels
    BY <1>1, <1>4, Zenon DEF Good
<1> QED
    BY <1>3, <1>4, <1>5, <1>6, BootStep, Zenon

(* Nor does the removal of kernels that no entry in use has.               *)
LEMMA KernelStep ==
    ASSUME DiskTypes, Boots, UNCHANGED <<root, rootDisk, booted>>, NEW x,
           WriteBoot([boot EXCEPT !.kernels = x]),
           \A i \in DOMAIN InUse(boot) : InUse(boot)[i].key[1] \in x
    PROVE  /\ Stands /\ boot'.kernels = x /\ boot'.entries = boot.entries
           /\ boot'.loader = boot.loader /\ boot'.tmp = boot.tmp
<1>1. IsBoot(boot) /\ Good(root, boot)
    BY Zenon DEF DiskTypes, Boots
<1>2. DOMAIN boot = {"loader", "tmp", "failed", "kernels", "entries"}
    BY <1>1, Zenon DEF IsBoot
<1>3. bootDisk' = bootDisk \cup {boot'} /\ boot' = [boot EXCEPT !.kernels = x]
    BY Zenon DEF WriteBoot
<1>4. /\ DOMAIN boot' = DOMAIN boot /\ boot'.loader = boot.loader
      /\ boot'.entries = boot.entries /\ boot'.kernels = x /\ boot'.tmp = boot.tmp
    BY <1>2, <1>3
<1>5. IsBoot(boot') /\ InUse(boot') = InUse(boot)
    BY <1>1, <1>4, Zenon DEF IsBoot, InUse
<1> QED
    BY <1>3, <1>4, <1>5, BootStep, Zenon

(* Nor do the entries of the loader directory not in use, written together *)
(* with their kernels.                                                     *)
LEMMA EntriesStep ==
    ASSUME DiskTypes, Boots, UNCHANGED <<root, rootDisk, booted>>,
           NEW v \in Versions, v # boot.loader, NEW es \in Seq(BootConfigs), NEW x,
           boot.kernels \subseteq x,
           \/ WriteBoot([boot EXCEPT !.kernels = x, !.entries[v] = es])
           \/ x = boot.kernels /\ WriteBoot([boot EXCEPT !.entries[v] = es])
    PROVE  /\ Stands /\ boot'.kernels = x /\ boot'.entries[v] = es
           /\ boot'.loader = boot.loader /\ boot'.tmp = boot.tmp
<1>1. IsBoot(boot) /\ Good(root, boot)
    BY Zenon DEF DiskTypes, Boots
<1>2. /\ DOMAIN boot = {"loader", "tmp", "failed", "kernels", "entries"}
      /\ boot.loader \in Versions /\ boot.entries \in [Versions -> Seq(BootConfigs)]
    BY <1>1, Zenon DEF IsBoot
<1>3. /\ bootDisk' = bootDisk \cup {boot'}
      /\ \/ boot' = [boot EXCEPT !.kernels = x, !.entries[v] = es]
         \/ x = boot.kernels /\ boot' = [boot EXCEPT !.entries[v] = es]
    BY Zenon DEF WriteBoot
<1>4. /\ DOMAIN boot' = DOMAIN boot /\ boot'.loader = boot.loader
      /\ boot'.entries = [boot.entries EXCEPT ![v] = es]
      /\ boot'.kernels = x /\ boot'.tmp = boot.tmp
    BY <1>2, <1>3
<1>5. /\ boot'.entries \in [Versions -> Seq(BootConfigs)] /\ boot'.entries[v] = es
      /\ boot'.entries[boot.loader] = boot.entries[boot.loader]
    BY <1>2, <1>4
<1>6. IsBoot(boot') /\ InUse(boot') = InUse(boot)
    BY <1>2, <1>4, <1>5, Zenon DEF IsBoot, InUse
<1>7. \A i \in DOMAIN InUse(boot) : InUse(boot)[i].key[1] \in boot'.kernels
    BY <1>1, <1>4, Zenon DEF Good
<1> QED
    BY <1>3, <1>4, <1>5, <1>6, <1>7, BootStep, Zenon

(* _ostree_sysroot_cleanup_bootfs keeps the kernels of the entries in use. *)
LEMMA KernelSteps ==
    ASSUME SysrootInvariant, \/ EarlyPrune \/ EarlyPruneAborts \/ CleanBootfs
    PROVE  Stands /\ pc # "freeze_again" /\ boot'.kernels = ActiveKernels
<1>1. pc \in {"early", "clean_deploys"}
    BY Zenon DEF EarlyPrune, EarlyPruneAborts, CleanBootfs
<1>2. pc \notin Out /\ pc \notin Stale /\ pc # "freeze_again"
    BY <1>1 DEF Out, Stale
<1>3. /\ DiskTypes /\ Boots
      /\ \A i \in DOMAIN InUse(boot) : InUse(boot)[i].key[1] \in ActiveKernels
    BY <1>2, AtWork, Zenon
<1>4. WriteBoot([boot EXCEPT !.kernels = ActiveKernels]) /\ UNCHANGED <<root, rootDisk, booted>>
    BY Zenon DEF EarlyPrune, EarlyPruneAborts, CleanBootfs
<1> QED
    BY <1>2, <1>3, <1>4, KernelStep, Zenon

(* The steps on the failure stamp and on the temporary loader symlink.     *)
LEMMA StampSteps ==
    ASSUME SysrootInvariant,
           \/ PrepareLoader \/ ClearStamp \/ BootComplete
           \/ /\ UnlinkStaged \/ Refuse \/ InstallKernel
              /\ Fail /\ req.kind = "finalize"
    PROVE  /\ Stands /\ pc # "freeze_again"
           /\ boot'.kernels = boot.kernels /\ boot'.entries = boot.entries
           /\ PrepareLoader => boot'.tmp = 1 - boot.loader
<1>1. pc \in {"prepare", "stamp", "idle", "unlink", "decide", "decide_dropped", "install"}
    BY Zenon DEF PrepareLoader, ClearStamp, BootComplete, UnlinkStaged, Refuse, InstallKernel
<1>2. pc # "freeze_again" /\ (pc = "prepare" => pc \notin Out /\ pc \notin Stale)
    BY <1>1 DEF Out, Stale
<1>3. DiskTypes /\ Boots
    BY Zenon DEF SysrootInvariant, Booting
<1>4. CASE PrepareLoader
    <2>1. WriteBoot([boot EXCEPT !.tmp = target]) /\ UNCHANGED <<root, rootDisk, booted>>
          /\ pc = "prepare"
        BY <1>4, Zenon DEF PrepareLoader
    <2>2. target = 1 - boot.loader
        BY <2>1, <1>2, Targets
    <2> QED
        BY <1>2, <1>3, <2>1, <2>2, OtherFieldStep, Zenon
<1>5. CASE ~PrepareLoader
    <2>1. UNCHANGED <<root, rootDisk, booted>>
        BY <1>5, Zenon DEF ClearStamp, BootComplete, UnlinkStaged, Refuse, InstallKernel
    <2>2. (\E x : WriteBoot([boot EXCEPT !.failed = x])) \/ UNCHANGED <<boot, bootDisk>>
        BY <1>5, Zenon DEF ClearStamp, BootComplete, Fail
    <2>3. CASE \E x : WriteBoot([boot EXCEPT !.failed = x])
        BY <1>2, <1>3, <1>5, <2>1, <2>3, OtherFieldStep, Zenon
    <2>4. CASE UNCHANGED <<boot, bootDisk>>
        <3>1. UNCHANGED <<disks, booted>>
            BY <2>1, <2>4 DEF disks
        <3> QED
            BY <1>2, <1>5, <2>4, <3>1, MemoryStep, Zenon
    <2> QED
        BY <2>2, <2>3, <2>4, Zenon
<1> QED
    BY <1>4, <1>5, Zenon

(* The steps that empty the loader directory not in use.                   *)
LEMMA ClearSteps ==
    ASSUME SysrootInvariant, ClearEntries \/ CleanLoader
    PROVE  /\ Stands /\ pc # "freeze_again" /\ boot'.kernels = boot.kernels
           /\ boot'.entries[1 - boot.loader] = <<>>
<1>1. pc \in {"entries", "clean"}
    BY Zenon DEF ClearEntries, CleanLoader
<1>2. pc \notin Out /\ pc \notin Stale /\ pc # "freeze_again"
    BY <1>1 DEF Out, Stale
<1>3. DiskTypes /\ Boots /\ boot.loader \in Versions /\ self.bootversion = boot.loader
    BY <1>2, AtWork, Zenon
<1>4. target = 1 - boot.loader
    BY <1>1, <1>2, Targets
<1> DEFINE v == 1 - boot.loader
<1>5. v \in Versions /\ v # boot.loader
    BY <1>3, OtherVersion, Zenon
<1>6. WriteBoot([boot EXCEPT !.entries[v] = <<>>]) /\ UNCHANGED <<root, rootDisk, booted>>
    BY <1>3, <1>4, Zenon DEF ClearEntries, CleanLoader
<1> HIDE DEF v
<1>7. <<>> \in Seq(BootConfigs) /\ boot.kernels \subseteq boot.kernels
    OBVIOUS
<1>8. Stands /\ boot'.kernels = boot.kernels /\ boot'.entries[v] = <<>>
    BY <1>3, <1>5, <1>6, <1>7, EntriesStep, Zenon
<1> QED
    BY <1>2, <1>8, Zenon DEF v

(* install_deployment_kernel adds one entry, in the loader directory not   *)
(* in use, and its kernel.                                                 *)
LEMMA InstallStep ==
    ASSUME Counting, SysrootInvariant, InstallKernel, ~Fail,
           NEW i, i = Len(boot.entries[1 - boot.loader]) + 1
    PROVE  /\ Stands /\ pc # "freeze_again"
           /\ boot.kernels \subseteq boot'.kernels
           /\ Kernel(plan[i].dir) \in boot'.kernels
           /\ boot'.entries[1 - boot.loader] = Append(boot.entries[1 - boot.loader], Entry(plan, i))
           /\ pc' = IF i = Len(plan) THEN "new_clear" ELSE "install"
           /\ i \in 1..Len(plan) /\ boot.entries[1 - boot.loader] \in Seq(BootConfigs)
           /\ i - 1 = Len(boot.entries[1 - boot.loader])
           /\ UNCHANGED <<workload, root, rootDisk, runstate, booted, memory>>
<1>1. pc = "install"
    BY Zenon DEF InstallKernel
<1>2. pc \notin Out /\ pc \notin Stale /\ pc # "freeze_again"
    BY <1>1 DEF Out, Stale
<1>3. DiskTypes /\ Boots /\ boot.loader \in Versions /\ IsBoot(boot)
    BY <1>2, AtWork, Zenon
<1>4. target = 1 - boot.loader
    BY <1>1, <1>2, Targets
<1> DEFINE v == 1 - boot.loader
           es == boot.entries[v]
           new_es == Append(es, Entry(plan, i))
           x == boot.kernels \cup {Kernel(plan[i].dir)}
<1>5. v \in Versions /\ v # boot.loader
    BY <1>3, OtherVersion, Zenon
<1>6. /\ WriteBoot([boot EXCEPT !.kernels = x, !.entries[v] = new_es])
      /\ pc' = IF i = Len(plan) THEN "new_clear" ELSE "install"
      /\ UNCHANGED <<workload, root, rootDisk, runstate, booted, memory>>
    BY <1>4, Zenon DEF InstallKernel
<1>7. plan \in Seq(Deployments)
    <2>1. pc \in Writing
        BY <1>1 DEF Writing, Swapping
    <2> QED
        BY <2>1, Zenon DEF SysrootInvariant, Process, ListTypes
<1>8. Len(es) < Len(plan)
    BY <1>1, Zenon DEF SysrootInvariant, Swap, Swapped
<1>9. es \in Seq(BootConfigs)
    BY <1>3, <1>5, Zenon DEF IsBoot
<1>10. i \in 1..Len(plan) /\ i \in Nat /\ i - 1 = Len(es)
    BY <1>7, <1>8, <1>9
<1>11. plan[i] \in Deployments
    BY <1>7, <1>10
<1>12. plan[i].dir \in Dirs /\ plan[i].kargs \in Kargs \cup {None}
    BY <1>11 DEF Deployments
<1>13. Entry(plan, i) \in BootConfigs
    BY <1>10, <1>12, KeyType DEF Entry, BootConfigs
<1>14. new_es \in Seq(BootConfigs) /\ boot.kernels \subseteq x /\ Kernel(plan[i].dir) \in x
    BY <1>9, <1>13
<1> HIDE DEF v, x, new_es
<1>15. UNCHANGED <<root, rootDisk, booted>>
    BY <1>6
<1>16. Stands /\ boot'.kernels = x /\ boot'.entries[v] = new_es
    BY <1>3, <1>5, <1>6, <1>14, <1>15, EntriesStep, Zenon
<1> QED
    BY <1>2, <1>6, <1>9, <1>10, <1>14, <1>16, Zenon DEF v, new_es

(***************************************************************************)
(* Switching the list.                                                     *)
(***************************************************************************)

(* The step Switch of BootListAbs.                                         *)
Switched ==
    /\ Fallback = {Offered(root, boot)}
    /\ Fallback' = {Offered(root, boot), Offered(root', boot')}

(* The step PowerLoss of BootListAbs.                                      *)
Fell ==
    /\ Offered(root', boot') \in Fallback
    /\ Fallback' = {Offered(root', boot')}

(* When all states of /ostree have the symlinks in use, a power loss       *)
(* leaves the list that is offered now.                                    *)
LEMMA OneList ==
    ASSUME DiskTypes, Boots, pc # "freeze_again",
           \A r \in rootDisk : Links(r, boot) = Links(root, boot)
    PROVE  Fallback = {Offered(root, boot)}
<1>1. root \in rootDisk /\ boot \in bootDisk
    BY Zenon DEF DiskTypes
<1>2. \A r \in rootDisk : Offered(r, boot) = Offered(root, boot)
    BY Zenon DEF Offered
<1>3. \A r \in rootDisk, b \in bootDisk : Offered(r, b) = Offered(root, boot)
    <2> TAKE r \in rootDisk, b \in bootDisk
    <2>1. Offered(r, b) = Offered(r, boot)
        BY OneView, Zenon
    <2> QED
        BY <1>2, <2>1, Zenon
<1> QED
    BY <1>1, <1>3 DEF Fallback

(* The swap of the boot.v symlink in use switches the list, from one that  *)
(* is on disk to the new one.                                              *)
LEMMA SubSwapStep ==
    ASSUME Counting, SysrootInvariant, SwapLinks, pc = "sub_swap"
    PROVE  /\ DiskTypes' /\ Boots' /\ Switched
           /\ root'.deploys = root.deploys /\ root'.sealed = root.sealed
           /\ boot' = boot /\ booted' = booted
<1>1. pc \notin Out /\ pc \notin Stale /\ pc # "freeze_again"
    BY DEF Out, Stale
<1>2. /\ DiskTypes /\ Boots /\ IsRoot(root) /\ IsBoot(boot) /\ boot.loader \in Versions
      /\ root \in rootDisk /\ boot \in bootDisk
      /\ Len(InUse(boot)) \in Nat /\ DOMAIN InUse(boot) = 1..Len(InUse(boot))
    BY <1>1, AtWork, Zenon
<1>3. /\ target \in Versions /\ NewSub \in Versions /\ NewSub = 1 - Subversion(root, target)
      /\ target = boot.loader
    BY <1>1, Targets
<1>4. WriteRoot([root EXCEPT !.link[target] = NewSub]) /\ UNCHANGED <<boot, bootDisk, booted>>
    BY Zenon DEF SwapLinks
<1>5. root' = SetLink(root, target, NewSub) /\ rootDisk' = rootDisk \cup {root'}
    BY <1>4, Zenon DEF WriteRoot, SetLink
<1>6. /\ IsRoot(root') /\ root'.farm = root.farm
      /\ root'.deploys = root.deploys /\ root'.sealed = root.sealed
      /\ root'.link[target] = NewSub
    BY <1>2, <1>3, <1>5, RootLink, Zenon
<1>7. plan \in Seq(Deployments)
    <2>1. pc \in Writing
        BY DEF Writing, Swapping, SubPhases
    <2> QED
        BY <2>1, Zenon DEF SysrootInvariant, Process, ListTypes
<1>8. /\ booted \in DirsOf(plan) /\ DirsOf(plan) \subseteq root.sealed
      /\ Len(plan) = Len(InUse(boot))
      /\ \A i \in DOMAIN plan : Key(plan, i) = InUse(boot)[i].key
    <2>1. pc \in Swapping /\ pc \in SubPhases
        BY DEF Swapping, SubPhases
    <2> QED
        BY <2>1, Zenon DEF SysrootInvariant, Swap, Swapped
<1>9. plan # <<>> /\ DOMAIN plan = DOMAIN InUse(boot)
    BY <1>2, <1>7, <1>8 DEF DirsOf
<1>10. Links(root', boot) = Farm(plan)
    <2>1. NewSub # None
        BY <1>3, SysrootConstants, Zenon
    <2>2. Subversion(root', boot.loader) = NewSub
        BY <1>3, <1>6, <2>1, Zenon DEF Subversion
    <2>3. root.farm[boot.loader][1 - Subversion(root, boot.loader)] = Farm(plan)
        BY Zenon DEF SysrootInvariant, Swap, Linked
    <2> QED
        BY <2>2, <2>3, <1>3, <1>6, Zenon DEF Links
<1>11. ASSUME NEW b \in bootDisk
       PROVE  Good(root', b) /\ DirsOf(Offered(root', b)) = DirsOf(plan)
    <2>1. InUse(b) = InUse(boot) /\ Links(root', b) = Farm(plan) /\ Good(root, b)
        BY <1>1, <1>2, <1>10, OneView, Zenon DEF Boots
    <2>2. \A i \in DOMAIN plan : InUse(b)[i].key = Key(plan, i) /\ InUse(b)[i].key[1] \in b.kernels
        BY <2>1, <1>8, <1>9, Zenon DEF Good
    <2>3. DirsOf(plan) \subseteq root'.sealed /\ DOMAIN InUse(b) = DOMAIN plan
        BY <1>6, <1>8, <1>9, <2>1, Zenon
    <2> QED
        BY <1>7, <1>9, <2>1, <2>2, <2>3, GoodNew, Zenon
<1>12. DiskTypes'
    BY <1>2, <1>4, <1>5, <1>6, Zenon DEF DiskTypes
<1>13. \A r \in rootDisk', b \in bootDisk' : Good(r, b)
    BY <1>2, <1>4, <1>5, <1>11, Zenon DEF Boots
<1>14. booted' \in DirsOf(Offered(root', boot'))
    BY <1>2, <1>4, <1>8, <1>11, Zenon
<1>15. Boots'
    BY <1>1, <1>2, <1>4, <1>13, <1>14, Zenon DEF Boots
<1>16. Fallback = {Offered(root, boot)}
    <2>1. \A r \in rootDisk : Links(r, boot) = Links(root, boot)
        BY Zenon DEF SysrootInvariant, Swap, Linked
    <2> QED
        BY <1>1, <1>2, <2>1, OneList, Zenon
<1>17. \A b \in bootDisk : Offered(root', b) = Offered(root', boot)
    BY <1>1, <1>2, OneView, Zenon
<1>18. \A r \in rootDisk, b \in bootDisk : Offered(r, b) = Offered(root, boot)
    BY <1>16 DEF Fallback
<1>19. Fallback' = {Offered(root, boot), Offered(root', boot')}
    BY <1>2, <1>4, <1>5, <1>17, <1>18 DEF Fallback
<1> QED
    BY <1>4, <1>6, <1>12, <1>15, <1>16, <1>19, Zenon DEF Switched

(* The rename of /boot/loader switches the list, from one that is on disk  *)
(* to the new one, which is wholly there.                                  *)
LEMMA SwapLoaderStep ==
    ASSUME Counting, SysrootInvariant, SwapLoader
    PROVE  /\ DiskTypes' /\ Boots' /\ Switched
           /\ UNCHANGED <<root, rootDisk, booted>>
           /\ \A r \in rootDisk : Links(r, boot') = Links(root, boot')
<1>1. pc = "swap" /\ pc \notin Out /\ pc \notin Stale /\ pc # "freeze_again"
    BY DEF Out, Stale, SwapLoader
<1>2. /\ DiskTypes /\ Boots /\ IsRoot(root) /\ IsBoot(boot) /\ boot.loader \in Versions
      /\ root \in rootDisk /\ boot \in bootDisk
    BY <1>1, AtWork, Zenon
<1> DEFINE v == 1 - boot.loader
<1>3. v \in Versions
    BY <1>2, OtherVersion, Zenon
<1>4. pc \in Swapping /\ pc \in NewPhases /\ pc \in Writing
    BY <1>1 DEF Swapping, NewPhases, Writing
<1>5. plan \in Seq(Deployments)
    BY <1>4, Zenon DEF SysrootInvariant, Process, ListTypes
<1>6. /\ booted \in DirsOf(plan) /\ boot.tmp = v
      /\ Len(boot.entries[v]) = Len(plan)
      /\ \A i \in DOMAIN boot.entries[v] :
            boot.entries[v][i] = Entry(plan, i) /\ Key(plan, i)[1] \in boot.kernels
    BY <1>1, <1>4, Zenon DEF SysrootInvariant, Swap, Swapped
<1>7. \A r \in rootDisk : Table(r, v) = Farm(plan) /\ DirsOf(plan) \subseteq r.sealed
    BY <1>1, Zenon DEF SysrootInvariant, Swap, Linked
<1>8. /\ boot' = [boot EXCEPT !.loader = v, !.tmp = None] /\ bootDisk' = bootDisk \cup {boot'}
      /\ UNCHANGED <<root, rootDisk, booted>> /\ pc' = "freeze_again"
    BY <1>6, Zenon DEF SwapLoader, WriteBoot
<1> HIDE DEF v
<1>9. /\ DOMAIN boot = {"loader", "tmp", "failed", "kernels", "entries"}
      /\ boot.entries \in [Versions -> Seq(BootConfigs)]
    BY <1>2, Zenon DEF IsBoot
<1>10. /\ DOMAIN boot' = DOMAIN boot /\ boot'.loader = v
       /\ boot'.entries = boot.entries /\ boot'.kernels = boot.kernels
    BY <1>8, <1>9
<1>11. IsBoot(boot') /\ InUse(boot') = boot.entries[v]
    BY <1>3, <1>9, <1>10, Zenon DEF IsBoot, InUse
<1>12. boot.entries[v] \in Seq(BootConfigs)
    BY <1>3, <1>9
<1>13. DOMAIN InUse(boot') = DOMAIN plan /\ plan # <<>>
    BY <1>5, <1>6, <1>11, <1>12 DEF DirsOf
<1>14. \A i \in DOMAIN plan :
          InUse(boot')[i].key = Key(plan, i) /\ InUse(boot')[i].key[1] \in boot'.kernels
    <2> TAKE i \in DOMAIN plan
    <2>1. InUse(boot')[i] = Entry(plan, i) /\ Key(plan, i)[1] \in boot'.kernels
        BY <1>6, <1>10, <1>11, <1>13, Zenon
    <2>2. Entry(plan, i).key = Key(plan, i)
        BY DEF Entry
    <2> QED
        BY <2>1, <2>2, Zenon
<1>15. \A r \in rootDisk : Links(r, boot') = Farm(plan)
    BY <1>7, <1>10, Zenon DEF Links, Table
<1>16. ASSUME NEW r \in rootDisk
       PROVE  Good(r, boot') /\ DirsOf(Offered(r, boot')) = DirsOf(plan)
    <2>1. Links(r, boot') = Farm(plan) /\ DirsOf(plan) \subseteq r.sealed
        BY <1>7, <1>15, Zenon
    <2> QED
        BY <1>5, <1>13, <1>14, <2>1, GoodNew, Zenon
<1>17. DiskTypes'
    BY <1>2, <1>8, <1>11, Zenon DEF DiskTypes
<1>18. \A r \in rootDisk', b \in bootDisk' : Good(r, b)
    BY <1>2, <1>8, <1>16, Zenon DEF Boots
<1>19. booted' \in DirsOf(Offered(root', boot'))
    BY <1>2, <1>6, <1>8, <1>16, Zenon
<1>20. Boots'
    BY <1>8, <1>18, <1>19, Zenon DEF Boots
<1>21. Fallback = {Offered(root, boot)}
    <2>1. \A r \in rootDisk : Links(r, boot) = Links(root, boot)
        BY <1>1, Zenon DEF SysrootInvariant, Swap, Linked
    <2> QED
        BY <1>1, <1>2, <2>1, OneList, Zenon
<1>22. \A r \in rootDisk : Links(r, boot') = Links(root, boot')
    BY <1>2, <1>15, Zenon
<1>23. \A r \in rootDisk : Offered(r, boot') = Offered(root, boot')
    BY <1>22, Zenon DEF Offered
<1>24. \A r \in rootDisk, b \in bootDisk : Offered(r, b) = Offered(root, boot)
    BY <1>21 DEF Fallback
<1>25. Fallback' = {Offered(root, boot), Offered(root', boot')}
    BY <1>2, <1>8, <1>23, <1>24 DEF Fallback
<1> QED
    BY <1>8, <1>17, <1>20, <1>21, <1>22, <1>25, Zenon DEF Switched

(* The sync after the rename leaves the new list as the only one.          *)
LEMMA SyncLoaderStep ==
    ASSUME SysrootInvariant, SyncLoader
    PROVE  /\ DiskTypes' /\ Boots' /\ Fallback' = {Offered(root, boot)}
           /\ UNCHANGED <<root, rootDisk, boot, booted>>
<1>1. DiskTypes /\ Boots
    BY Zenon DEF SysrootInvariant, Booting
<1>2. /\ bootDisk' = {boot} /\ UNCHANGED <<root, rootDisk, boot, booted>>
      /\ pc = "freeze_again"
    BY Zenon DEF SyncLoader
<1>3. DiskTypes'
    BY <1>1, <1>2, Zenon DEF DiskTypes
<1>4. boot \in bootDisk /\ root \in rootDisk
    BY <1>1, Zenon DEF DiskTypes
<1>5. Boots'
    BY <1>1, <1>2, <1>4, Zenon DEF Boots
<1>6. \A r \in rootDisk : Links(r, boot) = Links(root, boot)
    BY <1>2, Zenon DEF SysrootInvariant, Swap, Linked
<1>7. \A r \in rootDisk : Offered(r, boot) = Offered(root, boot)
    BY <1>6, Zenon DEF Offered
<1>8. Fallback' = {Offered(root, boot)}
    BY <1>2, <1>4, <1>7 DEF Fallback
<1> QED
    BY <1>2, <1>3, <1>5, <1>8, Zenon

(* full_system_sync leaves the list alone.                                 *)
LEMMA FullSyncStep ==
    ASSUME SysrootInvariant, FullSyncRoot \/ FullSyncBoot
    PROVE  /\ Stands /\ pc # "freeze_again" /\ UNCHANGED <<root, boot>>
           /\ FullSyncRoot => rootDisk' = {root}
           /\ FullSyncBoot => rootDisk' = rootDisk
<1> SUFFICES ASSUME DiskTypes, Boots, Settled
             PROVE  /\ DiskTypes' /\ Boots' /\ SameView /\ Flushed
                    /\ pc # "freeze_again" /\ UNCHANGED <<root, boot>>
                    /\ FullSyncRoot => rootDisk' = {root}
                    /\ FullSyncBoot => rootDisk' = rootDisk
    <2>1. pc \in {"sync_sub", "sync_new", "freeze_sub", "freeze_new"} /\ UNCHANGED <<root, boot>>
          /\ (FullSyncRoot => rootDisk' = {root}) /\ (FullSyncBoot => rootDisk' = rootDisk)
        BY Zenon DEF FullSyncRoot, FullSyncBoot
    <2> QED
        BY <2>1 DEF Stands
<1>1. root \in rootDisk /\ boot \in bootDisk
    BY Zenon DEF DiskTypes
<1>2. /\ pc \in {"sync_sub", "sync_new", "freeze_sub", "freeze_new"}
      /\ UNCHANGED <<root, boot, booted>>
      /\ \/ rootDisk' = {root} /\ bootDisk' = bootDisk
         \/ rootDisk' = rootDisk /\ bootDisk' = {boot}
      /\ FullSyncRoot => rootDisk' = {root}
      /\ FullSyncBoot => rootDisk' = rootDisk
    BY Zenon DEF FullSyncRoot, FullSyncBoot
<1>3. pc # "freeze_again"
    BY <1>2
<1>4. DiskTypes'
    BY <1>1, <1>2, Zenon DEF DiskTypes
<1>5. rootDisk' \subseteq rootDisk /\ bootDisk' \subseteq bootDisk
    BY <1>1, <1>2, Zenon
<1>6. Boots'
    BY <1>2, <1>3, <1>5, Zenon DEF Boots
<1>7. SameView
    BY <1>2, Zenon DEF SameView
<1>8. \A r \in rootDisk, b \in bootDisk : Offered(r, b) = Offered(r, boot)
    BY <1>3, OneView, Zenon
<1>9. Flushed
    <2>1. CASE rootDisk' = {root} /\ bootDisk' = bootDisk
        <3>1. Fallback' = {Offered(root, boot)}
            BY <2>1, <1>1, <1>8 DEF Fallback
        <3> QED
            BY <3>1 DEF Flushed
    <2>2. CASE rootDisk' = rootDisk /\ bootDisk' = {boot}
        <3>1. Fallback' = Fallback
            BY <2>2, <1>1, <1>8 DEF Fallback
        <3> QED
            BY <3>1 DEF Flushed
    <2> QED
        BY <1>2, <2>1, <2>2, Zenon
<1> QED
    BY <1>2, <1>3, <1>4, <1>6, <1>7, <1>9, Zenon

(* A boot, after a shutdown or a power loss, finds one of the lists that a *)
(* power loss may leave, and runs a deployment of it.                      *)
LEMMA BootStepFrom ==
    ASSUME SysrootInvariant, Reboot \/ PowerLoss
    PROVE  DiskTypes' /\ Boots' /\ Fell /\ Exited /\ staged' = None
<1>1. DiskTypes /\ Boots
    BY Zenon DEF SysrootInvariant, Booting
<1>2. PICK r \in rootDisk, b \in bootDisk : BootFrom(r, b)
    BY <1>1, Zenon DEF Reboot, PowerLoss, DiskTypes
<1>3. /\ root' = r /\ rootDisk' = {r} /\ boot' = b /\ bootDisk' = {b}
      /\ Exited /\ staged' = None
    BY <1>2, Zenon DEF BootFrom
<1>4. booted' \in DirsOf(Offered(r, b))
    BY <1>2, Zenon DEF BootFrom, DirsOf
<1>5. DiskTypes'
    BY <1>1, <1>3, Zenon DEF DiskTypes
<1>6. Good(r, b)
    BY <1>1, Zenon DEF Boots
<1>7. Boots'
    BY <1>3, <1>4, <1>6, Zenon DEF Boots
<1>8. Offered(r, b) \in Fallback
    BY DEF Fallback
<1>9. Fallback' = {Offered(r, b)}
    BY <1>3 DEF Fallback
<1> QED
    BY <1>3, <1>5, <1>7, <1>8, <1>9, Zenon DEF Fell

(***************************************************************************)
(* The process and its script.                                             *)
(***************************************************************************)

(* The staged deployment, when there is one, is the first of the loaded    *)
(* list, and unfinished.                                                   *)
Straight ==
    /\ staged # None <=> StagedObject
    /\ StagedObject => self.deployments[1].dir = staged.dir

(* Straight holds outside the steps that stage or drop a deployment.       *)
LEMMA StraightNow ==
    ASSUME StagedSound, pc \notin Out, ~Restaging, pc \notin {"drop_dir", "drop_lock"},
           ~(req.kind = "finalize" /\ pc = "seal")
    PROVE  Straight
BY Zenon DEF StagedSound, Straight

(* ... and is enough for StagedSound there.                                *)
LEMMA StraightSound ==
    ASSUME Straight', ~Restaging', pc' \notin {"drop_dir", "drop_lock", "restage"},
           staged' # None => staged'.dir \in root'.deploys \ root'.sealed,
           "stage" \notin workload'.kinds => staged' = None
    PROVE  StagedSound'
BY Zenon DEF StagedSound, Straight

(* The loaded list stays in step while the offered one stays.              *)
LEMMA SyncKept ==
    ASSUME InSync, SameView, self' = self
    PROVE  InSync'
<1>1. Shift' = Shift
    BY Zenon DEF Shift, StagedObject
<1> QED
    BY <1>1, Zenon DEF InSync, SameView

(* A load brings the list of the process in step.                          *)
LEMMA LoadSync ==
    ASSUME DiskTypes, Boots, staged # None => IsStaged(staged),
           self' = Load(root, boot, staged), SameView, staged' = staged
    PROVE  /\ InSync' /\ Straight'
           /\ self'.deployments \in Seq(Deployments) /\ self'.deployments # <<>>
           /\ DOMAIN self' = {"bootversion", "subbootversion", "deployments"}
<1> DEFINE sh == IF staged = None THEN 0 ELSE 1
<1>1. IsRoot(root) /\ IsBoot(boot) /\ Good(root, boot)
    BY Zenon DEF DiskTypes, Boots
<1>2. /\ self'.bootversion = boot.loader /\ self'.subbootversion = Subversion(root, boot.loader)
      /\ DOMAIN self' = {"bootversion", "subbootversion", "deployments"}
      /\ self'.deployments \in Seq(Deployments) /\ self'.deployments # <<>>
      /\ Len(self'.deployments) = sh + Len(InUse(boot))
      /\ \A i \in DOMAIN InUse(boot) :
            self'.deployments[sh + i] =
               [dir |-> Offered(root, boot)[i].dir, kargs |-> InUse(boot)[i].kargs,
                staged |-> FALSE, same |-> TRUE]
      /\ staged # None => self'.deployments[1].dir = staged.dir
      /\ self'.deployments[1].staged <=> staged # None
    BY <1>1, LoadFacts
<1> HIDE DEF sh
<1>3. StagedObject' <=> staged # None
    BY <1>2, Zenon DEF StagedObject
<1>4. Shift' = sh
    BY <1>3 DEF Shift, sh
<1>5. \A i \in DOMAIN InUse(boot) :
         self'.deployments[sh + i].dir = Offered(root, boot)[i].dir
         /\ ~self'.deployments[sh + i].staged
    <2> TAKE i \in DOMAIN InUse(boot)
    <2> DEFINE d == self'.deployments[sh + i]
    <2>1. d = [dir |-> Offered(root, boot)[i].dir, kargs |-> InUse(boot)[i].kargs,
               staged |-> FALSE, same |-> TRUE]
        BY <1>2, Zenon
    <2> HIDE DEF d
    <2>2. d.dir = Offered(root, boot)[i].dir /\ ~d.staged
        BY <2>1
    <2> QED
        BY <2>2 DEF d
<1>6. InSync'
    BY <1>2, <1>4, <1>5, Zenon DEF InSync, SameView
<1>7. Straight'
    BY <1>2, <1>3, Zenon DEF Straight
<1> QED
    BY <1>2, <1>6, <1>7, Zenon

(* Dropping the staged deployment from the front keeps it in step.         *)
LEMMA TailSync ==
    ASSUME DiskTypes, Boots, InSync, StagedObject, SameView,
           self.deployments \in Seq(Deployments),
           DOMAIN self = {"bootversion", "subbootversion", "deployments"},
           self' = [self EXCEPT !.deployments = Tail(@)]
    PROVE  /\ InSync' /\ ~StagedObject' /\ self'.deployments \in Seq(Deployments)
           /\ self'.deployments # <<>>
           /\ DOMAIN self' = {"bootversion", "subbootversion", "deployments"}
<1> DEFINE s == self.deployments
<1>1. /\ self'.bootversion = self.bootversion /\ self'.subbootversion = self.subbootversion
      /\ self'.deployments = Tail(s) /\ DOMAIN self' = DOMAIN self
    OBVIOUS
<1>2. s # <<>> /\ Shift = 1
    BY DEF StagedObject, Shift
<1>3. /\ Len(InUse(boot)) \in Nat /\ DOMAIN InUse(boot) = 1..Len(InUse(boot))
    BY Known, Zenon
<1>4. InUse(boot) # <<>>
    BY Zenon DEF DiskTypes, Boots, Good
<1>5. Len(InUse(boot)) # 0
    <2>1. boot.entries \in [Versions -> Seq(BootConfigs)] /\ boot.loader \in Versions
        BY Zenon DEF DiskTypes, IsBoot
    <2>2. InUse(boot) \in Seq(BootConfigs)
        BY <2>1, Zenon DEF InUse
    <2> QED
        BY <2>2, <1>4
<1>6. /\ self.bootversion = boot.loader /\ self.subbootversion = Subversion(root, boot.loader)
      /\ Len(s) = 1 + Len(InUse(boot))
      /\ \A i \in DOMAIN InUse(boot) :
            s[1 + i].dir = Offered(root, boot)[i].dir /\ ~s[1 + i].staged
    BY <1>2, Zenon DEF InSync
<1>7. /\ Tail(s) \in Seq(Deployments) /\ Len(Tail(s)) = Len(s) - 1
      /\ \A i \in 1..(Len(s) - 1) : Tail(s)[i] = s[i + 1]
    BY <1>2
<1>8. Tail(s) # <<>> /\ Len(Tail(s)) = Len(InUse(boot))
    <2>1. Len(Tail(s)) = Len(InUse(boot))
        BY <1>3, <1>6, <1>7
    <2>2. Len(<<>>) = 0
        OBVIOUS
    <2> QED
        BY <2>1, <2>2, <1>5, Zenon
<1>9. \A i \in DOMAIN InUse(boot) : Tail(s)[i] = s[1 + i]
    BY <1>3, <1>6, <1>7
<1>10. 1 \in DOMAIN InUse(boot)
    BY <1>3, <1>5
<1>11. ~StagedObject'
    BY <1>1, <1>6, <1>9, <1>10, Zenon DEF StagedObject
<1>12. Shift' = 0
    BY <1>11 DEF Shift
<1>13. Len(self'.deployments) = Shift' + Len(InUse(boot)')
    <2>1. InUse(boot)' = InUse(boot)
        BY Zenon DEF SameView
    <2> QED
        BY <1>1, <1>3, <1>8, <1>12, <2>1
<1>14. \A i \in DOMAIN InUse(boot) :
          /\ self'.deployments[Shift' + i].dir = Offered(root, boot)[i].dir
          /\ ~self'.deployments[Shift' + i].staged
    <2> TAKE i \in DOMAIN InUse(boot)
    <2>1. Shift' + i = i
        BY <1>3, <1>12
    <2>2. self'.deployments[Shift' + i] = s[1 + i]
        BY <2>1, <1>1, <1>9, Zenon
    <2> QED
        BY <2>2, <1>6, Zenon
<1>15. InSync'
    BY <1>1, <1>6, <1>13, <1>14, Zenon DEF InSync, SameView
<1> QED
    BY <1>1, <1>7, <1>8, <1>11, <1>15, Zenon

(* Outside write_deployments nothing is being swapped.                     *)
LEMMA NotWriting ==
    ASSUME pc' \notin Writing
    PROVE  Swap'
<1>1. /\ pc' \notin Swapping /\ pc' \notin Dropping /\ pc' \notin Deciding /\ pc' \notin Stale
      /\ pc' \notin SubPhases /\ pc' \notin NewPhases /\ pc' \notin {"early", "retain"}
      /\ pc' \notin {"entries", "install"}
    BY Zenon DEF Writing, Swapping
<1>2. Planned'
    BY <1>1 DEF Planned, Deciding
<1>3. Swapped'
    BY <1>1, Zenon DEF Swapped, SubPhases, NewPhases
<1>4. Linked'
    BY <1>1 DEF Linked, SubPhases, NewPhases, Stale
<1> QED
    BY <1>2, <1>3, <1>4, Zenon DEF Swap

(* The steps of a process are told apart by their names.                   *)
LEMMA Phases ==
    /\ Out \cap Writing = {} /\ "write" \notin Writing
    /\ \A p \in {"seal", "run", "write", "unlink", "relock", "clean", "checkout", "touch",
                 "untouch", "restage", "reload", "prune", "stamp", "exit", "pull"} \cup Cleaning :
          p \notin Writing /\ p \notin Out /\ p \notin Stale
    /\ Swapping \subseteq Writing /\ Dropping \subseteq Writing /\ Deciding \subseteq Writing
    /\ Stale \subseteq Writing /\ {"early", "retain"} \subseteq Writing
    /\ Stale \cap Swapping = {}
BY DEF Out, Writing, Cleaning, Swapping, Dropping, Deciding, Stale, SubPhases, NewPhases

(* Outside these steps no deployment is being made.                        *)
LEMMA NotMaking ==
    ASSUME pc' \notin {"seal", "run", "write", "unlink", "relock"}
    PROVE  Made'
BY DEF Made

(* With no process at work, the disks and the staged file are all there is *)
(* to keep sound.                                                          *)
LEMMA AtRest ==
    ASSUME DiskTypes', Boots', WorkSound', pc' \in Out, pc' = "shutdown" \/ outer' = None,
           staged' # None => IsStaged(staged') /\ staged'.dir \in root'.deploys \ root'.sealed,
           "stage" \notin workload'.kinds => staged' = None
    PROVE  SysrootInvariant'
<1>1. pc' \notin Writing /\ pc' \notin {"seal", "run", "write", "unlink", "relock"}
      /\ pc' \notin {"drop_dir", "drop_lock", "restage", "unlink", "relock"}
    BY DEF Out, Writing, Swapping, Dropping, Deciding, Stale, SubPhases, NewPhases
<1>2. Swap'
    BY <1>1, NotWriting, Zenon
<1>3. Made' 
    BY <1>1, NotMaking, Zenon
<1>4. ListTypes'
    BY <1>1, Zenon DEF ListTypes
<1>5. Knows' /\ Scripted'
    BY Zenon DEF Knows, Scripted
<1>6. StagedSound'
    BY <1>1 DEF StagedSound
<1>7. Requested'
    BY <1>1 DEF Requested
<1> QED
    BY <1>2, <1>3, <1>4, <1>5, <1>6, <1>7, Zenon DEF SysrootInvariant, Booting, Process

(* The next call of a script, and what follows it.                         *)
LEMMA FollowsTail ==
    ASSUME NEW kind, NEW x, NEW s, Follows(kind, x, s), x # "exit"
    PROVE  /\ s # <<>> /\ Head(s) = s[1] /\ Then(kind, x, s[1])
           /\ s[1] # "shutdown" => Follows(kind, s[1], Tail(s))
<1>1. s \in Seq(Calls) /\ s # <<>> /\ Then(kind, x, s[1])
    BY DEF Follows
<1>2. \A i \in 1..(Len(s) - 1) : Then(kind, s[i], s[i + 1])
    BY DEF Follows
<1>3. s[Len(s)] \in {"exit", "shutdown"}
    BY <1>1 DEF Follows
<1>4. /\ Tail(s) \in Seq(Calls) /\ Len(Tail(s)) = Len(s) - 1 /\ Len(s) \in Nat \ {0}
      /\ \A i \in 1..(Len(s) - 1) : Tail(s)[i] = s[i + 1]
    BY <1>1
<1>5. ASSUME s[1] # "shutdown" PROVE Follows(kind, s[1], Tail(s))
    <2> DEFINE t == Tail(s)
    <2>1. s[1] # "exit" => t # <<>> /\ Then(kind, s[1], t[1])
        <3>1. ASSUME s[1] # "exit" PROVE Len(s) > 1
            BY <1>3, <1>4, <1>5, <3>1
        <3>2. ASSUME Len(s) > 1 PROVE t # <<>> /\ Then(kind, s[1], t[1])
            <4>a. Len(s) \in Nat
                BY <1>4
            <4>0. 1 \in 1..(Len(s) - 1) /\ Len(s) - 1 # 0
                <5> DEFINE n == Len(s)
                <5>1. n \in Nat /\ n > 1
                    BY <4>a, <3>2
                <5> HIDE DEF n
                <5>2. 1 \in 1..(n - 1) /\ n - 1 # 0
                    BY <5>1
                <5> QED
                    BY <5>2 DEF n
            <4>1. Len(t) # 0 /\ t[1] = s[1 + 1] /\ 1 \in 1..(Len(s) - 1)
                BY <1>4, <4>0, Zenon
            <4>2. Then(kind, s[1], s[1 + 1])
                BY <1>2, <4>1, Zenon
            <4>3. Len(<<>>) = 0
                OBVIOUS
            <4>4. t # <<>>
                BY <4>1, <4>3, Zenon
            <4> QED
                BY <4>1, <4>2, <4>4, Zenon
        <3> QED
            BY <3>1, <3>2, Zenon
    <2>2. \A i \in 1..(Len(t) - 1) : Then(kind, t[i], t[i + 1])
        <3> TAKE i \in 1..(Len(t) - 1)
        <3>1. /\ i + 1 \in 1..(Len(s) - 1)
              /\ t[i] = s[i + 1] /\ t[i + 1] = s[(i + 1) + 1]
            BY <1>4
        <3> QED
            BY <1>2, <3>1, Zenon
    <2>3. t # <<>> => t[Len(t)] \in {"exit", "shutdown"}
        <3> SUFFICES ASSUME t # <<>> PROVE t[Len(t)] \in {"exit", "shutdown"}
            OBVIOUS
        <3>1. Len(t) # 0
            BY <1>4
        <3>2. t[Len(t)] = s[Len(s)]
            BY <1>4, <3>1
        <3> QED
            BY <1>3, <3>2, Zenon
    <2> QED
        BY <1>4, <2>1, <2>2, <2>3, Zenon DEF Follows
<1> QED
    BY <1>1, <1>5

(* A process that continues with its script makes a call that may follow   *)
(* the one it made.                                                        *)
LEMMA ContinueStep ==
    ASSUME Scripted, pc \notin Out, pc # "exit", Continue(script), UNCHANGED <<workload, req>>
    PROVE  Then(req.kind, Call, pc') /\ Scripted' /\ pc' \notin Writing /\ pc' \notin Cleaning
<1>1. Follows(req.kind, Call, script) /\ req.kind \in workload.kinds
    BY Zenon DEF Scripted
<1>2. Call # "exit"
    BY DEF Call
<1>3. /\ Head(script) = script[1] /\ Then(req.kind, Call, script[1])
      /\ script[1] # "shutdown" => Follows(req.kind, script[1], Tail(script))
    BY <1>1, <1>2, FollowsTail, Zenon
<1>4. /\ pc' = script[1] /\ script' = Tail(script)
    BY <1>3, Zenon DEF Continue
<1>5. Then(req.kind, Call, pc')
    BY <1>3, <1>4, Zenon
<1>6. /\ pc' \in {"clean", "checkout", "seal", "run", "restage", "reload", "touch", "untouch",
                  "exit", "write", "stamp", "shutdown", "prune"}
      /\ pc' = "untouch" => req.kind = "lock"
      /\ pc' = "write" => req.kind \in {"deploy", "finalize"}
    BY <1>5 DEF Then
<1>7. pc' \notin Writing /\ pc' \notin Cleaning
    BY <1>6 DEF Writing, Cleaning, Swapping, Dropping, Deciding, Stale, SubPhases, NewPhases
<1>8. Call' = pc'
    BY <1>6, <1>7 DEF Call
<1>9. Scripted'
    <2>1. CASE pc' = "shutdown"
        BY <2>1 DEF Scripted, Out
    <2>2. CASE pc' # "shutdown"
        <3>1. Follows(req.kind, pc', script')
            BY <1>3, <1>4, <2>2, Zenon
        <3>2. ~(req.kind \in {"select", "set_kargs"} /\ Call' = "write")
            BY <1>6, <1>8
        <3> QED
            BY <1>1, <1>8, <3>1, <3>2, Zenon DEF Scripted
    <2> QED
        BY <2>1, <2>2
<1> QED
    BY <1>5, <1>7, <1>9

(* A step within a call keeps the script.                                  *)
LEMMA SameCall ==
    ASSUME Scripted, pc \notin Out, Call' = Call, UNCHANGED <<workload, req, script>>
    PROVE  Scripted'
BY Zenon DEF Scripted

(* A step that does not enter write_deployments keeps the request.         *)
LEMMA RequestedKept ==
    ASSUME Requested, pc \notin Out, UNCHANGED <<workload, req>>, pc' # "write",
           pc' \in Writing \/ outer' = None
    PROVE  Requested'
BY Zenon DEF Requested

(* A step outside write_deployments, from what it keeps to the invariant.  *)
LEMMA WorkStep ==
    ASSUME SysrootInvariant, DiskTypes', Boots', Scripted', Requested', Made', Swap',
           pc' \notin Out, pc' \notin Writing, UNCHANGED workload,
           self'.deployments \in Seq(Deployments),
           DOMAIN self' = {"bootversion", "subbootversion", "deployments"},
           InSync', staged' # None => IsStaged(staged'), StagedSound'
    PROVE  SysrootInvariant'
<1>1. ListTypes'
    BY Zenon DEF ListTypes
<1>2. Knows'
    BY Zenon DEF Knows
<1>3. WorkSound'
    BY Zenon DEF SysrootInvariant, WorkSound
<1> QED
    BY <1>1, <1>2, <1>3, Zenon DEF SysrootInvariant, Booting, Process

(* A step that leaves the loaded list and the staged deployment alone.     *)
LEMMA PlainStep ==
    ASSUME SysrootInvariant, Stands, pc \notin Out, pc \notin Writing, pc # "exit",
           ~Restaging, pc \notin {"drop_dir", "drop_lock", "seal"},
           ~Restaging', pc' \notin {"seal", "run", "write", "unlink", "relock", "restage"},
           UNCHANGED <<workload, staged, req, self, outer>>,
           staged # None => staged.dir \in root'.deploys \ root'.sealed,
           \/ Continue(script)
           \/ Call' = Call /\ UNCHANGED script /\ pc' \notin Out /\ pc' \notin Writing
    PROVE  SysrootInvariant'
<1>0. pc \notin Stale
    BY Phases
<1>1. /\ DiskTypes /\ Boots /\ InSync /\ pc # "freeze_again"
      /\ self.deployments \in Seq(Deployments)
      /\ DOMAIN self = {"bootversion", "subbootversion", "deployments"}
    BY <1>0, AtWork, Zenon
<1>2. DiskTypes' /\ Boots' /\ SameView
    BY <1>1, Zenon DEF Stands, Settled
<1>3. ListTypes /\ StagedSound /\ Scripted /\ Requested
    BY Zenon DEF SysrootInvariant, Process
<1>4. Scripted' /\ pc' \notin Writing
    BY <1>3, ContinueStep, SameCall, Zenon
<1>a. outer' = None
    BY <1>3 DEF Requested, Out
<1>5. Requested'
    BY <1>3, <1>a, RequestedKept
<1>6. Made'
    BY NotMaking
<1>7. Swap'
    BY <1>4, NotWriting, Zenon
<1>8. InSync'
    BY <1>1, <1>2, SyncKept, Zenon
<1>9. pc \notin {"drop_dir", "drop_lock"} /\ ~(req.kind = "finalize" /\ pc = "seal")
    OBVIOUS
<1>10. Straight
    BY <1>3, <1>9, StraightNow, Zenon
<1>11. Straight'
    BY <1>10, Zenon DEF Straight, StagedObject
<1>12. pc' \notin {"drop_dir", "drop_lock", "restage"}
    BY <1>4, Phases DEF Dropping
<1>13. "stage" \notin workload.kinds => staged = None
    BY <1>3, Zenon DEF StagedSound
<1>14. StagedSound'
    BY <1>11, <1>12, <1>13, StraightSound, Zenon
<1>15. staged # None => IsStaged(staged)
    BY <1>3, Zenon DEF ListTypes
<1>16. WorkSound'
    BY Zenon DEF SysrootInvariant, WorkSound
<1>17. CASE pc' \notin Out
    BY <1>1, <1>2, <1>4, <1>5, <1>6, <1>7, <1>8, <1>14, <1>15, <1>17, WorkStep, Zenon
<1>18. CASE pc' \in Out
    BY <1>a, <1>2, <1>13, <1>15, <1>16, <1>18, AtRest, Zenon
<1> QED
    BY <1>17, <1>18, Zenon

(***************************************************************************)
(* Processes that end, the machine, and other processes.                   *)
(***************************************************************************)

(* A process that ends, whatever the reason, leaves a sound state.         *)
LEMMA LeaveStep ==
    ASSUME SysrootInvariant, Stands, Settled, pc' \in Out, pc' = "shutdown" \/ outer' = None, staged' = staged, WorkSound',
           workload'.kinds = workload.kinds,
           root'.deploys = root.deploys, root'.sealed = root.sealed
    PROVE  SysrootInvariant'
<1>1. DiskTypes' /\ Boots'
    BY Zenon DEF SysrootInvariant, Booting, Stands
<1>2. /\ staged # None => IsStaged(staged) /\ staged.dir \in root.deploys \ root.sealed
      /\ "stage" \notin workload.kinds => staged = None
    BY Zenon DEF SysrootInvariant, Process, ListTypes, StagedSound
<1> QED
    BY <1>1, <1>2, AtRest, Zenon

(* ... at its end,                                                         *)
LEMMA ExitStep ==
    ASSUME SysrootInvariant, Exit
    PROVE  SysrootInvariant' /\ Stands /\ Settled
<1>1. /\ pc = "exit" /\ UNCHANGED <<workload, disks, runstate, booted>> /\ pc' = "idle"
      /\ outer' = None
    BY Zenon DEF Exit, Exited
<1>2. UNCHANGED <<staged, root>>
    BY <1>1 DEF runstate, disks
<1>3. Stands
    BY <1>1, MemoryStep, Zenon
<1>4. Settled /\ pc' \in Out
    BY <1>1 DEF Settled, Out
<1>5. WorkSound'
    BY <1>1, Zenon DEF WorkSound, SysrootInvariant
<1> QED
    BY <1>1, <1>2, <1>3, <1>4, <1>5, LeaveStep, Zenon

(* ... when it is killed,                                                  *)
LEMMA DieStep ==
    ASSUME SysrootInvariant, Die
    PROVE  SysrootInvariant' /\ Stands /\ Settled
<1>1. /\ pc \notin {"idle", "shutdown"} \cup workload.spared /\ workload.kills > 0
      /\ workload' = [workload EXCEPT !.kills = @ - 1, !.died = TRUE]
      /\ UNCHANGED <<disks, runstate, booted>>
    BY Zenon DEF Die
<1>2. pc' \in Out /\ (pc' = "shutdown" \/ outer' = None)
    BY DEF Die, Exited, Out
<1>3. UNCHANGED <<staged, root>>
    BY <1>1 DEF runstate, disks
<1>4. WorkSound
    BY Zenon DEF SysrootInvariant
<1>5. "freeze_again" \in workload.spared
    BY <1>1, <1>4 DEF WorkSound, Careful
<1>6. Settled
    BY <1>1, <1>5 DEF Settled
<1>7. Stands
    BY <1>1, MemoryStep, Zenon
<1>8. /\ DOMAIN workload' = WorkFields /\ workload'.kinds = workload.kinds
      /\ workload'.flags = workload.flags /\ workload'.commits = workload.commits
      /\ workload'.spared = workload.spared
    BY <1>1, <1>4 DEF WorkSound, WorkFields
<1>9. WorkSound'
    BY <1>4, <1>5, <1>8 DEF WorkSound, Careful
<1> QED
    BY <1>2, <1>3, <1>6, <1>7, <1>8, <1>9, LeaveStep, Zenon

(* ... when it fails,                                                      *)
LEMMA FailStep ==
    ASSUME SysrootInvariant, Fail, UNCHANGED <<workload, root, rootDisk, runstate, booted>>,
           UnlinkStaged \/ Refuse \/ InstallKernel
    PROVE  SysrootInvariant' /\ Stands /\ Settled
<1>1. pc \in {"unlink", "decide", "decide_dropped", "install"}
    BY Zenon DEF UnlinkStaged, Refuse, InstallKernel
<1>2. Settled
    BY <1>1 DEF Settled
<1>3. pc' \in Out /\ (pc' = "shutdown" \/ outer' = None)
    BY DEF Fail, Exited, Out
<1>4. Stands
    <2>1. CASE req.kind = "finalize"
        BY <2>1, StampSteps, Zenon
    <2>2. CASE req.kind # "finalize"
        <3>1. UNCHANGED disks
            BY <2>2 DEF Fail, disks
        <3> QED
            BY <3>1, MemoryStep, Zenon
    <2> QED
        BY <2>1, <2>2
<1>5. WorkSound' /\ staged' = staged
    BY DEF WorkSound, SysrootInvariant, runstate
<1> QED
    BY <1>2, <1>3, <1>4, <1>5, LeaveStep, Zenon

(* ... when the early prune aborts.                                        *)
LEMMA AbortStep ==
    ASSUME SysrootInvariant, EarlyPruneAborts
    PROVE  SysrootInvariant' /\ Stands /\ Settled
<1>1. Stands /\ pc # "freeze_again"
    BY KernelSteps, Zenon
<1>2. UNCHANGED <<workload, root, rootDisk, runstate, booted>> /\ pc' = "idle" /\ outer' = None
    BY Zenon DEF EarlyPruneAborts, Exited
<1>3. Settled /\ pc' \in Out /\ staged' = staged
    BY <1>1, <1>2 DEF Settled, Out, runstate
<1>4. WorkSound'
    BY <1>2, Zenon DEF WorkSound, SysrootInvariant
<1> QED
    BY <1>1, <1>2, <1>3, <1>4, LeaveStep, Zenon

(* ostree admin boot-complete keeps the invariant.                         *)
LEMMA CompleteStep ==
    ASSUME SysrootInvariant, BootComplete
    PROVE  SysrootInvariant' /\ Stands /\ Settled
<1>1. Stands /\ pc # "freeze_again"
    BY StampSteps, Zenon
<1>2. UNCHANGED <<workload, root, rootDisk, runstate, booted, pc>> /\ pc = "idle"
    BY Zenon DEF BootComplete
<1>a. outer' = None
    <2>1. outer' = outer
        BY DEF BootComplete, memory
    <2>2. pc \notin Writing
        BY <1>2, Phases DEF Out
    <2> QED
        BY <1>2, <2>1, <2>2 DEF SysrootInvariant, Process, Requested
<1>3. Settled /\ pc' \in Out /\ staged' = staged
    BY <1>1, <1>2 DEF Settled, Out, runstate
<1>4. WorkSound'
    BY <1>2, Zenon DEF WorkSound, SysrootInvariant
<1> QED
    BY <1>1, <1>2, <1>3, <1>4, <1>a, LeaveStep, Zenon

(* A boot finds a sound state, with a list that the power loss may leave.  *)
LEMMA RebootStep ==
    ASSUME SysrootInvariant, Reboot \/ PowerLoss
    PROVE  SysrootInvariant' /\ Fell
<1>1. DiskTypes' /\ Boots' /\ Fell /\ Exited /\ staged' = None
    BY BootStepFrom, Zenon
<1>2. pc' \in Out /\ outer' = None
    BY <1>1 DEF Exited, Out
<1>3. WorkSound
    BY Zenon DEF SysrootInvariant
<1>4. WorkSound'
    <2>1. CASE Reboot
        BY <2>1, <1>3, Zenon DEF Reboot, WorkSound
    <2>2. CASE PowerLoss
        <3>1. workload' = [workload EXCEPT !.losses = @ - 1]
            BY <2>2, Zenon DEF PowerLoss
        <3>2. /\ DOMAIN workload' = WorkFields /\ workload'.kinds = workload.kinds
              /\ workload'.flags = workload.flags /\ workload'.commits = workload.commits
              /\ workload'.spared = workload.spared /\ workload'.kills = workload.kills
            BY <3>1, <1>3 DEF WorkSound, WorkFields
        <3> QED
            BY <1>3, <3>2, Zenon DEF WorkSound, Careful
    <2> QED
        BY <2>1, <2>2
<1> QED
    BY <1>1, <1>2, <1>4, AtRest, Zenon

(* A prune by another process keeps the invariant.                         *)
LEMMA DirectStays ==
    ASSUME SysrootInvariant, DirectPrune
    PROVE  SysrootInvariant' /\ Stands /\ Settled
<1>1. Stands
    BY DirectStep, Zenon
<1>2. UNCHANGED <<workload, boot, bootDisk, runstate, booted, pc, memory>>
    BY Zenon DEF DirectPrune
<1>3. /\ UNCHANGED <<staged, script, req, self, new, plan, outer>>
      /\ UNCHANGED <<workload, boot, bootDisk, booted, pc>>
    BY <1>2 DEF runstate, memory
<1>4. Settled
    BY <1>3 DEF Settled
<1>5. DiskTypes' /\ Boots' /\ SameView
    BY <1>1, <1>4, Zenon DEF Stands, SysrootInvariant, Booting
<1>6. PICK x : root' = [root EXCEPT !.commits = x] /\ rootDisk' = rootDisk \cup {root'}
    BY Zenon DEF DirectPrune, WriteRoot
<1>7. IsRoot(root) /\ root \in rootDisk
    BY Zenon DEF SysrootInvariant, Booting, DiskTypes
<1>8. /\ root'.link = root.link /\ root'.farm = root.farm
      /\ root'.deploys = root.deploys /\ root'.sealed = root.sealed
    BY <1>6, <1>7 DEF IsRoot
<1>9. Shift' = Shift /\ (StagedObject' <=> StagedObject) /\ (Restaging' <=> Restaging)
      /\ Call' = Call
    BY <1>3, Zenon DEF Shift, StagedObject, Restaging, Call
<1>10. ListTypes'
    BY <1>3, Zenon DEF SysrootInvariant, Process, ListTypes
<1>11. Knows'
    BY <1>3, <1>5, SyncKept, Zenon DEF SysrootInvariant, Process, Knows
<1>12. StagedSound'
    BY <1>3, <1>8, <1>9, Zenon DEF SysrootInvariant, Process, StagedSound
<1>13. Scripted'
    BY <1>3, <1>9, Zenon DEF SysrootInvariant, Process, Scripted
<1>14. Requested'
    BY <1>3, Zenon DEF SysrootInvariant, Process, Requested
<1>15. Made'
    BY <1>3, <1>8, <1>9, Zenon DEF SysrootInvariant, Process, Made
<1>16. Planned'
    <2>1. \A s : (Finished(s)' <=> Finished(s)) /\ (FrontKept(s)' <=> FrontKept(s))
        BY <1>3, <1>8, <1>9, Zenon DEF Finished, FrontKept
    <2> QED
        BY <1>3, <1>9, <2>1, Zenon DEF SysrootInvariant, Swap, Planned
<1>17. Swapped'
    BY <1>3, <1>8, Zenon DEF SysrootInvariant, Swap, Swapped
<1>18. Linked'
    <2>1. \A v : Subversion(root', v) = Subversion(root, v)
        BY <1>8, Zenon DEF Subversion
    <2>2. \A v : Table(root', v) = Table(root, v)
        BY <1>8, <2>1, Zenon DEF Table
    <2>3. Links(root', boot) = Links(root, boot)
        BY <1>8, <2>1, Zenon DEF Links
    <2>4. Linked
        BY Zenon DEF SysrootInvariant, Swap
    <2>5. \A r \in rootDisk' : r \in rootDisk \/ r = root'
        BY <1>6, Zenon
    <2> QED
        BY <1>3, <1>7, <1>8, <2>1, <2>2, <2>3, <2>4, <2>5, Zenon DEF Linked
<1>19. WorkSound'
    BY <1>3, Zenon DEF SysrootInvariant, WorkSound
<1>20. Process' /\ Swap' /\ Booting'
    BY <1>5, <1>10, <1>11, <1>12, <1>13, <1>14, <1>15, <1>16, <1>17, <1>18, Zenon
       DEF Process, Swap, Booting
<1> QED
    BY <1>1, <1>4, <1>19, <1>20, Zenon DEF SysrootInvariant

(***************************************************************************)
(* The invariant as a whole.                                               *)
(***************************************************************************)

(* A freshly installed system is in a sound state.                         *)
LEMMA InitSound ==
    ASSUME Counting, \A w \in Workloads : Careful(w), Init
    PROVE  SysrootInvariant
<1> DEFINE k == CHOOSE x \in Kargs : TRUE
           d == [commit |-> Boot0, serial |-> 0]
           o == Object(d, k)
           first == <<o>>
<1>1. /\ d \in Dirs /\ k \in Kargs /\ None \notin Versions
      /\ workload \in Workloads
    BY SysrootConstants DEF Init, Dirs
<1>2. o \in Deployments /\ o.dir = d
    BY <1>1 DEF Object, Deployments
<1> HIDE DEF o, d, k
<1>3. /\ first \in Seq(Deployments) /\ first # <<>> /\ DOMAIN first = {1} /\ first[1] = o
      /\ Len(first) = 1
    BY <1>2
<1> HIDE DEF first
<1>4. DirsOf(first) = {d} /\ KernelsOf(first) = {Kernel(d)}
    BY <1>2, <1>3 DEF DirsOf, KernelsOf
<1>5. Key(first, 1) \in Kernels \X Nat /\ Key(first, 1)[1] = Kernel(d)
    <2>1. Key(first, 1) \in Kernels \X Nat
        BY <1>1, <1>2, <1>3, KeyType
    <2> QED
        BY <2>1, <1>2, <1>3 DEF Key
<1>6. /\ root.link = [v \in Versions |-> IF v = 0 THEN 0 ELSE None]
      /\ root.farm = OneFarm(0, 0, Farm(first))
      /\ root.deploys = {d} /\ root.sealed = {d}
      /\ DOMAIN root = {"link", "farm", "deploys", "sealed", "commits", "tip", "refs"}
      /\ rootDisk = {root} /\ bootDisk = {boot}
    BY <1>4 DEF Init, first, o, d, k
<1>7. /\ boot.loader = 0 /\ boot.kernels = {Kernel(d)}
      /\ boot.entries = [v \in Versions |-> IF v = 0 THEN <<Entry(first, 1)>> ELSE <<>>]
      /\ DOMAIN boot = {"loader", "tmp", "failed", "kernels", "entries"}
    BY <1>4 DEF Init, first, o, d, k
<1>8. /\ staged = None /\ booted = d /\ pc = "idle" /\ outer = None
    BY <1>2, <1>3 DEF Init, first, o, d, k
<1>9. IsRoot(root)
    BY <1>1, <1>6 DEF IsRoot, OneFarm, Versions
<1>10. Entry(first, 1) \in BootConfigs /\ Entry(first, 1).key = Key(first, 1)
    <2>1. first[1].kargs \in Kargs \cup {None}
        BY <1>2, <1>3 DEF Deployments
    <2> QED
        BY <1>5, <2>1 DEF Entry, BootConfigs
<1>11. IsBoot(boot) /\ InUse(boot) = <<Entry(first, 1)>>
    <2>1. <<Entry(first, 1)>> \in Seq(BootConfigs) /\ <<>> \in Seq(BootConfigs)
        BY <1>10
    <2> QED
        BY <1>7, <2>1 DEF IsBoot, InUse, Versions
<1>12. DiskTypes
    BY <1>6, <1>9, <1>11 DEF DiskTypes
<1>13. Links(root, boot) = Farm(first)
    BY <1>1, <1>6, <1>7 DEF Links, Subversion, OneFarm, Versions
<1>14. /\ DOMAIN InUse(boot) = DOMAIN first
       /\ \A i \in DOMAIN first : InUse(boot)[i].key = Key(first, i) /\ InUse(boot)[i].key[1] \in boot.kernels
    BY <1>3, <1>5, <1>7, <1>10, <1>11
<1>15. DirsOf(first) \subseteq root.sealed
    BY <1>4, <1>6
<1>16. Good(root, boot) /\ DirsOf(Offered(root, boot)) = DirsOf(first)
    BY <1>3, <1>13, <1>14, <1>15, GoodNew, Zenon
<1>17. Boots
    BY <1>4, <1>6, <1>8, <1>16 DEF Boots
<1>18. WorkSound
    <2>1. DOMAIN workload = WorkFields /\ workload.commits \subseteq Commits
        BY <1>1, SysrootConstants DEF WorkFields
    <2> QED
        BY <1>1, <2>1, Zenon DEF WorkSound
<1>19. Process
    BY <1>8 DEF Process, ListTypes, Knows, StagedSound, Scripted, Requested, Made, Out, Writing,
               Deciding, Dropping, Swapping, Stale, SubPhases, NewPhases
<1>20. Swap
    BY <1>8 DEF Swap, Planned, Swapped, Linked, Writing,
               Deciding, Dropping, Swapping, Stale, SubPhases, NewPhases
<1> QED
    BY <1>12, <1>17, <1>18, <1>19, <1>20, Zenon DEF SysrootInvariant, Booting

(* What a step may do to the list that is offered.                         *)
ListStep ==
    \/ Stands /\ Settled
    \/ Switched
    \/ Fell
    \/ Fallback' = {Offered(root, boot)} /\ UNCHANGED <<root, boot>>

(* A step that changes nothing keeps the invariant.                        *)
LEMMA Stutter ==
    ASSUME SysrootInvariant, UNCHANGED vars
    PROVE  SysrootInvariant'
<1>0. UNCHANGED <<workload, root, rootDisk, boot, bootDisk, staged, lockfile, booted, pc,
                  script, req, self, new, plan, outer>>
    BY DEF vars, disks, runstate, memory
<1>1. DiskTypes' /\ Boots'
    BY <1>0, Zenon DEF SysrootInvariant, Booting, DiskTypes, Boots
<1>2. ListTypes' /\ Made' /\ Requested'
    <2>1. ListTypes'
        BY <1>0, Zenon DEF SysrootInvariant, Process, ListTypes
    <2>2. Made'
        BY <1>0, Zenon DEF SysrootInvariant, Process, Made, StagedObject
    <2>3. Requested'
        BY <1>0, Zenon DEF SysrootInvariant, Process, Requested
    <2> QED
        BY <2>1, <2>2, <2>3
<1>3. StagedSound' /\ Scripted' /\ Knows'
    <2>1. StagedSound'
        BY <1>0, Zenon DEF SysrootInvariant, Process, StagedSound, Restaging, StagedObject
    <2>2. Scripted'
        BY <1>0, Zenon DEF SysrootInvariant, Process, Scripted, Call
    <2>3. Knows'
        BY <1>0 DEF SysrootInvariant, Process, Knows, InSync, Shift, StagedObject
    <2> QED
        BY <2>1, <2>2, <2>3
<1>4. Planned' /\ Swapped' /\ Linked'
    <2>1. Planned'
        BY <1>0, Zenon DEF SysrootInvariant, Swap, Planned, Finished, FrontKept, StagedObject
    <2>2. Swapped'
        BY <1>0, Zenon DEF SysrootInvariant, Swap, Swapped
    <2>3. Linked'
        BY <1>0, Zenon DEF SysrootInvariant, Swap, Linked
    <2> QED
        BY <2>1, <2>2, <2>3
<1> QED
    BY <1>0, <1>1, <1>2, <1>3, <1>4, Zenon
       DEF SysrootInvariant, Booting, Process, Swap, WorkSound

(* A sound state is bootable, as Bootable states it.                       *)
LEMMA SoundBoots ==
    ASSUME SysrootInvariant
    PROVE  Bootable
<1>1. DiskTypes /\ Boots
    BY Zenon DEF SysrootInvariant, Booting
<1>2. ASSUME NEW r \in rootDisk, NEW b \in bootDisk
      PROVE  /\ Loadable(r, b) /\ DirsOf(Offered(r, b)) \subseteq r.sealed
             /\ \A i \in DOMAIN b.entries[b.loader] : b.entries[b.loader][i].key[1] \in b.kernels
    <2>1. Good(r, b) /\ IsRoot(r)
        BY <1>1, Zenon DEF DiskTypes, Boots
    <2>2. DirsOf(Offered(r, b)) \subseteq r.sealed
        BY <2>1, GoodDirs, Zenon
    <2>3. r.sealed \subseteq r.deploys
        BY <2>1, Zenon DEF IsRoot
    <2> QED
        BY <2>1, <2>2, <2>3 DEF Good, Loadable, InUse
<1>3. BootedIsOffered
    <2>1. booted \in DirsOf(Offered(root, boot)) /\ root \in rootDisk /\ boot \in bootDisk
        BY <1>1, Zenon DEF DiskTypes, Boots
    <2> QED
        BY <1>2, <2>1, Zenon DEF BootedIsOffered
<1> QED
    BY <1>2, <1>3, Zenon DEF Bootable
=============================================================================
