---------------------------- MODULE SysrootProofs ----------------------------
(***************************************************************************)
(* The theorems on Sysroot.                                                *)
(***************************************************************************)
EXTENDS SysrootCalls, SysrootWrites, FiniteSetTheorems, WellFoundedInduction

(* A bounded set of numbers has a largest one.                             *)
LEMMA Largest ==
    ASSUME NEW n \in Nat, NEW S \in SUBSET (0..n), S # {}
    PROVE  \E m \in S : \A k \in S : k <= m
<1> DEFINE T == {x \in Nat : \E k \in S : x = n - k}
           R == OpToRel(<, Nat)
<1>1. T \subseteq Nat /\ T # {}
    <2>1. \A k \in S : n - k \in Nat
        OBVIOUS
    <2>2. PICK k \in S : TRUE
        BY Zenon
    <2>3. n - k \in T
        BY <2>1
    <2> QED
        BY <2>3, Zenon
<1>2. IsWellFoundedOn(R, Nat)
    BY NatLessThanWellFounded, Zenon
<1>3. PICK x \in T : \A y \in T : ~(<<y, x>> \in R)
    <2> HIDE DEF T, R
    <2> QED
        BY <1>1, <1>2, WFMin, Zenon
<1>4. \A y \in T : ~(y < x)
    BY <1>1, <1>3 DEF OpToRel
<1>5. PICK m \in S : x = n - m
    BY <1>3
<1>6. \A k \in S : n - k \in T
    OBVIOUS
<1>7. \A k \in S : k <= m
    <2> TAKE k \in S
    <2>1. ~(n - k < n - m)
        BY <1>4, <1>5, <1>6
    <2>2. k \in Int /\ m \in Int
        OBVIOUS
    <2> QED
        BY <2>1, <2>2
<1> QED
    BY <1>7

(* The library of finite sets proves what Counting says.                   *)
LEMMA Counted == Counting
<1>1. \A a, b \in Int :
         IsFiniteSet(a..b) /\ Cardinality(a..b) = IF a > b THEN 0 ELSE b - a + 1
    BY FS_Interval
<1>2. \A S : IsFiniteSet(S) => Cardinality(S) \in Nat /\ (Cardinality(S) = 0 <=> S = {})
    BY FS_CardinalityType, FS_EmptySet, Zenon
<1>3. \A S, x : IsFiniteSet(S) /\ x \notin S => Cardinality(S \cup {x}) = Cardinality(S) + 1
    BY FS_AddElement
<1>4. \A x : Cardinality({x}) = 1
    BY FS_Singleton, Zenon
<1>5. \A S, T : IsFiniteSet(S) /\ T \in SUBSET S =>
         /\ IsFiniteSet(T) /\ Cardinality(T) <= Cardinality(S)
         /\ Cardinality(S) = Cardinality(T) => S = T
    BY FS_Subset
<1>6. \A S, T : \A f \in [S -> T] :
         /\ IsFiniteSet(T) /\ Cardinality(S) = Cardinality(T)
         /\ Injects(S, f)
         => Reaches(S, T, f)
    <2> SUFFICES ASSUME NEW S, NEW T, NEW f \in [S -> T],
                        IsFiniteSet(T), Cardinality(S) = Cardinality(T), Injects(S, f)
                 PROVE  Reaches(S, T, f)
        OBVIOUS
    <2>1. f \in Injection(S, T)
        BY Zenon DEF Injects, Injection, IsInjective
    <2>2. f \in Surjection(S, T)
        BY <2>1, FS_Injection
    <2> QED
        BY <2>2 DEF Surjection, Reaches
<1>7. \A n \in Nat : \A S \in SUBSET (0..n) :
         S # {} => \E m \in S : \A k \in S : k <= m
    BY Largest
<1> QED
    BY <1>1, <1>2, <1>3, <1>4, <1>5, <1>6, <1>7, Zenon DEF Counting

(* So does every step of the system.                                       *)
LEMMA NextSound ==
    ASSUME Counting, SysrootInvariant, Next
    PROVE  SysrootInvariant' /\ ListStep
<1>1. CASE Command
    BY <1>1, CommandSteps, Zenon DEF ListStep
<1>2. CASE Make \/ Clean
    BY <1>2, MakeSteps, Zenon DEF ListStep
<1>3. CASE Write
    BY <1>3, WriteSteps, Zenon
<1>4. CASE Reboot \/ PowerLoss
    BY <1>4, RebootStep, Zenon DEF ListStep
<1>5. CASE BootComplete
    BY <1>5, CompleteStep, Zenon DEF ListStep
<1>6. CASE Die
    BY <1>6, DieStep, Zenon DEF ListStep
<1>7. CASE DirectPrune
    BY <1>7, DirectStays, Zenon DEF ListStep
<1> QED
    BY <1>1, <1>2, <1>3, <1>4, <1>5, <1>6, <1>7, Zenon DEF Next, Machine

(* Every step of Spec keeps the invariant and is a step of BootListAbs or  *)
(* a stutter.                                                              *)
LEMMA StepSound ==
    ASSUME Counting, SysrootInvariant, [Next]_vars
    PROVE  SysrootInvariant' /\ [BootList!Next]_(BootList!vars)
<1>1. CASE Next
    <2>1. SysrootInvariant' /\ ListStep
        BY <1>1, NextSound, Zenon
    <2>2. DiskTypes /\ Boots
        BY Zenon DEF SysrootInvariant, Booting
    <2>4. CASE Stands /\ Settled
        <3>1. Offered(root', boot') = Offered(root, boot) /\ Flushed
            BY <2>2, <2>4, Zenon DEF Stands, SameView
        <3>2. CASE Fallback' = Fallback
            BY <2>1, <3>1, <3>2 DEF BootList!vars, Fallback
        <3>3. CASE Fallback' = {Offered(root, boot)}
            BY <2>1, <3>1, <3>3 DEF BootList!Next, BootList!Flush, Fallback
        <3> QED
            BY <2>1, <3>1, <3>2, <3>3 DEF Flushed
    <2>5. CASE Switched
        BY <2>1, <2>5 DEF Switched, BootList!Next, BootList!Switch, Fallback
    <2>6. CASE Fell
        BY <2>1, <2>6 DEF Fell, BootList!Next, BootList!PowerLoss, Fallback
    <2>7. CASE Fallback' = {Offered(root, boot)} /\ UNCHANGED <<root, boot>>
        BY <2>1, <2>7 DEF BootList!Next, BootList!Flush, Fallback
    <2> QED
        BY <2>1, <2>4, <2>5, <2>6, <2>7, Zenon DEF ListStep
<1>2. CASE UNCHANGED vars
    <2>1. UNCHANGED <<workload, root, rootDisk, boot, bootDisk, staged, lockfile, booted, pc,
                      script, req, self, new, plan, outer>>
        BY <1>2 DEF vars, disks, runstate, memory
    <2>2. SysrootInvariant'
        BY <1>2, Stutter, Zenon
    <2>3. BootList!vars' = BootList!vars
        BY <2>1 DEF BootList!vars
    <2> QED
        BY <2>2, <2>3
<1> QED
    BY <1>1, <1>2

(* Whatever the commands, the kills and the power losses: every entry of   *)
(* the loader directory in use leads to a finished deployment whose kernel *)
(* is in /boot, and the running one stays among them                       *)
(* (ostree_sysroot_write_deployments). The workloads kill no process       *)
(* between the rename of /boot/loader and its sync, and keep no staged     *)
(* deployment in front of one that is not to be the default.               *)
THEOREM AlwaysBootable ==
    ASSUME \A w \in Workloads : Careful(w)
    PROVE  Spec => []Bootable
<1>1. Init => SysrootInvariant
    BY InitSound, Counted
<1>2. SysrootInvariant /\ [Next]_vars => SysrootInvariant'
    BY StepSound, Counted
<1>3. SysrootInvariant => Bootable
    BY SoundBoots
<1> QED
    BY <1>1, <1>2, <1>3, PTL DEF Spec

(* Under the same condition the list is replaced atomically: Sysroot       *)
(* implements BootListAbs, in which a power loss leaves the list of before *)
(* or of after the last swap.                                              *)
THEOREM ListIsAtomic ==
    ASSUME \A w \in Workloads : Careful(w)
    PROVE  Spec => AtomicList
<1>1. Init => SysrootInvariant
    BY InitSound, Counted
<1>2. SysrootInvariant /\ [Next]_vars => SysrootInvariant' /\ [BootList!Next]_(BootList!vars)
    BY StepSound, Counted
<1>3. Init => BootList!Init
    BY DEF Init, BootList!Init
<1> QED
    BY <1>1, <1>2, <1>3, PTL DEF Spec, AtomicList, BootList!Spec
=============================================================================
