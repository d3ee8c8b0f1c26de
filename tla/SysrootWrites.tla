---------------------------- MODULE SysrootWrites ----------------------------
(***************************************************************************)
(* Every step of write_deployments keeps the invariant of Sysroot; one of  *)
(* them switches the list.                                                 *)
(***************************************************************************)
EXTENDS SysrootInv

(***************************************************************************)
(* The list that is written.                                               *)
(***************************************************************************)

(* The loaded list: the staged deployment can only come first, and the     *)
(* others are finished.                                                    *)
LEMMA LoadedList ==
    ASSUME SysrootInvariant, pc \notin Out, pc \notin Stale
    PROVE  /\ self.deployments \in Seq(Deployments)
           /\ \A i \in DOMAIN self.deployments :
                 /\ self.deployments[i].staged <=> StagedObject /\ i = 1
                 /\ ~self.deployments[i].staged => self.deployments[i].dir \in root.sealed
           /\ StagedObject => self.deployments[1].dir \notin root.sealed
           /\ \E i \in DOMAIN self.deployments : self.deployments[i].dir = booted
           /\ booted \in root.sealed
<1> DEFINE s == self.deployments
           n == Len(InUse(boot))
<1>1. /\ DiskTypes /\ Boots /\ InSync /\ s \in Seq(Deployments)
      /\ booted \in DirsOf(s) /\ booted \in root.sealed
      /\ n \in Nat /\ DOMAIN InUse(boot) = 1..n /\ Shift \in {0, 1}
    BY AtWork, Zenon
<1>2. Good(root, boot) /\ StagedSound
    BY <1>1, Zenon DEF DiskTypes, Boots, SysrootInvariant, Process
<1>3. \A i \in DOMAIN InUse(boot) : Offered(root, boot)[i].dir \in root.sealed
    BY <1>2, GoodDirs, Zenon
<1>4. /\ Len(s) = Shift + n
      /\ \A i \in DOMAIN InUse(boot) : s[Shift + i].dir = Offered(root, boot)[i].dir
                                       /\ ~s[Shift + i].staged
    BY <1>1, Zenon DEF InSync
<1>5. StagedObject => s[1].dir \notin root.sealed
    BY <1>2, Zenon DEF StagedSound
<1>6. StagedObject <=> Shift = 1
    BY DEF Shift
<1>7. \A i \in DOMAIN s : /\ s[i].staged <=> StagedObject /\ i = 1
                          /\ ~s[i].staged => s[i].dir \in root.sealed
    <2> TAKE i \in DOMAIN s
    <2>1. i \in 1..(Shift + n)
        BY <1>1, <1>4
    <2>2. CASE Shift = 1 /\ i = 1
        BY <2>2, <1>6, Zenon DEF StagedObject
    <2>3. CASE ~(Shift = 1 /\ i = 1)
        <3>1. i - Shift \in 1..n /\ Shift + (i - Shift) = i
            <4> HIDE DEF n
            <4> QED
                BY <2>1, <2>3, <1>1
        <3>2. ~s[i].staged /\ s[i].dir \in root.sealed
            BY <3>1, <1>1, <1>3, <1>4, Zenon
        <3> QED
            BY <3>2, <2>3, <1>6, Zenon
    <2> QED
        BY <2>2, <2>3, Zenon
<1>8. \E i \in DOMAIN s : s[i].dir = booted
    BY <1>1, Zenon DEF DirsOf
<1> QED
    BY <1>1, <1>5, <1>7, <1>8, Zenon

(* The elements of x are the ones of s at the positions I.                 *)
Among(x, s, I) == \A k \in 1..Len(x) : \E i \in I : x[k] = s[i]

(* Kept takes its elements from the list, at the positions it is given.    *)
LEMMA KeptElements ==
    ASSUME Counting, NEW S, NEW s \in Seq(S), NEW I \in SUBSET (1..Len(s)), NEW x, x = Kept(s, I)
    PROVE  x \in Seq(S) /\ Among(x, s, I)
<1>1. /\ x \in Seq(S) /\ Len(x) = Cardinality(I)
      /\ \A k \in 1..Cardinality(I) : \E i \in I : x[k] = s[i]
    BY KeptFacts, Zenon
<1> QED
    BY <1>1, Zenon DEF Among

(* What ostree_sysroot_simple_write_deployment puts together.              *)
LEMMA SimpleWriteFacts ==
    ASSUME Counting, NEW S, NEW s \in Seq(S), NEW d \in S, NEW flags, BootedIndex(s) \in DOMAIN s,
           NEW p, p = SimpleWrite(s, d, flags)
    PROVE  /\ p \in Seq(S) /\ p # <<>>
           /\ \A i \in DOMAIN p : p[i] = d \/ \E j \in DOMAIN s : p[i] = s[j]
           /\ "not_default" \notin flags => p[1] = d
           /\ "not_default" \in flags /\ flags \cap {"retain", "retain_pending"} = {} =>
                p[1] = s[BootedIndex(s)]
<1> DEFINE b == BootedIndex(s)
           Retain(i) ==
              \/ "retain" \in flags
              \/ i = b
              \/ "retain_pending" \in flags /\ i < b
              \/ "retain_rollback" \in flags /\ i > b
           I(from, to) == {i \in from..to : Retain(i)}
           x == Kept(s, I(1, b))
           y == Kept(s, I(b + 1, Len(s)))
           z == Kept(s, I(1, Len(s)))
<1>1. b \in 1..Len(s) /\ Len(s) \in Nat
    OBVIOUS
<1>2. p = IF "not_default" \in flags THEN x \o <<d>> \o y ELSE <<d>> \o z
    BY DEF SimpleWrite
<1>3. /\ I(1, b) \in SUBSET (1..Len(s)) /\ I(b + 1, Len(s)) \in SUBSET (1..Len(s))
      /\ I(1, Len(s)) \in SUBSET (1..Len(s)) /\ b \in I(1, b)
    <2> HIDE DEF b
    <2> QED
        BY <1>1
<1>4. "retain" \notin flags /\ "retain_pending" \notin flags => \A i \in I(1, b) : i = b
    <2> HIDE DEF b
    <2> QED
        BY <1>1
<1> HIDE DEF I
<1>5. /\ x \in Seq(S) /\ \A k \in 1..Len(x) : \E i \in I(1, b) : x[k] = s[i]
      /\ 1 \in 1..Len(x)
    <2>1. /\ x \in Seq(S) /\ Len(x) = Cardinality(I(1, b)) /\ Cardinality(I(1, b)) \in Nat
          /\ \A k \in 1..Cardinality(I(1, b)) : \E i \in I(1, b) : x[k] = s[i]
          /\ Rank(I(1, b), b) \in 1..Cardinality(I(1, b))
        BY <1>3, KeptFacts, Zenon
    <2> HIDE DEF x
    <2> QED
        BY <2>1
<1>6. /\ y \in Seq(S) /\ \A k \in 1..Len(y) : \E i \in I(b + 1, Len(s)) : y[k] = s[i]
    <2>1. y = Kept(s, I(b + 1, Len(s)))
        OBVIOUS
    <2> HIDE DEF y, b
    <2>2. y \in Seq(S) /\ Among(y, s, I(b + 1, Len(s)))
        BY <1>3, <2>1, KeptElements, Zenon
    <2> QED
        BY <2>2, Zenon DEF Among
<1>7. /\ z \in Seq(S) /\ \A k \in 1..Len(z) : \E i \in I(1, Len(s)) : z[k] = s[i]
    <2>1. z = Kept(s, I(1, Len(s)))
        OBVIOUS
    <2> HIDE DEF z, b
    <2>2. z \in Seq(S) /\ Among(z, s, I(1, Len(s)))
        BY <1>3, <2>1, KeptElements, Zenon
    <2> QED
        BY <2>2, Zenon DEF Among
<1>8. DOMAIN s = 1..Len(s)
    OBVIOUS
<1> HIDE DEF x, y, z, b
<1>9. CASE "not_default" \in flags
    <2>1. /\ p \in Seq(S) /\ p # <<>> /\ p[1] = x[1] /\ Len(p) = Len(x) + 1 + Len(y)
          /\ \A i \in 1..Len(p) :
                \/ i \in 1..Len(x) /\ p[i] = x[i]
                \/ i = Len(x) + 1 /\ p[i] = d
                \/ i - (Len(x) + 1) \in 1..Len(y) /\ p[i] = y[i - (Len(x) + 1)]
        BY <1>2, <1>5, <1>6, <1>9
    <2>2. \A i \in DOMAIN p : p[i] = d \/ \E j \in DOMAIN s : p[i] = s[j]
        <3> TAKE i \in DOMAIN p
        <3>1. i \in 1..Len(p)
            BY <2>1
        <3>2. CASE i \in 1..Len(x) /\ p[i] = x[i]
            BY <3>2, <1>3, <1>5, <1>8, Zenon
        <3>3. ASSUME i - (Len(x) + 1) \in 1..Len(y), p[i] = y[i - (Len(x) + 1)]
              PROVE  \E j \in DOMAIN s : p[i] = s[j]
            BY <3>3, <1>3, <1>6, <1>8, Zenon
        <3> QED
            BY <3>1, <3>2, <3>3, <2>1, Zenon
    <2>3. ASSUME flags \cap {"retain", "retain_pending"} = {} PROVE p[1] = s[b]
        <3>1. "retain" \notin flags /\ "retain_pending" \notin flags
            BY <2>3
        <3> QED
            BY <3>1, <1>4, <1>5, <2>1, Zenon
    <2> QED
        BY <1>9, <2>1, <2>2, <2>3, Zenon DEF b
<1>10. CASE "not_default" \notin flags
    <2>1. /\ p \in Seq(S) /\ p # <<>> /\ p[1] = d /\ Len(p) = 1 + Len(z)
          /\ \A i \in 1..Len(p) : i = 1 \/ (i - 1 \in 1..Len(z) /\ p[i] = z[i - 1])
        BY <1>2, <1>7, <1>10
    <2>2. \A i \in DOMAIN p : p[i] = d \/ \E j \in DOMAIN s : p[i] = s[j]
        <3> TAKE i \in DOMAIN p
        <3>1. i \in 1..Len(p)
            BY <2>1
        <3> QED
            BY <3>1, <2>1, <1>3, <1>7, <1>8, Zenon
    <2> QED
        BY <1>10, <2>1, <2>2, Zenon
<1> QED
    BY <1>9, <1>10, Zenon

(* A step of a write that leaves the lists in memory and in /run alone.    *)
LEMMA Busy ==
    ASSUME SysrootInvariant, pc \in Writing \cup {"write"}, pc' \in Writing,
           pc \notin {"drop_dir", "drop_lock"}, pc' \notin {"drop_dir", "drop_lock"},
           UNCHANGED <<workload, staged, script, req, self>>,
           DiskTypes', Boots', pc' \in Stale \/ (pc \notin Stale /\ SameView),
           root'.deploys = root.deploys, root'.sealed = root.sealed,
           plan' \in Seq(Deployments), outer' # None => outer' \in Seq(Deployments),
           Swap'
    PROVE  SysrootInvariant'
<1>1. /\ pc \notin Out /\ pc' \notin Out
      /\ pc \notin {"restage", "untouch", "reload", "seal"}
      /\ pc' \notin {"restage", "untouch", "reload", "seal", "write", "run", "unlink", "relock"}
    BY DEF Out, Writing, Swapping, Dropping, Deciding, Stale, SubPhases, NewPhases
<1>2. Call = "write" /\ Call' = "write"
    BY <1>1 DEF Call, Cleaning, Writing, Swapping, Dropping, Deciding, Stale, SubPhases, NewPhases
<1>3. /\ ListTypes /\ StagedSound /\ Scripted /\ Requested
    BY Zenon DEF SysrootInvariant, Process
<1>4. ListTypes'
    BY <1>1, <1>3, Zenon DEF ListTypes
<1>5. Knows'
    <2>1. CASE pc' \in Stale
        BY <2>1, Zenon DEF Knows
    <2>2. CASE pc \notin Stale /\ SameView
        <3>1. InSync
            BY <1>1, <2>2, AtWork, Zenon
        <3>2. InSync'
            BY <2>2, <3>1, SyncKept, Zenon
        <3> QED
            BY <3>2, Zenon DEF Knows
    <2> QED
        BY <2>1, <2>2, Zenon
<1>6. ~Restaging /\ ~Restaging' /\ (StagedObject' <=> StagedObject)
    BY <1>1 DEF Restaging, StagedObject
<1>7. Straight
    BY <1>1, <1>3, <1>6, StraightNow
<1>8. Straight'
    BY <1>6, <1>7, Zenon DEF Straight
<1>9. StagedSound'
    <2>1. /\ staged' # None => staged'.dir \in root'.deploys \ root'.sealed
          /\ "stage" \notin workload'.kinds => staged' = None
        BY <1>3, Zenon DEF StagedSound
    <2>2. pc' \notin {"drop_dir", "drop_lock", "restage"}
        BY <1>1
    <2> QED
        BY <1>6, <1>8, <2>1, <2>2, StraightSound, Zenon
<1>10. Scripted'
    BY <1>1, <1>2, <1>3, SameCall, Zenon
<1>11. Requested'
    BY <1>1, <1>3, RequestedKept
<1>12. Made'
    BY <1>1, NotMaking
<1>13. WorkSound'
    BY Zenon DEF SysrootInvariant, WorkSound
<1> QED
    BY <1>4, <1>5, <1>9, <1>10, <1>11, <1>12, <1>13, Zenon DEF SysrootInvariant, Booting, Process

(* No list is being swapped in outside these steps.                        *)
LEMMA NotSwapping ==
    ASSUME pc' \notin Swapping, pc' # "freeze_again"
    PROVE  Swapped' /\ Linked'
<1>1. pc' \notin SubPhases /\ pc' \notin NewPhases /\ pc' \notin {"entries", "install"}
    BY Zenon DEF Swapping
<1> QED
    BY <1>1 DEF Swapped, Linked, SubPhases, NewPhases

(* A list that can be asked for.                                           *)
Listed(p) == p \in Seq(Deployments) /\ Finished(p) /\ FrontKept(p)

(* A function on 1..n is a list.                                           *)
LEMMA IsList ==
    ASSUME NEW S, NEW n \in Nat, NEW p \in [1..n -> S]
    PROVE  p \in Seq(S)
OBVIOUS

(* A selection of loaded deployments is a list that may be written.        *)
LEMMA SelectListed ==
    ASSUME SysrootInvariant, pc = "write", req.kind = "select",
           NEW p, p = [i \in DOMAIN req.order |-> self.deployments[req.order[i]]]
    PROVE  Listed(p)
<1> DEFINE s == self.deployments
           o == req.order
<1>0. pc \notin Out /\ pc \notin Stale
    BY DEF Out, Stale
<1>1. /\ s \in Seq(Deployments)
      /\ \A i \in DOMAIN s : /\ s[i].staged <=> StagedObject /\ i = 1
                             /\ ~s[i].staged => s[i].dir \in root.sealed
    BY <1>0, LoadedList, Zenon
<1>2. o \in SelectOrders /\ Orderly(o, s) /\ \A i \in DOMAIN o : o[i] \in DOMAIN s
    BY Zenon DEF SysrootInvariant, Process, Requested
<1>3. PICK n \in 1..MaxDeployments :
        o \in [1..n -> 1..MaxDeployments] /\ \A i, j \in DOMAIN o : o[i] = o[j] => i = j
    BY <1>2, Zenon DEF SelectOrders
<1>n. n \in Nat \ {0} /\ DOMAIN o = 1..n /\ Len(o) = n
    BY <1>3, SysrootConstants
<1> HIDE DEF s, o
<1>4. p = [i \in DOMAIN o |-> s[o[i]]]
    BY DEF s, o
<1>5. /\ p \in Seq(Deployments) /\ DOMAIN p = DOMAIN o /\ \A i \in DOMAIN p : p[i] = s[o[i]]
    <2>1. n \in Nat /\ DOMAIN o = 1..n
        BY <1>n
    <2>2. \A j \in DOMAIN s : s[j] \in Deployments
        BY <1>1
    <2>3. \A i \in 1..n : s[o[i]] \in Deployments
        BY <1>2, <2>1, <2>2, Zenon
    <2>4. p = [i \in 1..n |-> s[o[i]]]
        BY <1>4, <2>1, Zenon
    <2>5. p \in [1..n -> Deployments] /\ n \in Nat
        BY <2>3, <2>4
    <2>6. p \in Seq(Deployments)
        BY <2>5
    <2> QED
        BY <2>1, <2>4, <2>6
<1>6. Finished(p)
    <2>1. ASSUME NEW i \in DOMAIN p PROVE p[i].staged \/ p[i].dir \in root.sealed
        <3>1. o[i] \in DOMAIN s /\ p[i] = s[o[i]]
            BY <1>2, <1>5, <2>1, Zenon
        <3> QED
            BY <1>1, <3>1, Zenon
    <2> QED
        BY <2>1, Zenon DEF Finished
<1>7. FrontKept(p)
    <2> SUFFICES ASSUME StagedObject, p # <<>>, p[1].staged, p[1].same
                 PROVE  /\ \A i \in DOMAIN p : p[i].staged <=> i = 1
                        /\ Len(p) = Len(s) => \A i \in DOMAIN p : p[i].dir = s[i].dir
        BY Zenon DEF FrontKept, s
    <2>1. 1 \in DOMAIN o /\ o[1] = 1
        <3>1. 1 \in DOMAIN o
            BY <1>n
        <3>2. o[1] \in DOMAIN s /\ s[o[1]].staged
            BY <3>1, <1>2, <1>5, Zenon
        <3> QED
            BY <3>1, <3>2, <1>1, Zenon
    <2>a. \/ DOMAIN o = 1..1
          \/ DOMAIN o = 1..2 /\ o[1] # o[2]
        <3>1. s[o[1]].staged
            BY <1>5, <2>1
        <3>2. Len(o) <= 2
            BY <1>2, <3>1, Zenon DEF Orderly
        <3> QED
            BY <1>3, <1>n, <3>2
    <2>2. \A i \in DOMAIN p : p[i].staged <=> i = 1
        <3> TAKE i \in DOMAIN p
        <3>1. p[i].staged <=> o[i] = 1
            BY <1>1, <1>2, <1>5, Zenon
        <3>2. i \in {1, 2} /\ (i = 2 => o[2] # 1)
            BY <2>a, <1>5, <2>1
        <3> QED
            BY <3>1, <3>2, <2>1
    <2>3. ASSUME Len(p) = Len(s) PROVE \A i \in DOMAIN p : p[i].dir = s[i].dir
        <3> TAKE i \in DOMAIN p
        <3>1. CASE i = 1
            BY <3>1, <1>5, <2>1
        <3>2. CASE i # 1
            <4>1. DOMAIN o = 1..2 /\ o[1] # o[2] /\ i = 2
                BY <2>a, <1>5, <3>2
            <4>2. Len(p) = 2
                BY <1>5, <4>1
            <4>3. DOMAIN s = 1..2
                <5>1. Len(s) = 2
                    BY <2>3, <4>2, Zenon
                <5>2. s \in Seq(Deployments)
                    BY <1>1
                <5> QED
                    BY <5>1, <5>2
            <4>4. o[2] = 2
                BY <1>2, <2>1, <4>1, <4>3
            <4> QED
                BY <1>5, <4>1, <4>4
        <3> QED
            BY <3>1, <3>2
    <2> QED
        BY <2>2, <2>3, Zenon
<1> QED
    BY <1>5, <1>6, <1>7, Zenon DEF Listed

(* So is the loaded list with other kernel arguments in one place.         *)
LEMMA KargsListed ==
    ASSUME SysrootInvariant, pc = "write", req.kind = "set_kargs",
           NEW p, p = [self.deployments EXCEPT ![req.index] = Object(@.dir, req.kargs)]
    PROVE  Listed(p)
<1> DEFINE s == self.deployments
           x == req.index
           new1 == Object(s[x].dir, req.kargs)
<1>0. pc \notin Out /\ pc \notin Stale
    BY DEF Out, Stale
<1>1. /\ s \in Seq(Deployments)
      /\ \A i \in DOMAIN s : /\ s[i].staged <=> StagedObject /\ i = 1
                             /\ ~s[i].staged => s[i].dir \in root.sealed
    BY <1>0, LoadedList, Zenon
<1>2. x \in DOMAIN s /\ ~s[x].staged /\ req.kargs \in Kargs
    BY Zenon DEF SysrootInvariant, Process, Requested
<1>3. s[x] \in Deployments
    <2> HIDE DEF s, x
    <2> QED
        BY <1>1, <1>2
<1>4. new1 \in Deployments /\ ~new1.staged /\ new1.dir = s[x].dir
    <2>1. s[x].dir \in Dirs
        BY <1>3 DEF Deployments
    <2> QED
        BY <2>1, <1>2 DEF Object, Deployments
<1>5. p = [s EXCEPT ![x] = new1]
    OBVIOUS
<1> HIDE DEF s, x, new1
<1>6. /\ p \in Seq(Deployments) /\ DOMAIN p = DOMAIN s /\ Len(p) = Len(s)
      /\ p[x] = new1 /\ \A i \in DOMAIN s : i # x => p[i] = s[i]
    <2>1. s \in Seq(Deployments)
        BY <1>1
    <2>2. /\ DOMAIN p = DOMAIN s /\ p[x] = new1
          /\ \A i \in DOMAIN s : i # x => p[i] = s[i]
        BY <1>2, <1>5
    <2>3. DOMAIN s = 1..Len(s) /\ Len(s) \in Nat /\ \A i \in DOMAIN s : s[i] \in Deployments
        BY <2>1
    <2>4. \A i \in DOMAIN p : p[i] \in Deployments
        BY <1>4, <2>2, <2>3, Zenon
    <2>5. p = [i \in 1..Len(s) |-> p[i]]
        BY <1>5, <2>2, <2>3
    <2>6. p \in Seq(Deployments)
        <3> DEFINE n == Len(s)
        <3>1. n \in Nat /\ p = [i \in 1..n |-> p[i]] /\ \A i \in 1..n : p[i] \in Deployments
            BY <2>2, <2>3, <2>4, <2>5
        <3> HIDE DEF n
        <3>2. p \in [1..n -> Deployments]
            BY <3>1
        <3> QED
            BY <3>1, <3>2, IsList, Zenon
    <2> QED
        BY <2>2, <2>3, <2>6
<1>7. \A i \in DOMAIN p : p[i].dir = s[i].dir /\ (p[i].staged <=> s[i].staged)
    BY <1>2, <1>4, <1>6, Zenon
<1>8. Finished(p)
    BY <1>1, <1>6, <1>7, Zenon DEF Finished
<1>9. FrontKept(p)
    BY <1>1, <1>6, <1>7, Zenon DEF FrontKept, s
<1> QED
    BY <1>6, <1>8, <1>9, Zenon DEF Listed

(* So is what ostree_sysroot_simple_write_deployment makes.                *)
LEMMA SimpleListed ==
    ASSUME Counting, SysrootInvariant, pc = "write", new \in Deployments, ~new.staged, new.dir \in root.sealed,
           NEW flags,
           StagedObject /\ "not_default" \in flags =>
              flags \cap {"retain", "retain_pending"} = {},
           NEW p, p = SimpleWrite(self.deployments, new, flags)
    PROVE  Listed(p)
<1> DEFINE s == self.deployments
           b == BootedIndex(s)
<1>0. pc \notin Out /\ pc \notin Stale
    BY DEF Out, Stale
<1>1. /\ s \in Seq(Deployments)
      /\ \A i \in DOMAIN s : /\ s[i].staged <=> StagedObject /\ i = 1
                             /\ ~s[i].staged => s[i].dir \in root.sealed
      /\ StagedObject => s[1].dir \notin root.sealed
      /\ \E i \in DOMAIN s : s[i].dir = booted
      /\ booted \in root.sealed
    BY <1>0, LoadedList, Zenon
<1>2. b \in DOMAIN s /\ s[b].dir = booted
    BY <1>1, Zenon DEF BootedIndex
<1>3. ~s[b].staged
    BY <1>1, <1>2, Zenon
<1> HIDE DEF s
<1>4. p = SimpleWrite(s, new, flags) /\ BootedIndex(s) \in DOMAIN s
    BY <1>2, Zenon DEF s
<1> HIDE DEF b
<1>5. /\ p \in Seq(Deployments)
      /\ \A i \in DOMAIN p : p[i] = new \/ \E j \in DOMAIN s : p[i] = s[j]
      /\ "not_default" \notin flags => p[1] = new
      /\ "not_default" \in flags /\ flags \cap {"retain", "retain_pending"} = {} => p[1] = s[b]
    <2>1. s \in Seq(Deployments)
        BY <1>1
    <2> QED
        BY <1>4, <2>1, SimpleWriteFacts DEF b
<1>6. Finished(p)
    BY <1>1, <1>5, Zenon DEF Finished
<1>7. StagedObject => ~p[1].staged
    BY <1>3, <1>5, Zenon
<1>8. FrontKept(p)
    BY <1>7, Zenon DEF FrontKept
<1> QED
    BY <1>5, <1>6, <1>8, Zenon DEF Listed

(* A list that may be written stays one while finished directories stay.   *)
LEMMA PlanFrame ==
    ASSUME self' = self, root'.sealed = root.sealed, root'.deploys \subseteq root.deploys, NEW p
    PROVE  (Finished(p) => Finished(p)') /\ (FrontKept(p) <=> FrontKept(p)')
<1>1. StagedObject' <=> StagedObject
    BY Zenon DEF StagedObject
<1> QED
    BY <1>1, Zenon DEF Finished, FrontKept

(* The start of write_deployments keeps the invariant.                     *)
LEMMA WriteDeploymentsStep ==
    ASSUME Counting, SysrootInvariant, WriteDeployments
    PROVE  SysrootInvariant' /\ Stands /\ Settled
<1>1. /\ pc = "write" /\ pc' = "early" /\ plan' = NewDeployments
      /\ UNCHANGED <<workload, disks, runstate, booted, script, req, self, new, outer>>
    BY Zenon DEF WriteDeployments
<1>2. /\ pc \notin Out /\ pc \notin Stale /\ pc \notin Writing /\ pc # "shutdown" /\ Call = "write"
      /\ pc' \in Writing /\ pc' \notin Stale /\ pc' \notin Swapping
    BY <1>1 DEF Out, Writing, Swapping, Dropping, Deciding, Stale, SubPhases, NewPhases, Call, Cleaning
<1>3. /\ Scripted /\ Requested /\ Made /\ StagedSound /\ WorkSound
    BY Zenon DEF SysrootInvariant, Process
<1>4. req.kind \in {"deploy", "finalize", "select", "set_kargs"}
    <2>1. Then(req.kind, "write", script[1])
        BY <1>2, <1>3 DEF Scripted, Follows
    <2> QED
        BY <2>1 DEF Then
<1>5. outer = None
    BY <1>2, <1>3, Zenon DEF Requested
<1>6. Listed(plan')
    <2>1. CASE req.kind = "select"
        <3>1. plan' = [i \in DOMAIN req.order |-> self.deployments[req.order[i]]]
            BY <1>1, <2>1 DEF NewDeployments
        <3> QED
            BY <1>1, <2>1, <3>1, SelectListed, Zenon
    <2>2. CASE req.kind = "set_kargs"
        <3>1. plan' = [self.deployments EXCEPT ![req.index] = Object(@.dir, req.kargs)]
            BY <1>1, <2>2 DEF NewDeployments
        <3> QED
            BY <1>1, <2>2, <3>1, KargsListed, Zenon
    <2>3. CASE req.kind \in {"deploy", "finalize"}
        <3>1. new \in Deployments /\ ~new.staged /\ new.dir \in root.sealed
            BY <1>1, <1>3, <2>3, Zenon DEF Made
        <3>2. CASE req.kind = "finalize"
            <4>1. plan' = SimpleWrite(self.deployments, new, {})
                BY <1>1, <3>2 DEF NewDeployments
            <4>2. "not_default" \notin {}
                OBVIOUS
            <4> QED
                BY <1>1, <3>1, <4>1, <4>2, SimpleListed, Zenon
        <3>3. CASE req.kind = "deploy"
            <4>1. plan' = SimpleWrite(self.deployments, new, req.flags)
                BY <1>1, <3>3 DEF NewDeployments
            <4>2. req.flags \in workload.flags
                BY <1>2, <1>3, <3>3, Zenon DEF Requested
            <4>3. ASSUME StagedObject PROVE "stage" \in workload.kinds
                <5>1. staged # None
                    BY <1>1, <1>2, <1>3, <3>3, <4>3 DEF StagedSound, Restaging
                <5> QED
                    BY <5>1, <1>3, Zenon DEF StagedSound
            <4>4. StagedObject /\ "not_default" \in req.flags =>
                     req.flags \cap {"retain", "retain_pending"} = {}
                BY <1>3, <4>2, <4>3, Zenon DEF WorkSound, Careful
            <4> QED
                BY <1>1, <3>1, <4>1, <4>4, SimpleListed, Zenon
        <3> QED
            BY <2>3, <3>2, <3>3
    <2> QED
        BY <1>4, <2>1, <2>2, <2>3
<1>7. Stands /\ Settled /\ root' = root /\ staged' = staged
    <2>1. Stands
        BY <1>1, MemoryStep, Zenon
    <2> QED
        BY <2>1, <1>1 DEF Settled, disks, runstate
<1>8. DiskTypes' /\ Boots' /\ SameView
    BY <1>7, Zenon DEF Stands, SysrootInvariant, Booting
<1>9. Finished(plan') /\ FrontKept(plan') /\ plan' \in Seq(Deployments)
    BY <1>6, Zenon DEF Listed
<1>10. Finished(plan)' /\ FrontKept(plan)'
    <2>1. StagedObject' <=> StagedObject
        BY <1>1, Zenon DEF StagedObject
    <2> QED
        BY <1>1, <1>7, <1>9, <2>1, Zenon DEF Finished, FrontKept
<1>11. Planned'
    BY <1>1, <1>5, <1>10 DEF Planned, Deciding, Dropping
<1>12. Swap'
    <2>1. pc' # "freeze_again"
        BY <1>1
    <2> QED
        BY <1>2, <1>11, <2>1, NotSwapping, Zenon DEF Swap
<1>13. pc \in Writing \cup {"write"} /\ pc \notin {"drop_dir", "drop_lock"}
       /\ pc' \notin {"drop_dir", "drop_lock"}
    BY <1>1
<1> QED
    BY <1>1, <1>2, <1>5, <1>7, <1>8, <1>9, <1>12, <1>13, Busy, Zenon

(* Any selection of the loaded deployments can be written.                 *)
LEMMA KeptListed ==
    ASSUME Counting, SysrootInvariant, pc \notin Out, pc \notin Stale,
           NEW I, I \subseteq DOMAIN self.deployments, NEW p, p = Kept(self.deployments, I)
    PROVE  Listed(p)
<1> DEFINE s == self.deployments
<1>1. /\ s \in Seq(Deployments)
      /\ \A i \in DOMAIN s : /\ s[i].staged <=> StagedObject /\ i = 1
                             /\ ~s[i].staged => s[i].dir \in root.sealed
    BY LoadedList, Zenon
<1>2. I \in SUBSET (1..Len(s)) /\ DOMAIN s = 1..Len(s) /\ Len(s) \in Nat
    BY <1>1
<1>a. p = Kept(s, I) /\ s \in Seq(Deployments)
    BY <1>1
<1> HIDE DEF s
<1>3. /\ Cardinality(I) \in Nat /\ p \in Seq(Deployments) /\ Len(p) = Cardinality(I)
      /\ \A k \in 1..Cardinality(I) : \E i \in I : Rank(I, i) = k /\ p[k] = s[i]
    BY <1>a, <1>2, KeptFacts
<1>4. DOMAIN p = 1..Cardinality(I)
    BY <1>3
<1>5. Finished(p)
    <2>1. ASSUME NEW k \in DOMAIN p PROVE p[k].staged \/ p[k].dir \in root.sealed
        <3>1. PICK i \in I : p[k] = s[i]
            BY <1>3, <1>4, <2>1, Zenon
        <3> QED
            BY <1>1, <1>2, <3>1, Zenon
    <2> QED
        BY <2>1, Zenon DEF Finished
<1>6. FrontKept(p)
    <2> SUFFICES ASSUME StagedObject, p # <<>>, p[1].staged
                 PROVE  /\ \A k \in DOMAIN p : p[k].staged <=> k = 1
                        /\ Len(p) = Len(s) => \A k \in DOMAIN p : p[k].dir = s[k].dir
        BY Zenon DEF FrontKept, s
    <2>1. 1 \in DOMAIN p
        BY <1>3, <1>4
    <2>2. 1 \in I
        <3>1. PICK i \in I : p[1] = s[i]
            BY <1>3, <1>4, <2>1, Zenon
        <3> QED
            BY <1>1, <1>2, <3>1, Zenon
    <2>3. Rank(I, 1) = 1
        BY <1>2, <2>2, RankOne, Zenon
    <2>4. \A k \in DOMAIN p : p[k].staged <=> k = 1
        <3> TAKE k \in DOMAIN p
        <3>1. PICK i \in I : Rank(I, i) = k /\ p[k] = s[i]
            BY <1>3, <1>4, Zenon
        <3>2. s[i].staged <=> i = 1
            BY <1>1, <1>2, <3>1, Zenon
        <3>3. CASE k = 1
            BY <3>3, Zenon
        <3>4. CASE k # 1
            BY <2>3, <3>1, <3>2, <3>4, Zenon
        <3> QED
            BY <3>3, <3>4
    <2>5. ASSUME Len(p) = Len(s) PROVE \A k \in DOMAIN p : p[k].dir = s[k].dir
        <3>1. Cardinality(I) = Len(s)
            BY <1>3, <2>5, Zenon
        <3>2. \A k \in 1..Len(s) : p[k] = s[k]
            BY <1>a, <1>2, <3>1, KeptAll
        <3> QED
            BY <1>4, <3>1, <3>2, Zenon
    <2> QED
        BY <2>4, <2>5, Zenon
<1> QED
    BY <1>3, <1>5, <1>6, Zenon DEF Listed

(* So does the early prune, which writes the deployments in common first.  *)
LEMMA EarlyPruneStep ==
    ASSUME Counting, SysrootInvariant, EarlyPrune
    PROVE  SysrootInvariant' /\ Stands /\ Settled
<1>1. /\ pc = "early" /\ pc' = "retain"
      /\ UNCHANGED <<workload, root, rootDisk, runstate, booted, script, req, self, new>>
      /\ \/ plan' = Common /\ outer' = plan
         \/ UNCHANGED <<plan, outer>>
    BY Zenon DEF EarlyPrune
<1>2. /\ pc \notin Out /\ pc \notin Stale /\ pc \in Writing
      /\ pc' \in Writing /\ pc' \notin Stale /\ pc' \notin Swapping /\ pc' # "freeze_again"
    BY <1>1 DEF Out, Writing, Swapping, Dropping, Deciding, Stale, SubPhases, NewPhases
<1>3. Stands
    BY KernelSteps, Zenon
<1>4. Settled /\ staged' = staged
    BY <1>1 DEF Settled, runstate
<1>5. DiskTypes' /\ Boots' /\ SameView
    BY <1>3, <1>4, Zenon DEF Stands, SysrootInvariant, Booting
<1>6. /\ Planned /\ ListTypes
    BY Zenon DEF SysrootInvariant, Process, Swap
<1>7. plan \in Seq(Deployments) /\ Finished(plan) /\ FrontKept(plan) /\ outer = None
    BY <1>1, <1>2, <1>6 DEF Planned, ListTypes
<1>8. Listed(Common)
    <2> DEFINE I == {i \in DOMAIN self.deployments :
                         Kernel(self.deployments[i].dir) \in KernelsOf(plan)}
    <2>1. I \subseteq DOMAIN self.deployments
        OBVIOUS
    <2>2. Common = Kept(self.deployments, I)
        BY DEF Common
    <2> HIDE DEF I
    <2> QED
        BY <1>2, <2>1, <2>2, KeptListed, Zenon
<1>9. /\ plan' \in Seq(Deployments) /\ Finished(plan') /\ FrontKept(plan')
      /\ outer' # None => outer' \in Seq(Deployments) /\ Finished(outer') /\ FrontKept(outer')
    BY <1>1, <1>7, <1>8, Zenon DEF Listed
<1>10. /\ Finished(plan)' /\ FrontKept(plan)'
       /\ outer' # None => Finished(outer)' /\ FrontKept(outer)'
    <2>1. StagedObject' <=> StagedObject
        BY <1>1, Zenon DEF StagedObject
    <2> QED
        BY <1>1, <1>9, <2>1, Zenon DEF Finished, FrontKept
<1>11. Planned'
    BY <1>1, <1>10 DEF Planned, Deciding, Dropping
<1>12. Swap'
    BY <1>2, <1>11, NotSwapping, Zenon DEF Swap
<1>13. pc \in Writing \cup {"write"} /\ pc \notin {"drop_dir", "drop_lock"}
       /\ pc' \notin {"drop_dir", "drop_lock"}
    BY <1>1, <1>2
<1> QED
    BY <1>1, <1>2, <1>3, <1>4, <1>5, <1>9, <1>12, <1>13, Busy, Zenon

(***************************************************************************)
(* The staged deployment, kept or dropped.                                 *)
(***************************************************************************)

(* So does the step that takes the staged deployment out of the list, kept *)
(* or to be dropped.                                                       *)
LEMMA RetainStep ==
    ASSUME Counting, SysrootInvariant, RetainStaged
    PROVE  SysrootInvariant' /\ Stands /\ Settled
<1> DEFINE I == {i \in DOMAIN plan : ~plan[i].staged}
<1>1. /\ pc = "retain" /\ plan' = Kept(plan, I)
      /\ pc' = IF StagedObject /\ ~StagedRetained THEN "drop_run" ELSE "decide"
      /\ UNCHANGED <<workload, disks, runstate, booted, script, req, self, new, outer>>
    BY Zenon DEF RetainStaged
<1>2. /\ pc \notin Out /\ pc \notin Stale /\ pc \in Writing /\ pc' \in {"drop_run", "decide"}
      /\ pc' = "drop_run" => StagedObject
      /\ pc' = "decide" /\ StagedObject => StagedRetained
    BY <1>1 DEF Out, Writing, Swapping, Dropping, Deciding, Stale, SubPhases, NewPhases
<1>3. pc' \in Writing /\ pc' \notin Stale /\ pc' \notin Swapping /\ pc' # "freeze_again"
    BY <1>2 DEF Out, Writing, Swapping, Dropping, Deciding, Stale, SubPhases, NewPhases
<1>4. Stands /\ Settled /\ root' = root /\ staged' = staged
    <2>1. Stands
        BY <1>1, MemoryStep, Zenon
    <2> QED
        BY <2>1, <1>1 DEF Settled, disks, runstate
<1>5. DiskTypes' /\ Boots' /\ SameView
    BY <1>4, Zenon DEF Stands, SysrootInvariant, Booting
<1>6. /\ Planned /\ ListTypes
    BY Zenon DEF SysrootInvariant, Process, Swap
<1>7. /\ plan \in Seq(Deployments) /\ Finished(plan) /\ FrontKept(plan)
      /\ outer # None => outer \in Seq(Deployments) /\ Finished(outer) /\ FrontKept(outer)
    BY <1>1, <1>2, <1>6 DEF Planned, ListTypes
<1>8. I \in SUBSET (1..Len(plan)) /\ DOMAIN plan = 1..Len(plan) /\ Len(plan) \in Nat
    BY <1>7
<1>9. /\ plan' \in Seq(Deployments)
      /\ \A k \in 1..Len(plan') : \E i \in I : plan'[k] = plan[i]
    <2> HIDE DEF I
    <2>1. plan' \in Seq(Deployments) /\ Among(plan', plan, I)
        BY <1>1, <1>7, <1>8, KeptElements, Zenon
    <2> QED
        BY <2>1, Zenon DEF Among
<1>10. \A k \in DOMAIN plan' : ~plan'[k].staged /\ \E i \in DOMAIN plan : plan'[k] = plan[i]
    <2> TAKE k \in DOMAIN plan'
    <2>1. k \in 1..Len(plan')
        BY <1>9
    <2>2. PICK i \in I : plan'[k] = plan[i]
        BY <1>9, <2>1, Zenon
    <2> QED
        BY <2>2, Zenon
<1>11. Finished(plan')
    BY <1>7, <1>10, Zenon DEF Finished
<1>12. ASSUME pc' = "decide", StagedObject, Len(plan') = Len(self.deployments) - 1
       PROVE  \A i \in DOMAIN plan' : plan'[i].dir = self.deployments[i + 1].dir
    <2>0. self.deployments \in Seq(Deployments)
        BY <1>2, AtWork, Zenon
    <2>1. plan # <<>> /\ plan[1].staged /\ plan[1].same
        BY <1>2, <1>12, Zenon DEF StagedRetained
    <2>2. /\ \A i \in DOMAIN plan : plan[i].staged <=> i = 1
          /\ Len(plan) = Len(self.deployments) =>
               \A i \in DOMAIN plan : plan[i].dir = self.deployments[i].dir
        BY <1>7, <1>12, <2>1, Zenon DEF FrontKept
    <2>3. I = 2..Len(plan) /\ Len(plan) >= 1
        BY <1>7, <1>8, <2>1, <2>2
    <2>4. plan' = Kept(plan, 2..Len(plan))
        BY <1>1, <2>3, Zenon
    <2>5. /\ Len(plan') = Len(plan) - 1
          /\ \A k \in 1..(Len(plan) - 1) : plan'[k] = plan[k + 1]
        BY <1>7, <2>3, <2>4, KeptTail
    <2>6. Len(plan) = Len(self.deployments)
        BY <1>8, <1>12, <2>0, <2>5
    <2>7. \A k \in 1..(Len(plan) - 1) : k + 1 \in DOMAIN plan
        BY <1>8
    <2>8. DOMAIN plan' = 1..(Len(plan) - 1)
        BY <1>9, <2>5
    <2> QED
        BY <2>2, <2>5, <2>6, <2>7, <2>8, Zenon
<1>13. /\ Finished(plan)'
       /\ outer' # None => Finished(outer)' /\ FrontKept(outer)'
       /\ StagedObject' <=> StagedObject
    <2>1. StagedObject' <=> StagedObject
        BY <1>1, Zenon DEF StagedObject
    <2> QED
        BY <1>1, <1>4, <1>7, <1>11, <2>1, Zenon DEF Finished, FrontKept
<1>14. self' = self
    BY <1>1
<1> HIDE DEF I
<1>15. Planned'
    <2>1. /\ pc' \notin {"early", "retain", "decide_dropped"} 
          /\ pc' \in Dropping => pc' = "drop_run"
        BY <1>2 DEF Dropping
    <2>2. pc' = "decide" /\ StagedObject' /\ Len(plan') = Len(self'.deployments) - 1 =>
             \A i \in DOMAIN plan' : plan'[i].dir = self'.deployments[i + 1].dir
        BY <1>12, <1>13, <1>14, Zenon
    <2> QED
        BY <1>2, <1>10, <1>13, <2>1, <2>2 DEF Planned
<1>16. Swap'
    BY <1>3, <1>15, NotSwapping, Zenon DEF Swap
<1>17. /\ pc \in Writing \cup {"write"} /\ pc \notin {"drop_dir", "drop_lock"}
       /\ pc' \notin {"drop_dir", "drop_lock"}
    BY <1>1, <1>2
<1>18. /\ UNCHANGED <<workload, staged, script, req, self>>
       /\ outer' # None => outer' \in Seq(Deployments)
    BY <1>1, <1>4, <1>7
<1> QED
    BY <1>2, <1>3, <1>4, <1>5, <1>9, <1>16, <1>17, <1>18, Busy, Zenon

(* The staged deployment is dropped: the file in /run, the directory, the  *)
(* object.                                                                 *)
LEMMA DropGoesOn ==
    ASSUME SysrootInvariant, Stands, pc \in Dropping, pc' \in {"drop_dir", "drop_lock"},
           staged' = None, UNCHANGED <<workload, memory>>,
           root'.sealed = root.sealed, root'.deploys \subseteq root.deploys
    PROVE  SysrootInvariant' /\ Settled
<1>1. /\ pc \notin Out /\ pc \notin Stale /\ pc \in Writing /\ pc # "freeze_again"
      /\ pc' \notin Out /\ pc' \notin Stale /\ pc' \in Writing /\ pc' \notin Swapping
      /\ pc' # "freeze_again" /\ pc' \notin {"seal", "run", "write", "unlink", "relock", "restage"}
      /\ pc' \in Dropping
    BY DEF Out, Writing, Swapping, Dropping, Deciding, Stale, SubPhases, NewPhases
<1>2. UNCHANGED <<script, req, self, new, plan, outer>>
    BY DEF memory
<1>3. /\ ListTypes /\ StagedSound /\ Scripted /\ Requested /\ Planned /\ WorkSound
    BY Zenon DEF SysrootInvariant, Process, Swap
<1>4. Settled /\ DiskTypes' /\ Boots' /\ SameView
    <2>1. Settled
        BY <1>1, Zenon DEF Settled
    <2> QED
        BY <2>1, Zenon DEF Stands, SysrootInvariant, Booting
<1>5. InSync
    BY <1>1, AtWork, Zenon
<1>6. InSync'
    BY <1>2, <1>4, <1>5, SyncKept, Zenon
<1>7. ListTypes' /\ Knows'
    BY <1>1, <1>2, <1>3, <1>6, Zenon DEF ListTypes, Knows
<1>8. StagedObject' <=> StagedObject
    BY <1>2, Zenon DEF StagedObject
<1>9. StagedSound'
    BY <1>1, <1>2, <1>3, <1>8, Zenon DEF StagedSound
<1>10. Call = "write" /\ Call' = "write"
    BY <1>1 DEF Call, Cleaning, Dropping
<1>11. Scripted' /\ Requested'
    BY <1>1, <1>2, <1>3, <1>10, SameCall, RequestedKept
<1>12. Made'
    BY <1>1, NotMaking
<1>13. Finished(plan)' /\ (outer' # None => Finished(outer)' /\ FrontKept(outer)')
    BY <1>1, <1>2, <1>3, PlanFrame, Zenon DEF Planned
<1>14. Planned'
    <2>1. StagedObject /\ \A i \in DOMAIN plan : ~plan[i].staged
        BY <1>3 DEF Planned
    <2>2. pc' \notin {"early", "retain", "decide_dropped", "decide"}
        OBVIOUS
    <2> QED
        BY <1>2, <1>8, <1>13, <2>1, <2>2, Zenon DEF Planned
<1>15. Swap'
    BY <1>1, <1>14, NotSwapping, Zenon DEF Swap
<1>16. WorkSound'
    BY <1>3, Zenon DEF WorkSound
<1> QED
    BY <1>4, <1>7, <1>9, <1>11, <1>12, <1>15, <1>16, Zenon DEF SysrootInvariant, Booting, Process

(* So does dropping the staged deployment: first the file in /run, then    *)
(* the directory,                                                          *)
LEMMA DropSteps ==
    ASSUME SysrootInvariant, DropStagedState \/ DropStagedDir
    PROVE  SysrootInvariant' /\ Stands /\ Settled
<1>1. CASE DropStagedState
    <2>1. /\ pc = "drop_run" /\ pc' = "drop_dir" /\ staged' = None
          /\ UNCHANGED <<workload, disks, booted, memory>>
        BY <1>1, Zenon DEF DropStagedState
    <2>2. Stands
        BY <2>1, MemoryStep, Zenon
    <2>3. pc \in Dropping /\ root' = root /\ pc' \in {"drop_dir", "drop_lock"}
          /\ root'.deploys \subseteq root.deploys
        BY <2>1 DEF Dropping, disks
    <2> QED
        BY <2>1, <2>2, <2>3, DropGoesOn, Zenon
<1>2. CASE DropStagedDir
    <2>1. /\ pc = "drop_dir" /\ pc' = "drop_lock"
          /\ UNCHANGED <<workload, runstate, booted, memory>>
        BY <1>2, Zenon DEF DropStagedDir
    <2>2. /\ Stands /\ root'.deploys = root.deploys \ {self.deployments[1].dir}
          /\ root'.sealed = root.sealed
        BY <1>2, RemoveSteps, Zenon
    <2>3. staged = None
        BY <2>1 DEF SysrootInvariant, Process, StagedSound
    <2>4. pc \in Dropping /\ staged' = None /\ pc' \in {"drop_dir", "drop_lock"}
          /\ root'.deploys \subseteq root.deploys
        BY <2>1, <2>2, <2>3 DEF Dropping, runstate
    <2> QED
        BY <2>1, <2>2, <2>4, DropGoesOn, Zenon
<1> QED
    BY <1>1, <1>2

(* A write goes on with a list that was loaded or cut.                     *)
LEMMA BusyStraight ==
    ASSUME SysrootInvariant, pc \in Writing, pc' \in {"retain", "decide_dropped"},
           UNCHANGED <<workload, staged, script, req>>, DiskTypes', Boots', InSync', Straight',
           self'.deployments \in Seq(Deployments),
           DOMAIN self' = {"bootversion", "subbootversion", "deployments"},
           root'.deploys \subseteq root.deploys, root'.sealed = root.sealed,
           staged # None => staged.dir \in root'.deploys,
           plan' \in Seq(Deployments), outer' # None => outer' \in Seq(Deployments),
           Planned'
    PROVE  SysrootInvariant'
<1>1. /\ pc \notin Out /\ pc' \notin Out /\ pc' \in Writing /\ pc' # "freeze_again"
      /\ pc' \notin {"restage", "untouch", "reload", "seal", "write", "run", "unlink", "relock"}
      /\ pc' \notin {"drop_dir", "drop_lock", "restage"} /\ pc' \notin Swapping
    BY DEF Out, Writing, Swapping, Dropping, Deciding, Stale, SubPhases, NewPhases
<1>2. Call = "write" /\ Call' = "write"
    BY <1>1 DEF Call, Cleaning, Writing, Swapping, Dropping, Deciding, Stale, SubPhases, NewPhases
<1>3. /\ ListTypes /\ StagedSound /\ Scripted /\ Requested /\ WorkSound
    BY Zenon DEF SysrootInvariant, Process
<1>4. ListTypes' /\ Knows'
    BY <1>1, <1>3, Zenon DEF ListTypes, Knows
<1>5. ~Restaging'
    BY <1>1 DEF Restaging
<1>6. StagedSound'
    <2>1. /\ staged' # None => staged'.dir \in root'.deploys \ root'.sealed
          /\ "stage" \notin workload'.kinds => staged' = None
        BY <1>3 DEF StagedSound
    <2> QED
        BY <1>1, <1>5, <2>1, StraightSound, Zenon
<1>7. Scripted' /\ Requested'
    BY <1>1, <1>2, <1>3, SameCall, RequestedKept
<1>8. Made'
    BY <1>1, NotMaking
<1>9. Swap'
    BY <1>1, NotSwapping, Zenon DEF Swap
<1>10. WorkSound'
    BY <1>3, Zenon DEF WorkSound
<1> QED
    BY <1>4, <1>6, <1>7, <1>8, <1>9, <1>10, Zenon DEF SysrootInvariant, Booting, Process

(* ... then the lock and the loaded object.                                *)
LEMMA DropLockStep ==
    ASSUME SysrootInvariant, DropStagedLock
    PROVE  SysrootInvariant' /\ Stands /\ Settled
<1>1. /\ pc = "drop_lock" /\ self' = [self EXCEPT !.deployments = Tail(@)]
      /\ pc' = "decide_dropped"
      /\ UNCHANGED <<workload, disks, staged, booted, script, req, new, plan, outer>>
    BY Zenon DEF DropStagedLock
<1>2. pc \in Writing /\ pc \notin Out /\ pc \notin Stale /\ pc \in Dropping
    BY <1>1 DEF Out, Writing, Swapping, Dropping, Deciding, Stale, SubPhases, NewPhases
<1>3. Stands /\ Settled /\ root' = root
    <2>1. Stands
        BY <1>1, MemoryStep, Zenon
    <2> QED
        BY <2>1, <1>1 DEF Settled, disks
<1>4. /\ DiskTypes /\ Boots /\ InSync /\ self.deployments \in Seq(Deployments)
      /\ DOMAIN self = {"bootversion", "subbootversion", "deployments"}
    BY <1>2, AtWork, Zenon
<1>5. DiskTypes' /\ Boots' /\ SameView
    BY <1>3, <1>4, Zenon DEF Stands
<1>6. Planned /\ ListTypes /\ StagedSound
    BY Zenon DEF SysrootInvariant, Process, Swap
<1>7. /\ StagedObject /\ staged = None /\ \A i \in DOMAIN plan : ~plan[i].staged
      /\ Finished(plan) /\ (outer # None => Finished(outer) /\ outer \in Seq(Deployments))
      /\ plan \in Seq(Deployments)
    BY <1>1, <1>2, <1>6 DEF Planned, StagedSound, ListTypes
<1>8. /\ InSync' /\ ~StagedObject' /\ self'.deployments \in Seq(Deployments)
      /\ DOMAIN self' = {"bootversion", "subbootversion", "deployments"}
    BY <1>1, <1>4, <1>5, <1>7, TailSync, Zenon
<1>9. Straight'
    BY <1>1, <1>7, <1>8, Zenon DEF Straight
<1>10. Finished(plan)' /\ (outer' # None => Finished(outer)' /\ FrontKept(outer)')
    BY <1>1, <1>3, <1>7, <1>8, Zenon DEF Finished, FrontKept
<1>11. Planned'
    BY <1>1, <1>7, <1>8, <1>10 DEF Planned, Dropping
<1>12. pc' \in {"retain", "decide_dropped"} /\ root'.deploys \subseteq root.deploys
    BY <1>1, <1>3
<1> QED
    BY <1>1, <1>2, <1>3, <1>5, <1>7, <1>8, <1>9, <1>11, <1>12, BusyStraight, Zenon

(* A write that returns, or fails.                                         *)
LEMMA LoadKernels ==
    ASSUME DiskTypes, Boots, staged # None => IsStaged(staged),
           NEW L, L = Load(root, boot, staged)
    PROVE  \A i \in DOMAIN InUse(boot) :
              InUse(boot)[i].key[1] \in boot.kernels \cap KernelsOf(L.deployments)
<1> DEFINE sh == IF staged = None THEN 0 ELSE 1
           s == L.deployments
<1>1. IsRoot(root) /\ IsBoot(boot) /\ Good(root, boot)
    BY Zenon DEF DiskTypes, Boots
<1>2. /\ s \in Seq(Deployments) /\ Len(s) = sh + Len(InUse(boot))
      /\ \A i \in DOMAIN InUse(boot) :
            s[sh + i] = [dir |-> Offered(root, boot)[i].dir, kargs |-> InUse(boot)[i].kargs,
                         staged |-> FALSE, same |-> TRUE]
    BY <1>1, LoadFacts
<1>3. InUse(boot) \in Seq(BootConfigs)
    <2>1. boot.entries \in [Versions -> Seq(BootConfigs)] /\ boot.loader \in Versions
        BY <1>1, Zenon DEF IsBoot
    <2> QED
        BY <2>1, Zenon DEF InUse
<1>4. \A i \in DOMAIN InUse(boot) : sh + i \in DOMAIN s
    <2>1. sh \in {0, 1}
        OBVIOUS
    <2> HIDE DEF sh, s
    <2> QED
        BY <1>2, <1>3, <2>1
<1> HIDE DEF sh, s
<1>a. \A i \in DOMAIN InUse(boot) : InUse(boot)[i].key[1] = Kernel(Offered(root, boot)[i].dir)
    <2>1. Good(root, boot)
        BY <1>1
    <2> QED
        BY <2>1, GoodDirs
<1> TAKE i \in DOMAIN InUse(boot)
<1>5. InUse(boot)[i].key[1] = Kernel(Offered(root, boot)[i].dir)
    BY <1>a, Zenon
<1>6. InUse(boot)[i].key[1] \in boot.kernels
    BY <1>1, Zenon DEF Good
<1>7. s[sh + i].dir = Offered(root, boot)[i].dir
    <2> DEFINE d == s[sh + i]
    <2>1. d = [dir |-> Offered(root, boot)[i].dir, kargs |-> InUse(boot)[i].kargs,
               staged |-> FALSE, same |-> TRUE]
        BY <1>2, Zenon
    <2> HIDE DEF d
    <2>2. d.dir = Offered(root, boot)[i].dir
        BY <2>1
    <2> QED
        BY <2>2 DEF d
<1>8. InUse(boot)[i].key[1] \in KernelsOf(s)
    BY <1>4, <1>5, <1>7, Zenon DEF KernelsOf
<1> QED
    BY <1>6, <1>8 DEF s

(***************************************************************************)
(* The end of a write.                                                     *)
(***************************************************************************)

(* The script after a write, whose cleanup a no-op may leave out.          *)
LEMMA WriteReturns ==
    ASSUME SysrootInvariant, pc \in Writing, outer = None, UNCHANGED <<workload, req>>, NEW rest,
           Continue(rest), rest = script \/ (Postclean /\ rest = SubSeq(script, 3, Len(script)))
    PROVE  pc' \in {"clean", "exit"} /\ Scripted'
<1>1. /\ pc \notin Out /\ pc # "exit" /\ Call = "write"
    BY DEF Out, Writing, Swapping, Dropping, Deciding, Stale, SubPhases, NewPhases, Call, Cleaning
<1>2. Scripted
    BY Zenon DEF SysrootInvariant, Process
<1>3. CASE rest = script
    <2>1. Then(req.kind, "write", pc') /\ Scripted'
        BY <1>1, <1>2, <1>3, ContinueStep, Zenon
    <2> QED
        BY <2>1 DEF Then
<1>4. CASE Postclean /\ rest = SubSeq(script, 3, Len(script))
    <2>1. req.kind \in {"select", "set_kargs"}
        BY <1>4, Zenon DEF Postclean
    <2>2. /\ Len(script) = 3 /\ script[3] = "exit" /\ req.kind \in workload.kinds
          /\ Follows(req.kind, "write", script)
        BY <1>1, <1>2, <2>1, Zenon DEF Scripted
    <2>3. script \in Seq(Calls)
        BY <2>2, Zenon DEF Follows
    <2>4. rest = SubSeq(script, 3, 3)
        BY <1>4, <2>2, Zenon
    <2>5. Head(rest) = "exit" /\ Tail(rest) = <<>>
        BY <2>2, <2>3, <2>4
    <2>6. pc' = "exit" /\ script' = <<>>
        BY <2>5, Zenon DEF Continue
    <2>7. Call' = "exit"
        BY <2>6 DEF Call, Cleaning, Writing, Swapping, Dropping, Deciding, Stale, SubPhases, NewPhases
    <2>8. Follows(req.kind, "exit", <<>>)
        BY DEF Follows
    <2>9. Scripted'
        BY <2>2, <2>6, <2>7, <2>8 DEF Scripted
    <2> QED
        BY <2>6, <2>9
<1> QED
    BY <1>3, <1>4

(* The list of the call that pruned first, whose objects are old ones.     *)
Aged(s, same) == [i \in DOMAIN s |-> [s[i] EXCEPT !.same = @ /\ same]]

(* The lists have the same length and deployments, and the same ones are   *)
(* staged.                                                                 *)
SameList(p, s, same) ==
    /\ p \in Seq(Deployments) /\ DOMAIN p = DOMAIN s /\ Len(p) = Len(s)
    /\ \A i \in DOMAIN p : /\ p[i].dir = s[i].dir /\ (p[i].staged <=> s[i].staged)
                           /\ p[i].same <=> (s[i].same /\ same)

(* The list of the outer call may be written after the early prune.        *)
LEMMA OuterPlan ==
    ASSUME NEW s \in Seq(Deployments), NEW same \in BOOLEAN
    PROVE  SameList(Aged(s, same), s, same)
<1> DEFINE p == Aged(s, same)
<1>1. \A i \in DOMAIN s : s[i] \in Deployments
    OBVIOUS
<1>3. DOMAIN p = DOMAIN s /\ \A i \in DOMAIN s : p[i] = [s[i] EXCEPT !.same = @ /\ same]
    BY Zenon DEF Aged
<1>4. DOMAIN s = 1..Len(s) /\ Len(s) \in Nat
    OBVIOUS
<1> HIDE DEF p
<1>5. ASSUME NEW i \in DOMAIN s
      PROVE  /\ p[i] \in Deployments /\ p[i].dir = s[i].dir
             /\ (p[i].staged <=> s[i].staged) /\ (p[i].same <=> (s[i].same /\ same))
    <2> DEFINE d == s[i]
               e == p[i]
    <2>1. d \in Deployments /\ e = [d EXCEPT !.same = @ /\ same]
        BY <1>1, <1>3, <1>5, Zenon
    <2> HIDE DEF d, e
    <2>2. /\ e \in Deployments /\ e.dir = d.dir
          /\ (e.staged <=> d.staged) /\ (e.same <=> (d.same /\ same))
        BY <2>1 DEF Deployments
    <2> QED
        BY <2>2 DEF d, e
<1>6. p \in [1..Len(s) -> Deployments]
    <2>1. p = [i \in DOMAIN s |-> p[i]]
        BY DEF p, Aged
    <2> QED
        BY <2>1, <1>3, <1>4, <1>5, Zenon
<1>7. p \in Seq(Deployments)
    BY <1>4, <1>6, IsList, Zenon
<1>8. Len(p) = Len(s)
    BY <1>3, <1>4, <1>7
<1>9. SameList(p, s, same)
    BY <1>3, <1>5, <1>7, <1>8, Zenon DEF SameList
<1> QED
    BY <1>9 DEF p

(* A write that returns, to its command or to the call it pruned for,      *)
(* keeps the invariant.                                                    *)
LEMMA ReturnStep ==
    ASSUME SysrootInvariant, pc \in Deciding \cup {"finish"}, NEW rest, Return(rest),
           rest = script \/ (Postclean /\ rest = SubSeq(script, 3, Len(script))),
           \/ self' = Load(root, boot, staged) /\ pc # "decide"
           \/ self' = self /\ pc = "decide",
           UNCHANGED <<workload, root, rootDisk, runstate, booted, req>>
    PROVE  SysrootInvariant' /\ Stands /\ Settled
<1>1. /\ pc \notin Out /\ pc \in Writing /\ pc # "freeze_again" /\ Settled
      /\ pc = "decide" => pc \notin Stale
    BY DEF Out, Writing, Swapping, Dropping, Deciding, Stale, SubPhases, NewPhases, Settled
<1>2. /\ DiskTypes /\ Boots /\ ListTypes /\ StagedSound /\ Scripted /\ Requested /\ Planned /\ WorkSound
    BY Zenon DEF SysrootInvariant, Booting, Process, Swap
<1>3. /\ staged # None => IsStaged(staged) /\ staged.dir \in root.deploys \ root.sealed
      /\ "stage" \notin workload.kinds => staged = None
      /\ staged' = staged /\ root' = root
    <2>1. UNCHANGED <<staged, root>>
        BY DEF runstate
    <2> QED
        BY <1>2, <2>1, Zenon DEF ListTypes, StagedSound
<1>4. /\ Finished(plan) /\ plan \in Seq(Deployments)
      /\ outer # None => outer \in Seq(Deployments) /\ Finished(outer) /\ FrontKept(outer)
    BY <1>1, <1>2, Zenon DEF Planned, ListTypes
<1>5. ASSUME SameView
      PROVE  /\ InSync' /\ Straight' /\ self'.deployments \in Seq(Deployments)
             /\ DOMAIN self' = {"bootversion", "subbootversion", "deployments"}
    <2>1. CASE self' = Load(root, boot, staged)
        BY <1>2, <1>3, <1>5, <2>1, LoadSync, Zenon
    <2>2. CASE self' = self /\ pc = "decide"
        <3>1. /\ InSync /\ self.deployments \in Seq(Deployments)
              /\ DOMAIN self = {"bootversion", "subbootversion", "deployments"}
            BY <1>1, <2>2, AtWork, Zenon
        <3>2. InSync'
            BY <1>5, <2>2, <3>1, SyncKept, Zenon
        <3>3. ~Restaging /\ pc \notin {"drop_dir", "drop_lock"}
              /\ ~(req.kind = "finalize" /\ pc = "seal")
            BY <2>2 DEF Restaging
        <3>4. Straight
            BY <1>1, <1>2, <3>3, StraightNow, Zenon
        <3>5. Straight'
            BY <1>3, <2>2, <3>4, Zenon DEF Straight, StagedObject
        <3> QED
            BY <2>2, <3>1, <3>2, <3>5, Zenon
    <2> QED
        BY <2>1, <2>2, Zenon
<1>6. CASE outer = None
    <2>1. Continue(rest) /\ UNCHANGED <<boot, bootDisk, plan, outer>>
        BY <1>6, Zenon DEF Return
    <2>2. Stands
        BY <2>1, MemoryStep, Zenon DEF disks
    <2>3. DiskTypes' /\ Boots' /\ SameView
        BY <1>1, <1>2, <2>2, Zenon DEF Stands
    <2>4. pc' \in {"clean", "exit"} /\ Scripted'
        BY <1>1, <1>6, <2>1, WriteReturns, Zenon
    <2>5. /\ pc' \notin Out /\ pc' \notin Writing /\ ~Restaging' /\ pc' # "write"
          /\ pc' \notin {"drop_dir", "drop_lock", "restage"}
          /\ pc' \notin {"seal", "run", "write", "unlink", "relock"}
        BY <2>4 DEF Out, Writing, Swapping, Dropping, Deciding, Stale, SubPhases, NewPhases, Restaging
    <2>6. Requested' /\ Made' /\ Swap'
        BY <1>1, <1>2, <1>6, <2>1, <2>5, RequestedKept, NotMaking, NotWriting
    <2>7. StagedSound'
        BY <1>3, <1>5, <2>3, <2>5, StraightSound, Zenon
    <2>8. UNCHANGED workload
        OBVIOUS
    <2> QED
        BY <1>1, <1>3, <1>5, <2>2, <2>3, <2>4, <2>5, <2>6, <2>7, <2>8, WorkStep, Zenon
<1>7. CASE outer # None
    <2> DEFINE x == boot.kernels \cap KernelsOf(self'.deployments)
    <2>1. /\ WriteBoot([boot EXCEPT !.kernels = x])
          /\ plan' = [i \in DOMAIN outer |-> [outer[i] EXCEPT !.same = @ /\ pc = "decide"]]
          /\ outer' = None /\ pc' = "retain" /\ UNCHANGED script
        BY <1>7 DEF Return
    <2>2. \A i \in DOMAIN InUse(boot) : InUse(boot)[i].key[1] \in x
        <3>1. CASE self' = Load(root, boot, staged)
            BY <1>2, <1>3, <3>1, LoadKernels, Zenon
        <3>2. CASE self' = self /\ pc = "decide"
            <4>1. \A i \in DOMAIN InUse(boot) : InUse(boot)[i].key[1] \in ActiveKernels
                BY <1>1, <3>2, AtWork, Zenon
            <4> QED
                BY <3>2, <4>1, Zenon DEF ActiveKernels
        <3> QED
            BY <3>1, <3>2, Zenon
    <2> HIDE DEF x
    <2>3. Stands
        BY <1>2, <2>1, <2>2, KernelStep, Zenon
    <2>4. DiskTypes' /\ Boots' /\ SameView
        BY <1>1, <1>2, <2>3, Zenon DEF Stands
    <2>5. /\ plan' \in Seq(Deployments) /\ DOMAIN plan' = DOMAIN outer /\ Len(plan') = Len(outer)
          /\ \A i \in DOMAIN plan' : /\ plan'[i].dir = outer[i].dir
                                     /\ (plan'[i].staged <=> outer[i].staged)
                                     /\ plan'[i].same <=> (outer[i].same /\ pc = "decide")
        <3> DEFINE same == pc = "decide"
        <3>1. same \in BOOLEAN /\ outer \in Seq(Deployments)
              /\ plan' = Aged(outer, same)
            BY <1>4, <1>7, <2>1 DEF Aged
        <3> HIDE DEF same
        <3>2. SameList(plan', outer, same)
            BY <3>1, OuterPlan, Zenon
        <3> QED
            BY <3>2 DEF same, SameList
    <2>6. Finished(plan)'
        BY <1>3, <1>4, <1>7, <2>5, Zenon DEF Finished
    <2>7. FrontKept(plan)'
        <3>1. CASE pc # "decide"
            <4>1. plan' # <<>> => 1 \in DOMAIN plan'
                BY <2>5
            <4> QED
                BY <2>5, <3>1, <4>1, Zenon DEF FrontKept
        <3>2. CASE pc = "decide"
            <4>1. self' = self
                BY <3>2
            <4>2. StagedObject' <=> StagedObject
                BY <4>1, Zenon DEF StagedObject
            <4>3. plan' # <<>> => 1 \in DOMAIN plan' /\ outer # <<>>
                BY <2>5, <1>4, <1>7
            <4> QED
                BY <1>4, <1>7, <2>5, <3>2, <4>1, <4>2, <4>3, Zenon DEF FrontKept
        <3> QED
            BY <3>1, <3>2
    <2>8. Planned'
        BY <2>1, <2>6, <2>7 DEF Planned, Deciding, Dropping
    <2>9. /\ InSync' /\ Straight' /\ self'.deployments \in Seq(Deployments)
          /\ DOMAIN self' = {"bootversion", "subbootversion", "deployments"}
        BY <1>5, <2>4, Zenon
    <2>10. /\ pc' \in {"retain", "decide_dropped"} /\ root'.deploys \subseteq root.deploys
           /\ root'.sealed = root.sealed /\ (staged # None => staged.dir \in root'.deploys)
        BY <1>3, <2>1
    <2> QED
        BY <1>1, <1>3, <2>1, <2>3, <2>4, <2>5, <2>8, <2>9, <2>10, BusyStraight, Zenon
<1> QED
    BY <1>6, <1>7

(* So it is for a write with nothing to do, one that is done and one that  *)
(* is refused.                                                             *)
LEMMA NoopFinishSteps ==
    ASSUME SysrootInvariant, Noop \/ Finish \/ Refuse
    PROVE  SysrootInvariant' /\ Stands /\ Settled
<1>1. CASE Noop
    <2> DEFINE rest == IF Postclean THEN SubSeq(script, 3, Len(script)) ELSE script
    <2>1. /\ pc \in {"decide", "decide_dropped"} /\ Return(rest)
          /\ self' = IF pc = "decide_dropped" THEN Load(root, boot, staged) ELSE self
          /\ UNCHANGED <<workload, root, rootDisk, runstate, booted, req>>
        BY <1>1, Zenon DEF Noop
    <2>2. rest = script \/ (Postclean /\ rest = SubSeq(script, 3, Len(script)))
        BY Zenon
    <2> HIDE DEF rest
    <2>3. /\ pc \in Deciding \cup {"finish"}
          /\ \/ self' = Load(root, boot, staged) /\ pc # "decide"
             \/ self' = self /\ pc = "decide"
        BY <2>1 DEF Deciding
    <2> QED
        BY <2>1, <2>2, <2>3, ReturnStep, Zenon
<1>2. CASE Finish
    <2>1. /\ pc = "finish" /\ Return(script) /\ self' = Load(root, boot, staged)
          /\ UNCHANGED <<workload, root, rootDisk, runstate, booted, req>>
        BY <1>2, Zenon DEF Finish
    <2>2. pc \in Deciding \cup {"finish"} /\ pc # "decide"
        BY <2>1
    <2> QED
        BY <2>1, <2>2, ReturnStep, Zenon
<1>3. CASE Refuse
    BY <1>3, FailStep, Zenon DEF Refuse
<1> QED
    BY <1>1, <1>2, <1>3

(***************************************************************************)
(* Swapping the boot configuration.                                        *)
(***************************************************************************)

(* A step of the swap leaves the memory of the process alone.              *)
LEMMA SwapGoesOn ==
    ASSUME SysrootInvariant, pc \in Swapping \cup Stale \cup Deciding, pc' \in Swapping \cup Stale,
           UNCHANGED <<workload, runstate, memory>>,
           DiskTypes', Boots', pc' \in Stale \/ (pc \notin Stale /\ SameView),
           root'.deploys = root.deploys, root'.sealed = root.sealed,
           Swapped', Linked'
    PROVE  SysrootInvariant'
<1>1. /\ pc \in Writing /\ pc' \in Writing
      /\ pc \notin {"drop_dir", "drop_lock"} /\ pc' \notin {"drop_dir", "drop_lock"}
      /\ pc' \notin {"early", "retain"} /\ pc' \notin Deciding /\ pc' \notin Dropping
    BY DEF Writing, Swapping, Dropping, Deciding, Stale, SubPhases, NewPhases
<1>2. UNCHANGED <<staged, script, req, self, plan, outer>>
    BY DEF runstate, memory
<1>3. Planned /\ ListTypes
    BY Zenon DEF SysrootInvariant, Process, Swap
<1>4. /\ plan \in Seq(Deployments) /\ (outer # None => outer \in Seq(Deployments))
      /\ Finished(plan) /\ (outer # None => Finished(outer) /\ FrontKept(outer))
    BY <1>1, <1>3, Zenon DEF Planned, ListTypes
<1>5. root'.deploys \subseteq root.deploys
    OBVIOUS
<1>6. Finished(plan)' /\ (outer' # None => Finished(outer)' /\ FrontKept(outer)')
    BY <1>2, <1>4, <1>5, PlanFrame, Zenon
<1>7. Planned'
    <2>1. pc' # "early" /\ pc' # "decide_dropped" /\ pc' # "decide"
        BY <1>1 DEF Deciding
    <2> QED
        BY <1>1, <1>6, <2>1, Zenon DEF Planned
<1>8. Swap'
    BY <1>7, Zenon DEF Swap
<1>9. pc \in Writing \cup {"write"}
    BY <1>1
<1> QED
    BY <1>1, <1>2, <1>4, <1>8, <1>9, Busy, Zenon

(* What is swapped in when only the links are.                             *)
LEMMA LinksOnly ==
    ASSUME SysrootInvariant, pc \in Deciding, ~RequiresNewBootversion
    PROVE  /\ Len(plan) = Len(InUse(boot))
           /\ \A i \in DOMAIN plan : Key(plan, i) = InUse(boot)[i].key
<1> DEFINE s == self.deployments
           n == Len(InUse(boot))
<1>1. pc \notin Out /\ pc \notin Stale /\ pc \in Writing
    BY DEF Out, Writing, Deciding, Stale
<1>2. /\ DiskTypes /\ Boots /\ InSync /\ s \in Seq(Deployments) /\ n \in Nat
      /\ DOMAIN InUse(boot) = 1..n /\ Shift \in {0, 1}
    BY <1>1, AtWork, Zenon
<1>3. Planned /\ plan \in Seq(Deployments)
    BY <1>1, Zenon DEF SysrootInvariant, Process, Swap, ListTypes
<1>4. /\ Len(s) = Shift + n
      /\ \A i \in 1..n : s[Shift + i].dir = Offered(root, boot)[i].dir /\ ~s[Shift + i].staged
    BY <1>2, Zenon DEF InSync
<1>5. /\ Len(plan) = Len(s) - Shift
      /\ \A i \in DOMAIN plan : s[i].staged \/ Kernel(s[i].dir) = Kernel(plan[i].dir)
    BY Zenon DEF RequiresNewBootversion, Compared, SameConfig, Shift
<1>6. Len(plan) = n /\ DOMAIN plan = 1..n
    <2> HIDE DEF n
    <2> QED
        BY <1>2, <1>3, <1>4, <1>5
<1>7. ASSUME NEW j \in 1..n PROVE Kernel(plan[j].dir) = Kernel(Offered(root, boot)[j].dir)
    <2>1. CASE ~StagedObject
        <3>1. Shift = 0 /\ 0 + j = j
            BY <2>1, <1>2, <1>7 DEF Shift
        <3>2. s[j].dir = Offered(root, boot)[j].dir /\ ~s[j].staged
            BY <1>4, <1>7, <3>1, Zenon
        <3> QED
            BY <1>5, <1>6, <1>7, <3>2, Zenon
    <2>2. CASE StagedObject
        <3>1. Shift = 1 /\ 1 + j = j + 1
            BY <2>2, <1>2, <1>7 DEF Shift
        <3>2. pc = "decide" /\ Len(plan) = Len(s) - 1
            BY <2>2, <1>3, <1>5, <3>1 DEF Planned, Deciding
        <3>3. plan[j].dir = s[j + 1].dir
            BY <1>3, <1>6, <1>7, <2>2, <3>2, Zenon DEF Planned
        <3>4. s[j + 1].dir = Offered(root, boot)[j].dir
            BY <1>4, <1>7, <3>1, Zenon
        <3> QED
            BY <3>3, <3>4, Zenon
    <2> QED
        BY <2>1, <2>2
<1>8. Good(root, boot)
    BY <1>2, Zenon DEF DiskTypes, Boots
<1>9. ASSUME NEW i \in DOMAIN plan PROVE Key(plan, i) = InUse(boot)[i].key
    <2>1. i \in DOMAIN InUse(boot)
        BY <1>2, <1>6, <1>9, Zenon
    <2>2. InUse(boot)[i].key = Key(Offered(root, boot), i)
        BY <1>8, <2>1, Zenon DEF Good
    <2>3. i \in Nat /\ i >= 1 /\ \A j \in 1..i : j \in 1..n
        <3> HIDE DEF n
        <3> QED
            BY <1>2, <1>6, <1>9
    <2>4. \A j \in 1..i : Kernel(plan[j].dir) = Kernel(Offered(root, boot)[j].dir)
        BY <1>7, <2>3, Zenon
    <2>5. Key(plan, i) = Key(Offered(root, boot), i)
        BY <2>3, <2>4, SameKey, Zenon
    <2> QED
        BY <2>2, <2>5, Zenon
<1> QED
    BY <1>6, <1>9

(* The choice between new links and a new bootversion keeps the invariant. *)
LEMMA DecideStep ==
    ASSUME SysrootInvariant, Decide
    PROVE  SysrootInvariant' /\ Stands /\ Settled
<1>1. /\ pc \in Deciding /\ Writable
      /\ pc' = IF RequiresNewBootversion THEN "entries" ELSE "sub_clear"
      /\ UNCHANGED <<workload, disks, runstate, booted, memory>>
    BY DEF Decide, Deciding
<1>2. /\ pc \notin Stale /\ pc \in Writing /\ pc # "freeze_again" /\ pc' \in {"entries", "sub_clear"}
      /\ pc \in Swapping \cup Stale \cup Deciding /\ pc' \in Swapping \cup Stale
    BY <1>1 DEF Writing, Deciding, Stale, Swapping, SubPhases
<1>3. Stands /\ Settled /\ UNCHANGED <<root, boot, booted, plan>>
    <2>1. Stands
        BY <1>1, MemoryStep, Zenon
    <2> QED
        BY <2>1, <1>1, <1>2 DEF Settled, disks, memory
<1>4. DiskTypes' /\ Boots' /\ SameView
    BY <1>3, Zenon DEF Stands, SysrootInvariant, Booting
<1>5. booted \in DirsOf(plan) /\ DirsOf(plan) \subseteq root.sealed
    <2>1. Finished(plan) /\ \A i \in DOMAIN plan : ~plan[i].staged
        BY <1>1, <1>2 DEF SysrootInvariant, Swap, Planned
    <2> QED
        BY <1>1, <2>1, Zenon DEF Writable, DirsOf, Finished
<1>6. pc' = "sub_clear" => /\ Len(plan) = Len(InUse(boot))
                           /\ \A i \in DOMAIN plan : Key(plan, i) = InUse(boot)[i].key
    BY <1>1, LinksOnly
<1>7. Swapped'
    <2>1. /\ pc' \notin NewPhases /\ pc' # "install" /\ pc' \notin {"install"} \cup NewPhases
          /\ pc' \notin {"sync_new", "freeze_new", "swap"} /\ pc' \in SubPhases => pc' = "sub_clear"
        BY <1>2 DEF NewPhases, SubPhases
    <2> QED
        BY <1>2, <1>3, <1>5, <1>6, <2>1, Zenon DEF Swapped
<1>8. Linked'
    BY <1>2 DEF Linked
<1> QED
    BY <1>1, <1>2, <1>3, <1>4, <1>7, <1>8, SwapGoesOn, Zenon

(* Steps of the swap that leave what the loader offers alone.              *)
LEMMA SwapStands ==
    ASSUME SysrootInvariant, pc \in Swapping, pc' \in Swapping, Stands,
           UNCHANGED <<workload, runstate, memory>>,
           root'.deploys = root.deploys, root'.sealed = root.sealed,
           Swapped', Linked'
    PROVE  SysrootInvariant' /\ Settled
<1>1. pc \notin Stale /\ pc # "freeze_again" /\ pc \in Swapping \cup Stale \cup Deciding /\ pc' \in Swapping \cup Stale
    BY DEF Swapping, SubPhases, NewPhases, Stale
<1>2. Settled
    BY <1>1 DEF Settled
<1>3. DiskTypes' /\ Boots' /\ SameView
    BY <1>2, Zenon DEF Stands, SysrootInvariant, Booting
<1> QED
    BY <1>1, <1>2, <1>3, SwapGoesOn, Zenon

(* What is being swapped in stays while only links are written,            *)
LEMMA SubSwapped ==
    ASSUME Swapped, pc \in SubPhases, pc' \in SubPhases,
           UNCHANGED <<boot, booted, plan>>, root'.sealed = root.sealed
    PROVE  Swapped'
<1>1. /\ pc \in Swapping /\ pc' \in Swapping /\ pc' \notin NewPhases /\ pc' # "install"
      /\ pc' \notin {"install"} \cup NewPhases /\ pc' \notin {"sync_new", "freeze_new", "swap"}
    BY DEF Swapping, SubPhases, NewPhases
<1> QED
    BY <1>1, Zenon DEF Swapped

(* ... and while the new bootversion is prepared.                          *)
LEMMA NewSwapped ==
    ASSUME Swapped, pc \in NewPhases, pc' \in NewPhases, UNCHANGED <<booted, plan>>,
           boot'.loader = boot.loader, boot'.entries = boot.entries, boot'.kernels = boot.kernels,
           pc' \in {"sync_new", "freeze_new", "swap"} => boot'.tmp = 1 - boot.loader,
           root'.sealed = root.sealed
    PROVE  Swapped'
<1>1. /\ pc \in Swapping /\ pc' \in Swapping /\ pc' \notin SubPhases /\ pc' # "install"
      /\ pc \in {"install"} \cup NewPhases
    BY DEF Swapping, SubPhases, NewPhases
<1> QED
    BY <1>1, Zenon DEF Swapped

(* create_new_bootlinks keeps the invariant,                               *)
LEMMA LinksStep ==
    ASSUME SysrootInvariant, ClearLinks \/ CreateLinks
    PROVE  SysrootInvariant' /\ Stands /\ Settled
<1>1. /\ Stands /\ root'.link = root.link
      /\ root'.deploys = root.deploys /\ root'.sealed = root.sealed
      /\ CreateLinks => root'.farm[target][1 - Subversion(root, target)] = Farm(plan)
    BY LinkSteps, Zenon
<1>2. /\ \/ pc = "sub_clear" /\ pc' = "sub_links"
         \/ pc = "new_clear" /\ pc' = "new_links"
         \/ CreateLinks /\ pc = "sub_links" /\ pc' = "sync_sub"
         \/ CreateLinks /\ pc = "new_links" /\ pc' = "new_swap"
      /\ UNCHANGED <<workload, boot, runstate, booted, memory>>
    BY DEF ClearLinks, CreateLinks
<1>3. pc \in Swapping /\ pc' \in Swapping /\ pc \notin Out /\ pc \notin Stale
    BY <1>2 DEF Swapping, SubPhases, NewPhases, Out, Stale
<1>4. Swapped'
    <2>1. Swapped /\ UNCHANGED plan
        BY <1>2 DEF SysrootInvariant, Swap, memory
    <2>2. CASE pc \in SubPhases
        <3>1. pc' \in SubPhases
            BY <1>2, <2>2 DEF SubPhases
        <3> QED
            BY <1>1, <1>2, <2>1, <2>2, <3>1, SubSwapped
    <2>3. CASE pc \in NewPhases
        <3>1. pc' \in NewPhases /\ pc' \notin {"sync_new", "freeze_new", "swap"}
            BY <1>2, <2>3 DEF NewPhases
        <3> QED
            BY <1>1, <1>2, <2>1, <2>3, <3>1, NewSwapped
    <2> QED
        BY <1>2, <2>2, <2>3 DEF SubPhases, NewPhases
<1>5. /\ target = IF pc \in {"sub_clear", "sub_links", "sub_swap"} THEN boot.loader ELSE 1 - boot.loader
      /\ plan' = plan /\ \A v : Subversion(root', v) = Subversion(root, v)
    BY <1>1, <1>2, <1>3, Targets DEF memory, Subversion
<1>6. Linked'
    <2>1. CASE CreateLinks /\ pc = "sub_links" /\ pc' = "sync_sub"
        <3>1. root'.farm[boot'.loader][1 - Subversion(root', boot'.loader)] = Farm(plan')
            BY <1>1, <1>2, <1>5, <2>1
        <3> QED
            BY <2>1, <3>1 DEF Linked
    <2>2. CASE CreateLinks /\ pc = "new_links" /\ pc' = "new_swap"
        <3>1. root'.farm[1 - boot'.loader][1 - Subversion(root', 1 - boot'.loader)] = Farm(plan')
            BY <1>1, <1>2, <1>5, <2>2
        <3> QED
            BY <2>2, <3>1 DEF Linked
    <2>3. CASE pc' \in {"sub_links", "new_links"}
        BY <2>3 DEF Linked
    <2> QED
        BY <1>2, <2>1, <2>2, <2>3
<1> QED
    BY <1>1, <1>2, <1>3, <1>4, <1>6, SwapStands, Zenon

(* ... and so does emptying the other loader directory,                    *)
LEMMA EntriesCleared ==
    ASSUME SysrootInvariant, ClearEntries
    PROVE  SysrootInvariant' /\ Stands /\ Settled
<1>1. /\ Stands /\ boot'.kernels = boot.kernels
      /\ boot'.entries[1 - boot.loader] = <<>>
    BY ClearSteps, Zenon
<1>2. /\ pc = "entries" /\ pc' = "install"
      /\ UNCHANGED <<workload, root, rootDisk, runstate, booted, memory>> /\ UNCHANGED plan
    BY DEF ClearEntries, memory
<1>3. pc \in Swapping /\ pc' \in Swapping /\ pc' \notin SubPhases /\ pc' \notin NewPhases /\ Settled
    BY <1>2 DEF Swapping, SubPhases, NewPhases, Settled
<1>4. SameView
    BY <1>1, <1>3, Zenon DEF Stands, SysrootInvariant, Booting
<1>5. booted \in DirsOf(plan) /\ DirsOf(plan) \subseteq root.sealed /\ plan \in Seq(Deployments)
    <2>1. pc \in Writing
        BY <1>3, Zenon DEF Writing
    <2> QED
        BY <1>3, <2>1, Zenon DEF SysrootInvariant, Swap, Swapped, Process, ListTypes
<1>6. 0 < Len(plan)
    <2>1. plan # <<>>
        BY <1>5 DEF DirsOf
    <2> QED
        BY <1>5, <2>1
<1>7. /\ boot'.entries[1 - boot'.loader] = <<>> /\ Len(boot'.entries[1 - boot'.loader]) < Len(plan')
      /\ DOMAIN boot'.entries[1 - boot'.loader] = {}
    BY <1>1, <1>2, <1>4, <1>6 DEF SameView
<1>8. Swapped'
    <2>1. pc' \notin {"sync_new", "freeze_new", "swap"}
        BY <1>2
    <2> QED
        BY <1>2, <1>3, <1>5, <1>7, <2>1, Zenon DEF Swapped
<1>9. Linked'
    BY <1>2 DEF Linked
<1> QED
    BY <1>1, <1>2, <1>3, <1>8, <1>9, SwapStands, Zenon

(* ... and the installation of each kernel and entry, which may fail for   *)
(* want of space.                                                          *)
LEMMA KernelInstalled ==
    ASSUME Counting, SysrootInvariant, InstallKernel
    PROVE  SysrootInvariant' /\ Stands /\ Settled
<1>1. CASE Fail
    <2>1. UNCHANGED <<workload, root, rootDisk, runstate, booted>>
        BY DEF InstallKernel
    <2> QED
        BY <1>1, <2>1, FailStep, Zenon
<1>2. CASE ~Fail
    <2> DEFINE e == boot.entries[1 - boot.loader]
               i == Len(e) + 1
    <2>0. i = Len(boot.entries[1 - boot.loader]) + 1
        OBVIOUS
    <2>1. /\ Stands /\ boot.kernels \subseteq boot'.kernels
          /\ Kernel(plan[i].dir) \in boot'.kernels
          /\ boot'.entries[1 - boot.loader] = Append(e, Entry(plan, i))
          /\ pc' = IF i = Len(plan) THEN "new_clear" ELSE "install"
          /\ i \in 1..Len(plan) /\ e \in Seq(BootConfigs) /\ i - 1 = Len(e)
          /\ UNCHANGED <<workload, root, rootDisk, runstate, booted, memory>>
        BY <1>2, <2>0, InstallStep, Zenon
    <2>2. /\ pc = "install" /\ pc' \in {"install", "new_clear"} /\ UNCHANGED plan
        BY <2>1 DEF InstallKernel, memory
    <2>3. /\ pc \in Swapping /\ pc' \in Swapping /\ pc' \notin SubPhases /\ Settled
          /\ pc' \in NewPhases => pc' = "new_clear"
        BY <2>2 DEF Swapping, SubPhases, NewPhases, Settled
    <2>4. SameView
        BY <2>1, <2>3, Zenon DEF Stands, SysrootInvariant, Booting
    <2>5. /\ booted \in DirsOf(plan) /\ DirsOf(plan) \subseteq root.sealed /\ plan \in Seq(Deployments)
          /\ \A j \in DOMAIN e : e[j] = Entry(plan, j) /\ Key(plan, j)[1] \in boot.kernels
        <3>1. pc \in Writing /\ pc \in {"install"} \cup NewPhases
            BY <2>2, <2>3, Zenon DEF Writing
        <3> QED
            BY <2>3, <3>1, Zenon DEF SysrootInvariant, Swap, Swapped, Process, ListTypes
    <2>6. Key(plan, i)[1] = Kernel(plan[i].dir)
        BY DEF Key
    <2> HIDE DEF e
    <2>7. /\ Len(Append(e, Entry(plan, i))) = i
          /\ pc' = "install" => i < Len(plan)
          /\ pc' = "new_clear" => i = Len(plan)
          /\ \A j \in DOMAIN Append(e, Entry(plan, i)) :
                \/ j = i /\ Append(e, Entry(plan, i))[j] = Entry(plan, i)
                \/ j \in DOMAIN e /\ Append(e, Entry(plan, i))[j] = e[j]
        <3>1. pc' = "install" => i # Len(plan)
            BY <2>1
        <3>2. Len(plan) \in Nat /\ Len(e) \in Nat
            BY <2>1, <2>5
        <3> QED
            BY <2>1, <2>2, <3>1, <3>2
    <2> HIDE DEF i
    <2>8. boot'.entries[1 - boot'.loader] = Append(e, Entry(plan, i))
        BY <2>1, <2>4, Zenon DEF SameView
    <2>9. \A j \in DOMAIN Append(e, Entry(plan, i)) :
             Append(e, Entry(plan, i))[j] = Entry(plan, j) /\ Key(plan, j)[1] \in boot'.kernels
        BY <2>1, <2>5, <2>6, <2>7, Zenon
    <2>10. Swapped'
        <3>1. pc' \notin {"sync_new", "freeze_new", "swap"}
            BY <2>2
        <3>2. pc' \in NewPhases => Len(boot'.entries[1 - boot'.loader]) = Len(plan)
            BY <2>3, <2>7, <2>8, Zenon
        <3>3. pc' = "install" => Len(boot'.entries[1 - boot'.loader]) < Len(plan)
            BY <2>7, <2>8, Zenon
        <3> QED
            BY <2>1, <2>2, <2>3, <2>5, <2>8, <2>9, <3>1, <3>2, <3>3, Zenon DEF Swapped
    <2>11. Linked'
        BY <2>2 DEF Linked
    <2> QED
        BY <2>1, <2>2, <2>3, <2>10, <2>11, SwapStands, Zenon
<1> QED
    BY <1>1, <1>2

(* The links of the new bootversion, then the temporary loader link.       *)
LEMMA NewLinkStep ==
    ASSUME SysrootInvariant, (SwapLinks /\ pc = "new_swap") \/ PrepareLoader
    PROVE  SysrootInvariant' /\ Stands /\ Settled
<1>1. /\ \/ SwapLinks /\ pc = "new_swap" /\ pc' = "prepare" /\ UNCHANGED <<boot, bootDisk>>
         \/ PrepareLoader /\ pc = "prepare" /\ pc' = "sync_new" /\ UNCHANGED <<root, rootDisk>>
      /\ UNCHANGED <<workload, runstate, booted, memory>> /\ UNCHANGED plan
    BY DEF SwapLinks, PrepareLoader, memory
<1>2. /\ pc \in Swapping /\ pc' \in Swapping /\ pc \in NewPhases /\ pc' \in NewPhases /\ Settled
      /\ pc' \in {"prepare", "sync_new", "freeze_new", "swap"}
      /\ pc' \notin {"freeze_new", "swap"} /\ pc' # "new_swap"
      /\ pc' \notin {"sync_sub", "freeze_sub", "sub_swap"}
      /\ pc' \notin {"freeze_sub", "sub_swap", "freeze_new", "swap", "freeze_again"}
      /\ pc = "prepare" => pc \in {"prepare", "sync_new", "freeze_new", "swap"}
      /\ pc' \in {"sync_new", "freeze_new", "swap"} => pc' = "sync_new"
    BY <1>1 DEF Swapping, SubPhases, NewPhases, Settled
<1>3. /\ Stands /\ root'.deploys = root.deploys /\ root'.sealed = root.sealed
      /\ boot'.kernels = boot.kernels /\ boot'.entries = boot.entries
      /\ pc' = "sync_new" => boot'.tmp = 1 - boot.loader
      /\ Table(root', 1 - boot.loader) = Farm(plan)
    <2>1. CASE SwapLinks /\ pc = "new_swap" /\ pc' = "prepare" /\ UNCHANGED <<boot, bootDisk>>
        <3>1. /\ Stands /\ root'.deploys = root.deploys /\ root'.sealed = root.sealed
              /\ Table(root', 1 - boot.loader) = Farm(plan)
            BY <2>1, NewSwapStep, Zenon
        <3>2. pc' # "sync_new"
            BY <2>1
        <3> QED
            BY <2>1, <3>1, <3>2
    <2>2. CASE PrepareLoader /\ pc = "prepare" /\ pc' = "sync_new" /\ UNCHANGED <<root, rootDisk>>
        <3>1. /\ Stands /\ boot'.kernels = boot.kernels /\ boot'.entries = boot.entries
              /\ boot'.tmp = 1 - boot.loader
            BY <2>2, StampSteps, Zenon
        <3>2. Table(root, 1 - boot.loader) = Farm(plan)
            BY <1>2, <2>2, Zenon DEF SysrootInvariant, Swap, Linked
        <3> QED
            BY <2>2, <3>1, <3>2
    <2> QED
        BY <1>1, <2>1, <2>2
<1>4. boot'.loader = boot.loader
    BY <1>2, <1>3, Zenon DEF Stands, SysrootInvariant, Booting, SameView
<1>5. Swapped'
    <2>1. Swapped
        BY Zenon DEF SysrootInvariant, Swap
    <2> QED
        BY <1>1, <1>2, <1>3, <1>4, <2>1, NewSwapped, Zenon
<1>6. Linked'
    BY <1>1, <1>2, <1>3, <1>4, Zenon DEF Linked
<1> QED
    BY <1>1, <1>2, <1>3, <1>5, <1>6, SwapStands, Zenon

(* full_system_sync keeps the invariant: the new list is on disk before it *)
(* is swapped in.                                                          *)
LEMMA SyncStep ==
    ASSUME SysrootInvariant, FullSyncRoot \/ FullSyncBoot
    PROVE  SysrootInvariant' /\ Stands /\ Settled
<1>1. /\ Stands /\ UNCHANGED <<root, boot>>
      /\ FullSyncRoot => rootDisk' = {root}
      /\ FullSyncBoot => rootDisk' = rootDisk
    BY FullSyncStep, Zenon
<1>2. /\ \/ FullSyncRoot /\ pc = "sync_sub" /\ pc' = "freeze_sub"
         \/ FullSyncRoot /\ pc = "sync_new" /\ pc' = "freeze_new"
         \/ FullSyncBoot /\ pc = "freeze_sub" /\ pc' = "sub_swap"
         \/ FullSyncBoot /\ pc = "freeze_new" /\ pc' = "swap"
      /\ UNCHANGED <<workload, runstate, booted, memory>> /\ UNCHANGED plan
    BY DEF FullSyncRoot, FullSyncBoot, memory
<1>3. pc \in Swapping /\ pc' \in Swapping
    BY <1>2 DEF Swapping, SubPhases, NewPhases
<1>4. Swapped /\ Linked
    BY Zenon DEF SysrootInvariant, Swap
<1>5. DirsOf(plan) \subseteq root.sealed
    BY <1>3, <1>4, Zenon DEF Swapped
<1>6. Swapped' /\ Linked'
    <2>1. CASE pc \in {"sync_sub", "freeze_sub"}
        <3>1. /\ pc \in SubPhases /\ pc' \in SubPhases /\ pc \in {"sync_sub", "freeze_sub", "sub_swap"}
              /\ pc' \in {"sync_sub", "freeze_sub", "sub_swap"} /\ pc' \notin {"freeze_new", "swap"}
              /\ pc' # "new_swap" /\ pc' \notin {"prepare", "sync_new", "freeze_new", "swap"}
              /\ FullSyncRoot \/ pc \in {"freeze_sub", "sub_swap", "freeze_new", "swap", "freeze_again"}
            BY <1>2, <2>1 DEF SubPhases
        <3>2. Swapped'
            BY <1>1, <1>2, <1>4, <3>1, SubSwapped
        <3>3. root.farm[boot.loader][1 - Subversion(root, boot.loader)] = Farm(plan)
            BY <1>4, <3>1, Zenon DEF Linked
        <3>4. \A r \in rootDisk' : Links(r, boot') = Links(root', boot')
            <4>1. CASE FullSyncRoot
                BY <1>1, <4>1
            <4>2. CASE FullSyncBoot
                <5>1. pc \in {"freeze_sub", "sub_swap", "freeze_new", "swap", "freeze_again"}
                    BY <1>2, <4>2 DEF FullSyncBoot
                <5>2. \A r \in rootDisk : Links(r, boot) = Links(root, boot)
                    BY <1>4, <5>1, Zenon DEF Linked
                <5> QED
                    BY <1>1, <4>2, <5>2, Zenon
            <4> QED
                BY <4>1, <4>2
        <3> QED
            BY <1>1, <1>2, <3>1, <3>2, <3>3, <3>4, Zenon DEF Linked
    <2>2. CASE pc \in {"sync_new", "freeze_new"}
        <3>1. /\ pc \in NewPhases /\ pc' \in NewPhases /\ pc \in {"sync_new", "freeze_new", "swap"}
              /\ pc \in {"prepare", "sync_new", "freeze_new", "swap"}
              /\ pc' \notin {"sync_sub", "freeze_sub", "sub_swap"}
              /\ pc' # "new_swap" /\ pc' \in {"prepare", "sync_new", "freeze_new", "swap"}
            BY <1>2, <2>2 DEF NewPhases
        <3>a. boot.tmp = 1 - boot.loader
            BY <1>4, <3>1, Zenon DEF Swapped
        <3>2. Swapped'
            BY <1>1, <1>2, <1>4, <3>1, <3>a, NewSwapped
        <3>3. Table(root, 1 - boot.loader) = Farm(plan)
            BY <1>4, <3>1, Zenon DEF Linked
        <3>4. \A r \in rootDisk' : /\ Links(r, boot) = Links(root, boot)
                                   /\ Table(r, 1 - boot.loader) = Farm(plan)
                                   /\ DirsOf(plan) \subseteq r.sealed
            <4>1. CASE FullSyncRoot
                BY <1>1, <1>5, <3>3, <4>1
            <4>2. CASE FullSyncBoot
                <5>1. /\ pc \in {"freeze_sub", "sub_swap", "freeze_new", "swap", "freeze_again"}
                      /\ pc \in {"freeze_new", "swap"}
                    BY <2>2, <4>2 DEF FullSyncBoot
                <5>2. \A r \in rootDisk : /\ Links(r, boot) = Links(root, boot)
                                          /\ Table(r, 1 - boot.loader) = Farm(plan)
                                          /\ DirsOf(plan) \subseteq r.sealed
                    BY <1>4, <5>1, Zenon DEF Linked
                <5> QED
                    BY <1>1, <4>2, <5>2, Zenon
            <4> QED
                BY <4>1, <4>2
        <3> QED
            BY <1>1, <1>2, <3>1, <3>2, <3>3, <3>4, Zenon DEF Linked
    <2> QED
        BY <1>2, <2>1, <2>2
<1> QED
    BY <1>1, <1>2, <1>3, <1>6, SwapStands, Zenon

(* The list is switched, by the link of the bootversion in use ...         *)
LEMMA SubSwitched ==
    ASSUME Counting, SysrootInvariant, SwapLinks, pc = "sub_swap"
    PROVE  SysrootInvariant' /\ Switched
<1>1. /\ DiskTypes' /\ Boots' /\ Switched
      /\ root'.deploys = root.deploys /\ root'.sealed = root.sealed
    BY SubSwapStep, Zenon
<1>2. pc' = "finish" /\ UNCHANGED <<workload, runstate, memory>>
    BY DEF SwapLinks
<1>3. /\ pc \in Swapping \cup Stale \cup Deciding /\ pc' \in Swapping \cup Stale /\ pc' \in Stale
      /\ pc' \notin Swapping /\ pc' # "freeze_again"
    BY <1>2 DEF Swapping, SubPhases, NewPhases, Stale
<1>4. Swapped' /\ Linked'
    BY <1>3, NotSwapping, Zenon
<1> QED
    BY <1>1, <1>2, <1>3, <1>4, SwapGoesOn, Zenon

(* ... or by the loader link.                                              *)
LEMMA LoaderSwitched ==
    ASSUME Counting, SysrootInvariant, SwapLoader
    PROVE  SysrootInvariant' /\ Switched
<1>1. /\ DiskTypes' /\ Boots' /\ Switched /\ UNCHANGED <<root, rootDisk, booted>>
      /\ \A r \in rootDisk : Links(r, boot') = Links(root, boot')
    BY SwapLoaderStep, Zenon
<1>2. pc = "swap" /\ pc' = "freeze_again" /\ UNCHANGED <<workload, runstate, memory>>
    BY DEF SwapLoader
<1>3. /\ pc \in Swapping \cup Stale \cup Deciding /\ pc' \in Swapping \cup Stale /\ pc' \in Stale
      /\ pc' \notin Swapping /\ pc' \notin SubPhases /\ pc' \notin {"install"} \cup NewPhases
    BY <1>2 DEF Swapping, SubPhases, NewPhases, Stale
<1>4. Swapped'
    BY <1>2, <1>3 DEF Swapped
<1>5. Linked'
    BY <1>1, <1>2 DEF Linked
<1> QED
    BY <1>1, <1>2, <1>3, <1>4, <1>5, SwapGoesOn, Zenon

(* The sync after the rename keeps the invariant.                          *)
LEMMA LoaderSynced ==
    ASSUME SysrootInvariant, SyncLoader
    PROVE  /\ SysrootInvariant' /\ Fallback' = {Offered(root, boot)}
           /\ UNCHANGED <<root, boot>>
<1>1. /\ DiskTypes' /\ Boots' /\ Fallback' = {Offered(root, boot)}
      /\ UNCHANGED <<root, rootDisk, boot, booted>>
    BY SyncLoaderStep, Zenon
<1>2. pc = "freeze_again" /\ pc' = "finish" /\ UNCHANGED <<workload, runstate, memory>>
    BY DEF SyncLoader
<1>3. /\ pc \in Swapping \cup Stale \cup Deciding /\ pc' \in Swapping \cup Stale /\ pc' \in Stale
      /\ pc' \notin Swapping /\ pc' # "freeze_again"
    BY <1>2 DEF Swapping, SubPhases, NewPhases, Stale
<1>4. Swapped' /\ Linked'
    BY <1>3, NotSwapping, Zenon
<1> QED
    BY <1>1, <1>2, <1>3, <1>4, SwapGoesOn, Zenon

(* write_deployments keeps the invariant at every step, and switches the   *)
(* list in one.                                                            *)
LEMMA WriteSteps ==
    ASSUME Counting, SysrootInvariant, Write
    PROVE  SysrootInvariant' /\ ListStep
<1>1. CASE WriteDeployments
    BY <1>1, WriteDeploymentsStep, Zenon DEF ListStep
<1>2. CASE EarlyPrune
    BY <1>2, EarlyPruneStep, Zenon DEF ListStep
<1>3. CASE EarlyPruneAborts
    BY <1>3, AbortStep, Zenon DEF ListStep
<1>4. CASE RetainStaged
    BY <1>4, RetainStep, Zenon DEF ListStep
<1>5. CASE DropStagedState \/ DropStagedDir
    BY <1>5, DropSteps, Zenon DEF ListStep
<1>6. CASE DropStagedLock
    BY <1>6, DropLockStep, Zenon DEF ListStep
<1>7. CASE Noop \/ Finish \/ Refuse
    BY <1>7, NoopFinishSteps, Zenon DEF ListStep
<1>8. CASE Decide
    BY <1>8, DecideStep, Zenon DEF ListStep
<1>9. CASE ClearEntries
    BY <1>9, EntriesCleared, Zenon DEF ListStep
<1>10. CASE InstallKernel
    BY <1>10, KernelInstalled, Zenon DEF ListStep
<1>11. CASE ClearLinks \/ CreateLinks
    BY <1>11, LinksStep, Zenon DEF ListStep
<1>12. CASE SwapLinks
    <2>1. pc = "sub_swap" \/ pc = "new_swap"
        BY <1>12 DEF SwapLinks
    <2> QED
        BY <1>12, <2>1, NewLinkStep, SubSwitched, Zenon DEF ListStep
<1>13. CASE PrepareLoader
    BY <1>13, NewLinkStep, Zenon DEF ListStep
<1>14. CASE FullSyncRoot \/ FullSyncBoot
    BY <1>14, SyncStep, Zenon DEF ListStep
<1>15. CASE SwapLoader
    BY <1>15, LoaderSwitched, Zenon DEF ListStep
<1>16. CASE SyncLoader
    BY <1>16, LoaderSynced, Zenon DEF ListStep
<1> QED
    BY <1>1, <1>2, <1>3, <1>4, <1>5, <1>6, <1>7, <1>8, <1>9, <1>10, <1>11, <1>12, <1>13, <1>14,
       <1>15, <1>16, Zenon DEF Write
=============================================================================
