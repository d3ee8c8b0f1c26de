--------------------------- MODULE RepoLockProofs ---------------------------
(***************************************************************************)
(* The repository lock is correct for every number of OstreeRepos, threads *)
(* and acquisitions, when the kernel converts locks atomically (OFD locks).*)
(***************************************************************************)
EXTENDS RepoLock, TLAPS, FiniteSetTheorems

(***************************************************************************)
(* The inductive invariant, and the lemmas that every step keeps it and is *)
(* a step of the contract.                                                 *)
(***************************************************************************)
\* A thread inside a call works on one of its own guards, of an OstreeRepo
\* that locks; the guard is free during a push and held during a pop.
CallInv ==
    \A t \in Threads : pc[t] # "idle" =>
        /\ cur[t] \in Guards /\ OwnerOf[cur[t]] = t
        /\ Enabled(RepoOf[t])
        /\ pc[t] \in {"push", "wait"} => guard[cur[t]] = "UN"
        /\ pc[t] \in {"pop", "popwait"} => guard[cur[t]] = want[t]

\* lock.mutex is kept over a step only by a thread of the same OstreeRepo that
\* sleeps in the kernel during a push.
MutexInv ==
    /\ \A r \in Repos : mutex[r] # NoThread =>
          RepoOf[mutex[r]] = r /\ pc[mutex[r]] = "wait"
    /\ \A t \in Threads : pc[t] # "popwait"
    /\ \A t \in Threads : pc[t] = "wait" => mutex[RepoOf[t]] = t

\* An OstreeRepo without locking never counts anything.
DisabledInv == \A r \in Repos : ~Enabled(r) => shared[r] = 0 /\ exclusive[r] = 0

\* The kernel keeps the locks of different descriptors compatible.
KernelExclusion ==
    \A r, o \in Repos : r # o => Compatible(kernel[r], kernel[o])

IInv ==
    /\ TypeOK /\ CallInv /\ MutexInv /\ DisabledInv
    /\ CountersMatchGuards /\ KernelMatchesCounters /\ KernelExclusion

-----------------------------------------------------------------------------
(* The guards held, when one guard changes *)

\* What the proofs use of the size of a set of guards; it holds because there
\* are finitely many of them (GuardsCount of RepoLockProofs).
Counting ==
    \A S \in SUBSET Guards :
        /\ Cardinality(S) \in Nat
        /\ Cardinality(S) = 0 <=> S = {}
        /\ \A g \in Guards \ S : Cardinality(S \cup {g}) = Cardinality(S) + 1

\* The guards an OstreeRepo holds are guards.
LEMMA HeldGuards == \A r, type : Held(r, type) \in SUBSET Guards
  BY DEF Held

\* Taking a free guard adds one to the guards of its OstreeRepo and type, and
\* leaves all the others as they are: the counter increment of a push.
LEMMA TakeGuard ==
  ASSUME Counting, guard \in [Guards -> States], NEW g \in Guards, NEW type \in LockTypes,
         NEW r \in Repos, r = RepoOf[OwnerOf[g]],
         guard[g] = "UN", guard' = [guard EXCEPT ![g] = type]
  PROVE  /\ Cardinality(Held(r, type)') = Cardinality(Held(r, type)) + 1
         /\ \A o \in Repos, ty \in LockTypes :
               <<o, ty>> # <<r, type>> => Held(o, ty)' = Held(o, ty)
<1>1. Held(r, type)' = Held(r, type) \cup {g}
  BY DEF Held, LockTypes, States
<1>2. g \notin Held(r, type)
  BY Zenon DEF Held, LockTypes
<1>3. Cardinality(Held(r, type) \cup {g}) = Cardinality(Held(r, type)) + 1
  BY <1>2, HeldGuards, Zenon DEF Counting
<1>4. \A o \in Repos, ty \in LockTypes :
         <<o, ty>> # <<r, type>> => Held(o, ty)' = Held(o, ty)
  BY DEF Held, LockTypes, States
<1> QED
  BY <1>1, <1>3, <1>4

\* Freeing a held guard takes one away: the counter decrement of a pop.
LEMMA FreeGuard ==
  ASSUME Counting, guard \in [Guards -> States], NEW g \in Guards, NEW type \in LockTypes,
         NEW r \in Repos, r = RepoOf[OwnerOf[g]],
         guard[g] = type, guard' = [guard EXCEPT ![g] = "UN"]
  PROVE  /\ Cardinality(Held(r, type)) > 0
         /\ Cardinality(Held(r, type)') = Cardinality(Held(r, type)) - 1
         /\ \A o \in Repos, ty \in LockTypes :
               <<o, ty>> # <<r, type>> => Held(o, ty)' = Held(o, ty)
<1>1. Held(r, type)' = Held(r, type) \ {g}
  BY DEF Held, LockTypes, States
<1>2. g \in Held(r, type)
  BY DEF Held
<1>3. /\ Cardinality(Held(r, type)) = Cardinality(Held(r, type) \ {g}) + 1
      /\ Cardinality(Held(r, type) \ {g}) \in Nat
  <2> DEFINE S == Held(r, type) \ {g}
  <2>1. S \in SUBSET Guards /\ g \in Guards \ S /\ S \cup {g} = Held(r, type)
    BY <1>2, HeldGuards
  <2> HIDE DEF S
  <2> QED
    BY <2>1 DEF Counting, S
<1>4. \A o \in Repos, ty \in LockTypes :
         <<o, ty>> # <<r, type>> => Held(o, ty)' = Held(o, ty)
  BY DEF Held, LockTypes, States
<1> QED
  BY <1>1, <1>3, <1>4

-----------------------------------------------------------------------------
(* The inductive invariant *)

\* At the start nothing is held, counted or locked.
LEMMA InitIInv ==
  ASSUME Counting, Init
  PROVE  IInv
<1> USE LockConstants DEF LockConstants
<1>1. TypeOK
  BY DEF Init, TypeOK, LockTypes, States
<1>2. CallInv /\ MutexInv /\ DisabledInv
  BY DEF Init, CallInv, MutexInv, DisabledInv
<1>3. CountersMatchGuards
  <2>1. \A r \in Repos, type \in LockTypes : Held(r, type) = {}
    BY Zenon DEF Init, Held, LockTypes
  <2> QED
    BY <2>1 DEF Counting, Init, CountersMatchGuards, LockTypes
<1>4. KernelMatchesCounters /\ KernelExclusion
  BY DEF Init, KernelMatchesCounters, KernelExclusion, LockState, Compatible
<1> QED
  BY <1>1, <1>2, <1>3, <1>4 DEF IInv

\* Without the flock fallback the guards of the actions simplify: a waiting
\* thread is inside a push, and a return to shared is always granted.
LEMMA NoPopWouldBlock ==
  ASSUME IInv, ~FlockFallback, NEW t \in Threads
  PROVE  ~PopWouldBlock(t)
<1>i. /\ TypeOK /\ CallInv /\ MutexInv /\ DisabledInv
      /\ CountersMatchGuards /\ KernelMatchesCounters /\ KernelExclusion
  BY DEF IInv
<1> SUFFICES ASSUME PopWouldBlock(t) PROVE FALSE
  OBVIOUS
<1> USE LockConstants DEF LockConstants
<1>1. kernel[RepoOf[t]] = "EX"
  BY <1>i DEF PopWouldBlock, KernelMatchesCounters, LockState
<1>2. \A o \in Repos \ {RepoOf[t]} : kernel[o] = "UN"
  BY <1>1, <1>i DEF KernelExclusion, Compatible
<1> QED
  BY <1>1, <1>2 DEF PopWouldBlock, Grantable, Compatible

\* Every step of the lock keeps the inductive invariant.
LEMMA NextIInv ==
  ASSUME Counting, IInv, ~FlockFallback, [Next]_vars
  PROVE  IInv'
<1>i. /\ TypeOK /\ CallInv /\ MutexInv /\ DisabledInv
      /\ CountersMatchGuards /\ KernelMatchesCounters /\ KernelExclusion
  BY DEF IInv
\* A step that leaves guards, counters and kernel alone keeps everything the
\* invariant says of them.
<1>u. ASSUME UNCHANGED <<shared, exclusive, kernel>>,
             \A g \in Guards : Enabled(RepoOf[OwnerOf[g]]) => guard'[g] = guard[g]
      PROVE  /\ DisabledInv' /\ CountersMatchGuards'
             /\ KernelMatchesCounters' /\ KernelExclusion'
  <2> USE <1>u
  <2>1. ASSUME NEW r \in Repos, Enabled(r), NEW type \in LockTypes
        PROVE  Held(r, type)' = Held(r, type)
    BY <2>1 DEF Held
  <2>2. CountersMatchGuards'
    BY <2>1, <1>i DEF CountersMatchGuards, LockTypes, Enabled
  <2>3. DisabledInv' /\ KernelMatchesCounters' /\ KernelExclusion'
    BY <1>i DEF DisabledInv, KernelMatchesCounters, KernelExclusion, LockState, Enabled
  <2> QED
    BY <2>2, <2>3
\* A push that succeeds keeps the invariant, whether it called the kernel
\* (k = TRUE) or found the counters sufficient.
<1>p. ASSUME NEW t \in Threads, PushMaintain(t) \/ PushLock(t)
      PROVE  IInv'
  <2> USE <1>p
  <2> DEFINE g == cur[t]
  <2>0. PICK r \in Repos : r = RepoOf[t]
    BY LockConstants DEF LockConstants
  <2> USE <2>0, LockConstants DEF LockConstants
  <2>1. /\ g \in Guards /\ OwnerOf[g] = t /\ Enabled(r) /\ guard[g] = "UN"
        /\ r \in Repos /\ want[t] \in LockTypes /\ pc[t] \in {"push", "wait"}
    BY <1>i DEF TypeOK, CallInv, PushMaintain, PushLock
  <2>2. /\ AddToCounter(r, want[t], 1) /\ Return(t, want[t])
        /\ mutex' = [mutex EXCEPT ![r] = NoThread]
        /\ kernel' = [kernel EXCEPT ![r] = LockState(r)']
    <3>1. CASE PushMaintain(t)
      BY <2>1, <3>1, <1>i DEF PushMaintain, TypeOK, KernelMatchesCounters, Covered, LockState, AddToCounter, LockTypes
    <3>2. CASE PushLock(t)
      <4>1. LockState(r)' = want[t]
        BY <2>1, <3>2, <1>i DEF PushLock, TypeOK, Covered, LockState, AddToCounter, LockTypes
      <4> QED
        BY <3>2, <4>1 DEF PushLock, Release
    <3> QED
      BY <3>1, <3>2
  <2>3. /\ guard' = [guard EXCEPT ![g] = want[t]]
        /\ pc' = [pc EXCEPT ![t] = "idle"] /\ cur' = [cur EXCEPT ![t] = NoGuard]
        /\ want' = want
    BY <2>2 DEF Return
  <2>4. TypeOK'
    BY <2>1, <2>2, <2>3, <1>i DEF TypeOK, AddToCounter, Return, LockTypes, States, LockState
  <2>5. CallInv'
    BY <2>1, <2>3, <1>i DEF TypeOK, CallInv
  <2>6. MutexInv'
    BY <2>1, <2>2, <2>3, <1>i DEF TypeOK, MutexInv, MayEnter, PushMaintain, PushLock
  <2>7. DisabledInv'
    BY <2>1, <2>2, <1>i DEF TypeOK, DisabledInv, AddToCounter
  <2>8. CountersMatchGuards'
    <3>1. PICK type \in LockTypes, h \in Guards : type = want[t] /\ h = cur[t]
      BY <2>1
    <3>2. /\ Cardinality(Held(r, type)') = Cardinality(Held(r, type)) + 1
          /\ \A o \in Repos, u \in LockTypes :
                <<o, u>> # <<r, type>> => Held(o, u)' = Held(o, u)
      <4>1. /\ Counting /\ guard \in [Guards -> States] /\ guard[h] = "UN" /\ r = RepoOf[OwnerOf[h]]
            /\ guard' = [guard EXCEPT ![h] = type]
        BY <2>1, <2>3, <3>1, <1>i DEF TypeOK
      <4> QED
        BY ONLY <4>1, TakeGuard, Zenon
    <3> QED
      BY <2>1, <2>2, <3>1, <3>2, <1>i DEF TypeOK, CountersMatchGuards, AddToCounter, LockTypes, Enabled
  <2>9. KernelMatchesCounters'
    BY <2>1, <2>2, <1>i DEF TypeOK, KernelMatchesCounters, LockState, AddToCounter
  <2>10. KernelExclusion'
    BY <2>1, <2>2, <1>i DEF TypeOK, KernelExclusion, KernelMatchesCounters, Compatible, PushMaintain, PushLock, Grantable, Covered, LockState, AddToCounter, LockTypes
  <2> QED
    BY <2>4, <2>5, <2>6, <2>7, <2>8, <2>9, <2>10 DEF IInv
\* A pop that succeeds keeps the invariant: it unlocks, maintains the lock or
\* returns it to shared as the remaining guards demand.
<1>q. ASSUME NEW t \in Threads, PopLock(t)
      PROVE  IInv'
  <2> USE <1>q
  <2>0. PICK r \in Repos : r = RepoOf[t]
    BY LockConstants DEF LockConstants
  <2> USE <2>0, LockConstants DEF LockConstants
  <2>1. PICK type \in LockTypes, g \in Guards :
           /\ type = want[t] /\ g = cur[t] /\ OwnerOf[g] = t /\ Enabled(r)
           /\ guard[g] = type /\ pc[t] = "pop" /\ mutex[r] = NoThread
    BY <1>i DEF TypeOK, CallInv, MutexInv, MayEnter, PopLock
  <2>2. /\ AddToCounter(r, type, -1)
        /\ guard' = [guard EXCEPT ![g] = "UN"]
        /\ pc' = [pc EXCEPT ![t] = "idle"] /\ cur' = [cur EXCEPT ![t] = NoGuard]
        /\ waited' = [waited EXCEPT ![t] = 0] /\ want' = want
        /\ mutex' = [mutex EXCEPT ![r] = NoThread]
        /\ Counter(r, type) > 0
    BY <2>1 DEF PopLock, Return, Release
  <2>3. TypeOK'
    <3>1. shared' \in [Repos -> Nat] /\ exclusive' \in [Repos -> Nat]
      BY <2>1, <2>2, <1>i DEF TypeOK, AddToCounter, Counter, LockTypes
    <3>2. kernel' \in [Repos -> States]
      BY <1>i DEF TypeOK, PopLock, PopState, States
    <3> QED
      BY <2>1, <2>2, <3>1, <3>2, <1>i DEF TypeOK, States
  <2>4. kernel' = [kernel EXCEPT ![r] = LockState(r)']
    <3>1. LockState(r)' = PopState(r, type)
      BY <2>1, <2>2, <1>i DEF TypeOK, AddToCounter, Counter, LockState, PopState, LockTypes
    <3>2. kernel[r] = LockState(r) /\ kernel \in [Repos -> States]
      BY <1>i DEF TypeOK, KernelMatchesCounters
    <3>3. \/ PopState(r, type) = "UN"
          \/ PopState(r, type) = "SH" /\ LockState(r) = "EX"
          \/ PopState(r, type) = LockState(r)
      BY <2>1, <2>2, <1>i DEF TypeOK, LockState, PopState, LockTypes, Counter
    <3> QED
      BY <2>1, <3>1, <3>2, <3>3, Zenon DEF PopLock
  <2>5. CallInv'
    BY <2>1, <2>2, <1>i DEF TypeOK, CallInv
  <2>6. MutexInv'
    BY <2>1, <2>2, <1>i DEF TypeOK, MutexInv
  <2>7. DisabledInv'
    BY <2>1, <2>2, <1>i DEF TypeOK, DisabledInv, AddToCounter
  <2>8. CountersMatchGuards'
    <3>1. /\ Cardinality(Held(r, type)') = Cardinality(Held(r, type)) - 1
          /\ \A o \in Repos, u \in LockTypes :
                <<o, u>> # <<r, type>> => Held(o, u)' = Held(o, u)
      <4>1. /\ Counting /\ guard \in [Guards -> States] /\ guard[g] = type /\ r = RepoOf[OwnerOf[g]]
            /\ guard' = [guard EXCEPT ![g] = "UN"]
        BY <2>1, <2>2, <1>i DEF TypeOK
      <4> QED
        BY ONLY <4>1, FreeGuard, Zenon
    <3> QED
      BY <2>1, <2>2, <3>1, <1>i DEF TypeOK, CountersMatchGuards, AddToCounter, LockTypes, Enabled
  <2>9. KernelMatchesCounters'
    BY <2>2, <2>4, <1>i DEF TypeOK, KernelMatchesCounters, LockState, AddToCounter
  <2>10. KernelExclusion'
    <3>1. LockState(r)' = "EX" => kernel[r] = "EX"
      BY <2>1, <2>2, <1>i DEF TypeOK, KernelMatchesCounters, LockState, AddToCounter, LockTypes
    <3>2. LockState(r)' = "SH" => kernel[r] \in {"SH", "EX"}
      BY <2>1, <2>2, <1>i DEF TypeOK, KernelMatchesCounters, LockState, AddToCounter, LockTypes
    <3>3. LockState(r)' \in {"UN", "SH", "EX"}
      BY DEF LockState
    <3> QED
      BY <2>4, <3>1, <3>2, <3>3, <1>i DEF TypeOK, KernelExclusion, Compatible
  <2> QED
    BY <2>3, <2>5, <2>6, <2>7, <2>8, <2>9, <2>10 DEF IInv
\* Entering a call changes no lock, or, without locking, only a guard.
<1>c. ASSUME NEW t \in Threads, NEW g \in Guards,
             (\E type \in LockTypes : PushCall(t, g, type)) \/ PopCall(t, g)
      PROVE  IInv'
  <2> USE <1>c
  <2> USE LockConstants DEF LockConstants
  <2>1. PICK type \in LockTypes : PushCall(t, g, type) \/ PopCall(t, g)
    BY DEF LockTypes
  <2>2. /\ pc[t] = "idle" /\ OwnerOf[g] = t
        /\ UNCHANGED <<shared, exclusive, kernel, mutex>>
    BY <2>1 DEF PushCall, PopCall
  <2>3. \/ /\ Enabled(RepoOf[t]) /\ guard' = guard
           /\ \/ pc' = [pc EXCEPT ![t] = "push"] /\ guard[g] = "UN"
                 /\ want' = [want EXCEPT ![t] = type]
              \/ pc' = [pc EXCEPT ![t] = "pop"] /\ guard[g] \in LockTypes
                 /\ want' = [want EXCEPT ![t] = guard[g]]
           /\ cur' = [cur EXCEPT ![t] = g]
           /\ waited' = [waited EXCEPT ![t] = 0]
        \/ /\ ~Enabled(RepoOf[t]) /\ UNCHANGED threadVars
           /\ \E h \in States : guard' = [guard EXCEPT ![g] = h]
    BY <2>1, <1>i DEF TypeOK, PushCall, PopCall, LockTypes, States
  <2>4. TypeOK'
    BY <2>2, <2>3, <1>i DEF TypeOK, threadVars
  <2>5. CallInv'
    BY <2>2, <2>3, <1>i DEF TypeOK, CallInv, threadVars, Enabled
  <2>6. MutexInv'
    BY <2>2, <2>3, <1>i DEF TypeOK, MutexInv, threadVars
  <2>7. \A h \in Guards : Enabled(RepoOf[OwnerOf[h]]) => guard'[h] = guard[h]
    BY <2>2, <2>3, <1>i DEF TypeOK
  <2> QED
    BY <2>2, <2>4, <2>5, <2>6, <2>7, <1>u DEF IInv
\* Waiting, retrying and failing change no lock and no guard.
<1>w. ASSUME NEW t \in Threads,
             PushWait(t) \/ PushRetry(t) \/ PushTimeout(t) \/ PushCancelled(t) \/ PopFail(t)
      PROVE  IInv'
  <2> USE <1>w
  <2>0. PICK r \in Repos : r = RepoOf[t]
    BY LockConstants DEF LockConstants
  <2> USE <2>0, LockConstants DEF LockConstants
  <2>1. /\ pc[t] \in {"push", "pop"} /\ cur[t] \in Guards
        /\ UNCHANGED <<shared, exclusive, kernel, want>>
    BY NoPopWouldBlock, <1>i DEF CallInv, PushWait, PushRetry, PushTimeout, PushCancelled, PopFail, WouldBlock, Return
  <2>2. mutex[r] # t
    BY <2>1, <1>i DEF MutexInv
  <2>3. guard' = guard
    BY <2>1, <1>i DEF TypeOK, CallInv, PushWait, PushRetry, PushTimeout, PushCancelled, PopFail, WouldBlock, Return
  <2>4. \/ /\ pc' = [pc EXCEPT ![t] = "wait"] /\ mutex' = [mutex EXCEPT ![r] = t]
           /\ pc[t] = "push" /\ mutex[r] = NoThread /\ UNCHANGED <<cur, waited>>
        \/ /\ pc' = pc /\ mutex' = mutex /\ cur' = cur
           /\ waited' = [waited EXCEPT ![t] = @ + 1]
        \/ /\ pc' = [pc EXCEPT ![t] = "idle"] /\ mutex' = mutex
           /\ cur' = [cur EXCEPT ![t] = NoGuard] /\ waited' = [waited EXCEPT ![t] = 0]
    BY <2>1, <2>2, NoPopWouldBlock, <1>i DEF TypeOK, PushWait, PushRetry, PushTimeout, PushCancelled, PopFail, WouldBlock, Return, Release, MayEnter
  <2>5. TypeOK'
    BY <2>1, <2>3, <2>4, <1>i DEF TypeOK
  <2>6. CallInv'
    BY <2>1, <2>3, <2>4, <1>i DEF TypeOK, CallInv
  <2>7. MutexInv'
    BY <2>1, <2>4, <1>i DEF TypeOK, MutexInv
  <2> QED
    BY <2>1, <2>3, <2>5, <2>6, <2>7, <1>u DEF IInv
\* When a process dies the kernel, the counters and the guards of its
\* OstreeRepo are reset together.
<1>x. ASSUME NEW r \in Repos, Crash(r)
      PROVE  IInv'
  <2> USE <1>x
  <2> USE LockConstants DEF LockConstants
  <2>1. TypeOK'
    BY <1>i DEF TypeOK, Crash, States
  <2>2. CallInv'
    BY <1>i DEF TypeOK, CallInv, Crash
  <2>3. MutexInv'
    BY <1>i DEF TypeOK, MutexInv, Crash
  <2>4. DisabledInv' /\ KernelMatchesCounters' /\ KernelExclusion'
    BY <1>i DEF TypeOK, DisabledInv, KernelMatchesCounters, KernelExclusion, LockState, Compatible, Crash
  <2>5. CountersMatchGuards'
    <3>1. \A type \in LockTypes : Held(r, type)' = {}
      BY Zenon DEF Held, Crash, LockTypes
    <3>2. \A o \in Repos \ {r}, type \in LockTypes : Held(o, type)' = Held(o, type)
      BY DEF Held, Crash
    <3>3. \A type \in LockTypes : Cardinality(Held(r, type)') = 0
      BY <3>1 DEF Counting
    <3>4. /\ shared'[r] = 0 /\ exclusive'[r] = 0
          /\ \A o \in Repos \ {r} : shared'[o] = shared[o] /\ exclusive'[o] = exclusive[o]
      BY <1>i DEF TypeOK, Crash
    <3> QED
      BY <3>2, <3>3, <3>4, <1>i DEF CountersMatchGuards, LockTypes, Enabled
  <2> QED
    BY <2>1, <2>2, <2>3, <2>4, <2>5 DEF IInv
<1>1. ASSUME NEW t \in Threads, Step(t) \/ PushCancelled(t) PROVE IInv'
  <2>1. ~FlockDrop(t) /\ ~PopWait(t) /\ ~PopRetry(t)
    BY NoPopWouldBlock DEF FlockDrop, PopWait, PopRetry
  <2>2. ASSUME PushOverflow(t) PROVE IInv'
    BY <2>2, <1>x, LockConstants DEF PushOverflow, LockConstants
  <2> QED
    BY <1>1, <2>1, <2>2, <1>p, <1>q, <1>w DEF Step
<1>2. ASSUME UNCHANGED vars PROVE IInv'
  <2>1. TypeOK' /\ CallInv' /\ MutexInv'
    BY <1>2, <1>i DEF vars, TypeOK, CallInv, MutexInv
  <2> QED
    BY <1>2, <2>1, <1>u DEF vars, IInv
<1> QED
  BY <1>1, <1>2, <1>c, <1>x DEF Next

-----------------------------------------------------------------------------
(* Theorems *)

\* A guard that is held is backed by the kernel lock.
LEMMA HeldIsBacked ==
  ASSUME Counting, IInv, NEW g \in Guards, Enabled(RepoOf[OwnerOf[g]])
  PROVE  /\ guard[g] = "EX" => kernel[RepoOf[OwnerOf[g]]] = "EX"
         /\ guard[g] = "SH" => kernel[RepoOf[OwnerOf[g]]] \in {"SH", "EX"}
<1>i. /\ TypeOK /\ CallInv /\ MutexInv /\ DisabledInv
      /\ CountersMatchGuards /\ KernelMatchesCounters /\ KernelExclusion
  BY DEF IInv
<1>0. PICK r \in Repos : r = RepoOf[OwnerOf[g]]
  BY LockConstants DEF LockConstants
<1>1. ASSUME NEW type \in LockTypes, guard[g] = type
      PROVE  Cardinality(Held(r, type)) \in Nat \ {0}
  <2>1. Held(r, type) # {}
    BY <1>0, <1>1 DEF Held
  <2> QED
    BY <2>1, HeldGuards DEF Counting
<1> QED
  BY <1>0, <1>1, <1>i DEF TypeOK, CountersMatchGuards, KernelMatchesCounters, LockState, LockTypes

\* Every guard that is held has a kernel lock behind it.
Backed ==
    \A g \in Guards :
        Enabled(RepoOf[OwnerOf[g]]) /\ guard[g] # "UN" => kernel[RepoOf[OwnerOf[g]]] # "UN"

\* A step changes the state of at most one OstreeRepo, to one that is
\* compatible with the others: a step of the contract or a stutter.
LEMMA StepRefines ==
  ASSUME IInv, IInv', [Next]_vars
  PROVE  [Abs!Next]_([r \in Repos |-> LockState(r)])
<1>i. /\ TypeOK /\ CallInv /\ MutexInv /\ DisabledInv
      /\ CountersMatchGuards /\ KernelMatchesCounters /\ KernelExclusion
  BY DEF IInv
<1>j. KernelMatchesCounters' /\ KernelExclusion'
  BY DEF IInv
<1> DEFINE mode == [r \in Repos |-> LockState(r)]
<1> USE LockConstants DEF LockConstants
<1>1. \/ UNCHANGED <<shared, exclusive>>
      \/ \E r \in Repos : \A o \in Repos \ {r} :
            shared'[o] = shared[o] /\ exclusive'[o] = exclusive[o]
  <2>1. ASSUME NEW t \in Threads, Step(t) \/ PushCancelled(t)
        PROVE  \/ UNCHANGED <<shared, exclusive>>
               \/ \A o \in Repos \ {RepoOf[t]} :
                     shared'[o] = shared[o] /\ exclusive'[o] = exclusive[o]
    <3>1. ASSUME PushMaintain(t) \/ PushLock(t) \/ PopLock(t)
          PROVE  \A o \in Repos \ {RepoOf[t]} :
                     shared'[o] = shared[o] /\ exclusive'[o] = exclusive[o]
      BY <3>1, <1>i DEF TypeOK, PushMaintain, PushLock, PopLock, AddToCounter
    <3>2. ASSUME \/ PushWait(t) \/ PushRetry(t) \/ PushTimeout(t) \/ PushCancelled(t)
                 \/ FlockDrop(t) \/ PopWait(t) \/ PopRetry(t) \/ PopFail(t)
          PROVE  UNCHANGED <<shared, exclusive>>
      BY <3>2, Zenon DEF PushWait, PushRetry, PushTimeout, PushCancelled, FlockDrop, PopWait,
         PopRetry, PopFail
    <3>3. ASSUME PushOverflow(t)
          PROVE  \A o \in Repos \ {RepoOf[t]} :
                     shared'[o] = shared[o] /\ exclusive'[o] = exclusive[o]
      BY <3>3, <1>i DEF TypeOK, PushOverflow, Crash
    <3> QED
      BY <2>1, <3>1, <3>2, <3>3 DEF Step
  <2>2. ASSUME NEW r \in Repos, Crash(r)
        PROVE  \A o \in Repos \ {r} :
                  shared'[o] = shared[o] /\ exclusive'[o] = exclusive[o]
    BY <2>2, <1>i DEF TypeOK, Crash
  <2>3. ASSUME NEW t \in Threads, NEW g \in Guards,
               (\E type \in LockTypes : PushCall(t, g, type)) \/ PopCall(t, g)
        PROVE  UNCHANGED <<shared, exclusive>>
    BY <2>3 DEF PushCall, PopCall
  <2> QED
    BY <2>1, <2>2, <2>3 DEF Next, vars
<1>2. CASE UNCHANGED <<shared, exclusive>>
  BY <1>2 DEF LockState
<1>3. ASSUME NEW r \in Repos, \A o \in Repos \ {r} :
            shared'[o] = shared[o] /\ exclusive'[o] = exclusive[o]
      PROVE  Abs!Change(r, LockState(r)')
  <2>1. \A o \in Repos \ {r} : LockState(o)' = LockState(o)
    BY <1>3 DEF LockState
  <2>2. mode' = [mode EXCEPT ![r] = LockState(r)']
    BY <2>1, Zenon
  <2>3. \A o \in Repos \ {r} : Compatible(LockState(r)', LockState(o)')
    BY <1>j DEF KernelExclusion, KernelMatchesCounters
  <2> QED
    BY <2>1, <2>2, <2>3 DEF Abs!Change, Abs!Compatible, Compatible
<1>4. \A r \in Repos : LockState(r)' \in Abs!Modes
  BY DEF LockState, Abs!Modes
<1> QED
  BY <1>1, <1>2, <1>3, <1>4 DEF Abs!Next

(***************************************************************************)
(* The theorems.                                                           *)
(***************************************************************************)
\* There are finitely many guards, so their sets have a size.
LEMMA GuardsCount == Counting
<1> SUFFICES ASSUME NEW S \in SUBSET Guards
             PROVE  /\ Cardinality(S) \in Nat
                    /\ Cardinality(S) = 0 <=> S = {}
                    /\ \A g \in Guards \ S : Cardinality(S \cup {g}) = Cardinality(S) + 1
  BY DEF Counting
<1>1. IsFiniteSet(S)
  BY LockConstants, FS_Subset DEF LockConstants
<1> QED
  BY <1>1, FS_EmptySet, FS_AddElement, FS_CardinalityType

\* With OFD locks, the counters always count the guards that are held and the
\* kernel always holds the lock they stand for, so push_repo_lock and
\* pop_repo_lock decide correctly from the counters, and no user of an
\* OstreeRepo holds the lock in a way that is incompatible with what a user of
\* another OstreeRepo holds.
THEOREM Agreement ==
  ASSUME ~FlockFallback
  PROVE  Spec => []LocksAgree
<1>1. Init => IInv
  BY GuardsCount, InitIInv
<1>2. IInv /\ [Next]_vars => IInv'
  BY GuardsCount, NextIInv
<1>3. IInv => LocksAgree
  <2> SUFFICES ASSUME IInv PROVE LocksAgree
    OBVIOUS
  <2>1. IInv /\ TypeOK /\ CountersMatchGuards /\ KernelMatchesCounters
    BY DEF IInv
  <2>2. ASSUME NEW g \in Guards, NEW h \in Guards,
               RepoOf[OwnerOf[g]] # RepoOf[OwnerOf[h]],
               Enabled(RepoOf[OwnerOf[g]]), Enabled(RepoOf[OwnerOf[h]])
        PROVE  Compatible(guard[g], guard[h])
    <3>1. RepoOf[OwnerOf[g]] \in Repos /\ RepoOf[OwnerOf[h]] \in Repos
      BY LockConstants DEF LockConstants
    <3>2. guard[g] \in States /\ guard[h] \in States
      BY <2>1 DEF TypeOK
    <3>3. Compatible(kernel[RepoOf[OwnerOf[g]]], kernel[RepoOf[OwnerOf[h]]])
      BY <2>2, <3>1 DEF IInv, KernelExclusion
    <3>4. /\ guard[g] = "EX" => kernel[RepoOf[OwnerOf[g]]] = "EX"
          /\ guard[g] = "SH" => kernel[RepoOf[OwnerOf[g]]] \in {"SH", "EX"}
          /\ guard[h] = "EX" => kernel[RepoOf[OwnerOf[h]]] = "EX"
          /\ guard[h] = "SH" => kernel[RepoOf[OwnerOf[h]]] \in {"SH", "EX"}
      BY <2>1, <2>2, GuardsCount, HeldIsBacked, Zenon
    <3> QED
      BY <3>2, <3>3, <3>4 DEF Compatible, States
  <2> QED
    BY <2>1, <2>2 DEF LocksAgree, MutualExclusion
<1> QED
  BY <1>1, <1>2, <1>3, PTL DEF Spec

\* With OFD locks, no step takes the kernel lock away under a guard that stays
\* held: a failed or pending upgrade keeps the shared lock.
THEOREM Kept ==
  ASSUME ~FlockFallback
  PROVE  Spec => HeldIsKept
<1>1. Init => IInv
  BY GuardsCount, InitIInv
<1>2. IInv /\ [Next]_vars => IInv'
  BY GuardsCount, NextIInv
<1>3. IInv => Backed
  <2> SUFFICES ASSUME IInv, NEW g \in Guards, Enabled(RepoOf[OwnerOf[g]]), guard[g] # "UN"
               PROVE  kernel[RepoOf[OwnerOf[g]]] # "UN"
    BY DEF Backed
  <2>1. guard[g] \in LockTypes
    BY DEF IInv, TypeOK, States, LockTypes
  <2> QED
    BY <2>1, GuardsCount, HeldIsBacked DEF LockTypes
<1>4. Backed' =>
        [\A g \in Guards :
           LET r == RepoOf[OwnerOf[g]] IN
           Enabled(r) /\ guard[g] # "UN" /\ guard'[g] # "UN" => kernel'[r] # "UN"]_vars
  BY DEF Backed, Enabled
<1> QED
  BY <1>1, <1>2, <1>3, <1>4, PTL DEF Spec, HeldIsKept

\* With OFD locks, the counters implement the shared/exclusive contract.
THEOREM Refinement ==
  ASSUME ~FlockFallback
  PROVE  Spec => ImplementsContract
<1>1. Init => IInv /\ Abs!Init
  BY GuardsCount, InitIInv DEF Init, Abs!Init, LockState
<1>2. IInv /\ [Next]_vars => IInv'
  BY GuardsCount, NextIInv
<1>3. IInv /\ IInv' /\ [Next]_vars => [Abs!Next]_([r \in Repos |-> LockState(r)])
  BY StepRefines
<1> QED
  BY <1>1, <1>2, <1>3, PTL DEF Spec, ImplementsContract, Abs!Spec

-----------------------------------------------------------------------------
(* Blocking locks, one thread for each OstreeRepo *)

\* A thread that pushes exclusive holds exclusive if it holds shared.
NoUpgrade(t) ==
    pc[t] \in {"push", "wait"} /\ want[t] = "EX" =>
        \A g \in Guards : OwnerOf[g] = t /\ guard[g] = "SH" =>
            \E h \in Guards : OwnerOf[h] = t /\ guard[h] = "EX"

\* An OstreeRepo whose thread sleeps in the kernel has no lock that another
\* one could wait for.
WaitsWithNothing ==
    \A t \in Threads : NoUpgrade(t) /\ (pc[t] = "wait" => kernel[RepoOf[t]] = "UN")

\* The kernel lock of an OstreeRepo is shared or exclusive because a guard is.
LEMMA LockedByGuard ==
  ASSUME Counting, IInv, NEW r \in Repos, Enabled(r)
  PROVE  /\ LockState(r) = "SH" => \E g \in Guards : RepoOf[OwnerOf[g]] = r /\ guard[g] = "SH"
         /\ \A g \in Guards : RepoOf[OwnerOf[g]] = r /\ guard[g] = "EX" => LockState(r) = "EX"
<1>i. /\ TypeOK /\ CallInv /\ MutexInv /\ DisabledInv
      /\ CountersMatchGuards /\ KernelMatchesCounters /\ KernelExclusion
  BY DEF IInv
<1>1. /\ shared[r] = Cardinality(Held(r, "SH")) /\ exclusive[r] = Cardinality(Held(r, "EX"))
      /\ shared[r] \in Nat /\ exclusive[r] \in Nat
  BY <1>i DEF CountersMatchGuards, TypeOK
<1>2. \A type : Cardinality(Held(r, type)) = 0 <=> Held(r, type) = {}
  BY HeldGuards, Zenon DEF Counting
<1>3. (Held(r, "SH") = {} => shared[r] = 0) /\ (Held(r, "EX") # {} => exclusive[r] # 0)
  BY <1>1, <1>2
<1>4. LockState(r) = "SH" => Held(r, "SH") # {}
  BY <1>1, <1>3 DEF LockState
<1>5. Held(r, "EX") # {} => LockState(r) = "EX"
  BY <1>1, <1>3 DEF LockState
<1> QED
  BY <1>4, <1>5 DEF Held

\* Every step keeps it: a push of exclusive starts from no lock or from an
\* exclusive one, which covers it.
LEMMA NextWaits ==
  ASSUME Counting, IInv, ~FlockFallback, ~UpgradesAllowed,
         \A t, u \in Threads : RepoOf[t] = RepoOf[u] => t = u,
         WaitsWithNothing, [Next]_vars
  PROVE  WaitsWithNothing'
<1>i. /\ TypeOK /\ CallInv /\ MutexInv /\ DisabledInv
      /\ CountersMatchGuards /\ KernelMatchesCounters /\ KernelExclusion
  BY DEF IInv
<1>w. \A t \in Threads : NoUpgrade(t) /\ (pc[t] = "wait" => kernel[RepoOf[t]] = "UN")
  BY DEF WaitsWithNothing
<1> USE LockConstants DEF LockConstants
<1>1. ASSUME NEW t \in Threads, NEW g \in Guards, NEW type \in LockTypes,
             PushCall(t, g, type) \/ PopCall(t, g)
      PROVE  WaitsWithNothing'
  <2>1. ASSUME NEW u \in Threads PROVE NoUpgrade(u)'
    <3>1. CASE u = t
      BY <1>1, <2>1, <3>1, <1>i, <1>w DEF NoUpgrade, PushCall, PopCall, MayUpgrade, TypeOK, threadVars, LockTypes
    <3>2. CASE u # t
      BY <1>1, <2>1, <3>2, <1>i, <1>w DEF NoUpgrade, PushCall, PopCall, TypeOK, threadVars
    <3> QED
      BY <3>1, <3>2, Zenon
  <2>2. \A u \in Threads : pc'[u] = "wait" => kernel'[RepoOf[u]] = "UN"
    BY <1>1, <1>i, <1>w DEF PushCall, PopCall, TypeOK, threadVars
  <2> QED
    BY <2>1, <2>2 DEF WaitsWithNothing
<1>2. ASSUME NEW t \in Threads, PushWait(t) PROVE WaitsWithNothing'
  <2>1. kernel[RepoOf[t]] = "UN"
    <3>1. Enabled(RepoOf[t]) /\ RepoOf[t] \in Repos /\ kernel[RepoOf[t]] = LockState(RepoOf[t])
      BY <1>2, <1>i DEF CallInv, PushWait, KernelMatchesCounters
    <3>2. LockState(RepoOf[t]) \notin {"EX", want[t]} /\ want[t] \in LockTypes /\ NoUpgrade(t) /\ pc[t] = "push"
      BY <1>2, <1>i, <1>w DEF PushWait, Covered, TypeOK
    <3>3. LockState(RepoOf[t]) # "SH"
      <4> SUFFICES ASSUME LockState(RepoOf[t]) = "SH" PROVE FALSE
        OBVIOUS
      <4>1. want[t] = "EX"
        BY <3>2 DEF LockTypes
      <4>2. PICK g \in Guards : RepoOf[OwnerOf[g]] = RepoOf[t] /\ guard[g] = "SH"
        BY <3>1, LockedByGuard
      <4>3. OwnerOf[g] = t
        BY <4>2
      <4>4. PICK h \in Guards : OwnerOf[h] = t /\ guard[h] = "EX"
        BY <3>2, <4>1, <4>2, <4>3 DEF NoUpgrade
      <4> QED
        BY <3>1, <3>2, <4>4, LockedByGuard
    <3> QED
      BY <3>1, <3>2, <3>3 DEF LockState
  <2> QED
    BY <1>2, <2>1, <1>i, <1>w DEF WaitsWithNothing, NoUpgrade, PushWait, TypeOK
<1>3. ASSUME NEW t \in Threads,
             PushMaintain(t) \/ PushLock(t) \/ PushTimeout(t) \/ PushCancelled(t) \/ PopLock(t) \/ PopFail(t)
      PROVE  WaitsWithNothing'
  <2>1. /\ pc' = [pc EXCEPT ![t] = "idle"] /\ want' = want
        /\ cur[t] \in Guards /\ OwnerOf[cur[t]] = t
        /\ \E h \in States : guard' = [guard EXCEPT ![cur[t]] = h]
        /\ \A o \in Repos \ {RepoOf[t]} : kernel'[o] = kernel[o]
    <3>1. pc[t] # "idle"
      BY <1>3, Zenon DEF PushMaintain, PushLock, PushTimeout, PushCancelled, PopLock, PopFail,
         WouldBlock, PopWouldBlock
    <3>2. cur[t] \in Guards /\ OwnerOf[cur[t]] = t
      BY <3>1, <1>i DEF CallInv
    <3>3. want[t] \in States /\ guard[cur[t]] \in States /\ "UN" \in States
      BY <3>2, <1>i DEF TypeOK, LockTypes, States
    <3> QED
      BY <1>3, <3>2, <3>3, <1>i DEF PushMaintain, PushLock, PushTimeout, PushCancelled, PopLock, PopFail, Return, TypeOK
  <2>2. ASSUME NEW u \in Threads PROVE NoUpgrade(u)'
    BY <2>1, <1>i, <1>w DEF NoUpgrade, TypeOK
  <2>3. \A u \in Threads : pc'[u] = "wait" => kernel'[RepoOf[u]] = "UN"
    BY <2>1, <1>i, <1>w DEF TypeOK
  <2> QED
    BY <2>2, <2>3 DEF WaitsWithNothing
<1>4. ASSUME NEW t \in Threads, PushRetry(t) PROVE WaitsWithNothing'
  BY <1>4, <1>w DEF WaitsWithNothing, NoUpgrade, PushRetry
<1>5. ASSUME NEW r \in Repos, Crash(r) PROVE WaitsWithNothing'
  BY <1>5, <1>i, <1>w DEF WaitsWithNothing, NoUpgrade, Crash, TypeOK
<1>6. CASE UNCHANGED vars
  BY <1>6, <1>w DEF vars, WaitsWithNothing, NoUpgrade
<1>7. \A t \in Threads : ~FlockDrop(t) /\ ~PopWait(t) /\ ~PopRetry(t)
  BY NoPopWouldBlock DEF FlockDrop, PopWait, PopRetry
<1>8. ASSUME NEW t \in Threads, PushOverflow(t) PROVE WaitsWithNothing'
  BY <1>5, <1>8 DEF PushOverflow
<1> QED
  BY <1>1, <1>2, <1>3, <1>4, <1>5, <1>6, <1>7, <1>8 DEF Next, Step, LockTypes

\* Blocking locks taken without upgrades, by one thread for each OstreeRepo,
\* never wait for one another in a circle: push_repo_lock sleeps in the kernel
\* only with nothing locked.
THEOREM NoCycle ==
  ASSUME ~FlockFallback, ~UpgradesAllowed,
         \A t, u \in Threads : RepoOf[t] = RepoOf[u] => t = u
  PROVE  Spec => []NoWaitCycle
<1>1. Init => IInv /\ WaitsWithNothing
  BY GuardsCount, InitIInv DEF Init, WaitsWithNothing, NoUpgrade
<1>2. IInv /\ WaitsWithNothing /\ [Next]_vars => (IInv /\ WaitsWithNothing)'
  BY GuardsCount, NextIInv, NextWaits
<1>3. IInv /\ WaitsWithNothing => NoWaitCycle
  <2> SUFFICES ASSUME IInv, WaitsWithNothing,
                      NEW S \in (SUBSET {r \in Repos : mutex[r] # NoThread}) \ {{}}
               PROVE  \E r \in S : \A o \in S \ {r} : Compatible(want[mutex[r]], kernel[o])
    BY DEF NoWaitCycle
  <2>1. \A o \in S : mutex[o] \in Threads /\ RepoOf[mutex[o]] = o /\ pc[mutex[o]] = "wait"
    BY DEF IInv, MutexInv, TypeOK
  <2>2. \A o \in S : kernel[o] = "UN"
    BY <2>1 DEF WaitsWithNothing
  <2> QED
    BY <2>2 DEF Compatible
<1> QED
  BY <1>1, <1>2, <1>3, PTL DEF Spec
=============================================================================
