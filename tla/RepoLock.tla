------------------------------ MODULE RepoLock ------------------------------
(***************************************************************************)
(* The repository lock of ostree-repo.c: the shared and exclusive counters *)
(* of an OstreeRepo, pushed and popped by its threads under lock.mutex,    *)
(* over one kernel lock per OstreeRepo on the file ".lock".                *)
(*                                                                         *)
(* A guard is one acquisition (an OstreeRepoAutoLock, or a push paired     *)
(* with a pop by hand).  A thread executes its calls one after the other,  *)
(* so a thread that waits for one guard cannot pop another one.            *)
(***************************************************************************)
EXTENDS Integers, FiniteSets

CONSTANTS
    Repos,                 \* the OstreeRepo structures open on one repository
    Threads, RepoOf,       \* RepoOf[t]: the OstreeRepo thread t uses
    Guards, OwnerOf,       \* OwnerOf[g]: the thread whose acquisition g is
    lock_timeout_seconds,  \* per OstreeRepo: disabled, blocking or a timeout
    G_MAXUINT,             \* the largest value of a counter
    FlockFallback,         \* TRUE when the kernel refuses OFD locks (EINVAL)
    UpgradesAllowed,       \* TRUE when users push exclusive on top of shared
    NoThread, NoGuard

REPO_LOCK_DISABLED == -2
REPO_LOCK_BLOCKING == -1

ASSUME LockConstants ==
    /\ RepoOf \in [Threads -> Repos]
    /\ OwnerOf \in [Guards -> Threads]
    /\ IsFiniteSet(Guards)
    /\ lock_timeout_seconds \in [Repos -> Int]
    /\ \A r \in Repos : lock_timeout_seconds[r] >= REPO_LOCK_DISABLED
    /\ G_MAXUINT \in Nat \ {0}
    /\ FlockFallback \in BOOLEAN
    /\ UpgradesAllowed \in BOOLEAN
    /\ NoThread \notin Threads
    /\ NoGuard \notin Guards

VARIABLES
    shared, exclusive,     \* self->lock.shared, self->lock.exclusive
    kernel,                \* the lock the kernel holds for the fd of ".lock"
    mutex,                 \* the thread inside a blocking or two-step lock call
    pc, cur, want, waited, \* per thread: the call in progress and its arguments
    guard                  \* per guard: the lock its owner believes it holds

vars == <<shared, exclusive, kernel, mutex, pc, cur, want, waited, guard>>
threadVars == <<pc, cur, want, waited>>

LockTypes == {"SH", "EX"}
States == {"UN", "SH", "EX"}

Enabled(r) == lock_timeout_seconds[r] # REPO_LOCK_DISABLED
Blocking(r) == lock_timeout_seconds[r] = REPO_LOCK_BLOCKING

Init ==
    /\ shared = [r \in Repos |-> 0]
    /\ exclusive = [r \in Repos |-> 0]
    /\ kernel = [r \in Repos |-> "UN"]
    /\ mutex = [r \in Repos |-> NoThread]
    /\ pc = [t \in Threads |-> "idle"]
    /\ cur = [t \in Threads |-> NoGuard]
    /\ want = [t \in Threads |-> "SH"]
    /\ waited = [t \in Threads |-> 0]
    /\ guard = [g \in Guards |-> "UN"]

\* repo_lock_info: the state the counters stand for.
LockState(r) ==
    IF exclusive[r] > 0 THEN "EX" ELSE IF shared[r] > 0 THEN "SH" ELSE "UN"

Compatible(m, n) == m = "UN" \/ n = "UN" \/ (m = "SH" /\ n = "SH")

\* The kernel can give r the lock m now.
Grantable(r, m) == \A o \in Repos \ {r} : Compatible(m, kernel[o])

\* lock.mutex is free, or t itself is in the middle of a lock call.
MayEnter(t) == mutex[RepoOf[t]] \in {NoThread, t}

Counter(r, type) == IF type = "EX" THEN exclusive[r] ELSE shared[r]

\* Mutant: a pop always decrements the shared counter.
MutAddToCounterPop(r, type, d) ==
    /\ exclusive' = [exclusive EXCEPT ![r] = IF type = "EX" /\ d > 0 THEN @ + d ELSE @]
    /\ shared' = [shared EXCEPT ![r] = IF type = "SH" \/ d < 0 THEN @ + d ELSE @]

\* (*counter)++ and (*counter)--
AddToCounter(r, type, d) ==
    /\ exclusive' = [exclusive EXCEPT ![r] = IF type = "EX" THEN @ + d ELSE @]
    /\ shared' = [shared EXCEPT ![r] = IF type = "SH" THEN @ + d ELSE @]

\* The call of t returns; the guard it was about is now h.
Return(t, h) ==
    /\ pc' = [pc EXCEPT ![t] = "idle"]
    /\ cur' = [cur EXCEPT ![t] = NoGuard]
    /\ waited' = [waited EXCEPT ![t] = 0]
    /\ guard' = [guard EXCEPT ![cur[t]] = h]
    /\ UNCHANGED want

Release(t) == mutex' = [mutex EXCEPT ![RepoOf[t]] = NoThread]

-----------------------------------------------------------------------------
(* ostree_repo_lock_push *)

\* Mutant: callers push exclusive on top of shared.
MutMayUpgrade(t) == TRUE

\* How the callers in the library use the lock: none of them pushes exclusive
\* while all it holds is shared.
MayUpgrade(t) ==
    LET own == {guard[g] : g \in {h \in Guards : OwnerOf[h] = t}} IN
    UpgradesAllowed \/ ("SH" \in own => "EX" \in own)

\* Entry of ostree_repo_lock_push; with locking disabled it returns at once.
PushCall(t, g, type) ==
    /\ pc[t] = "idle" /\ OwnerOf[g] = t /\ guard[g] = "UN"
    /\ type = "EX" => MayUpgrade(t)
    /\ IF Enabled(RepoOf[t])
       THEN /\ pc' = [pc EXCEPT ![t] = "push"]
            /\ cur' = [cur EXCEPT ![t] = g]
            /\ want' = [want EXCEPT ![t] = type]
            /\ waited' = [waited EXCEPT ![t] = 0]
            /\ UNCHANGED guard
       ELSE /\ guard' = [guard EXCEPT ![g] = type]
            /\ UNCHANGED threadVars
    /\ UNCHANGED <<shared, exclusive, kernel, mutex>>

\* Mutant: any lock that is held is taken for a sufficient one.
MutCoveredAny(t) == LockState(RepoOf[t]) # "UN"

\* The counters already stand for this lock or a stronger one.
Covered(t) == LockState(RepoOf[t]) \in {"EX", want[t]}

CounterRoom(t) == Counter(RepoOf[t], want[t]) < G_MAXUINT

PushMaintain(t) ==
    /\ pc[t] = "push" /\ mutex[RepoOf[t]] = NoThread
    /\ CounterRoom(t) /\ Covered(t)
    /\ AddToCounter(RepoOf[t], want[t], 1)
    /\ Return(t, want[t])
    /\ UNCHANGED <<kernel, mutex>>

\* flock() converts a lock by dropping it before it asks for the new one;
\* fcntl(F_OFD_SETLK) converts it in one step.
Dropped(r) == FlockFallback => kernel[r] = "UN"

FlockDrop(t) ==
    LET r == RepoOf[t] IN
    /\ FlockFallback /\ kernel[r] # "UN" /\ mutex[r] = NoThread
    /\ \/ pc[t] = "push" /\ CounterRoom(t) /\ ~Covered(t)
       \/ pc[t] = "pop" /\ exclusive[r] = 1 /\ want[t] = "EX" /\ shared[r] > 0
    /\ kernel' = [kernel EXCEPT ![r] = "UN"]
    /\ mutex' = [mutex EXCEPT ![r] = t]
    /\ UNCHANGED <<shared, exclusive, threadVars, guard>>

\* do_repo_lock succeeds, at once or after a wait inside the kernel.
PushLock(t) ==
    LET r == RepoOf[t] IN
    /\ pc[t] \in {"push", "wait"} /\ MayEnter(t)
    /\ CounterRoom(t) /\ ~Covered(t) /\ Dropped(r)
    /\ Grantable(r, want[t])
    /\ kernel' = [kernel EXCEPT ![r] = want[t]]
    /\ AddToCounter(r, want[t], 1)
    /\ Return(t, want[t])
    /\ Release(t)

\* A blocking do_repo_lock sleeps in the kernel and keeps lock.mutex.
PushWait(t) ==
    LET r == RepoOf[t] IN
    /\ pc[t] = "push" /\ MayEnter(t) /\ Blocking(r)
    /\ CounterRoom(t) /\ ~Covered(t) /\ Dropped(r)
    /\ ~Grantable(r, want[t])
    /\ pc' = [pc EXCEPT ![t] = "wait"]
    /\ mutex' = [mutex EXCEPT ![r] = t]
    /\ UNCHANGED <<shared, exclusive, kernel, cur, want, waited, guard>>

\* A non-blocking do_repo_lock fails with EWOULDBLOCK.
WouldBlock(t) ==
    LET r == RepoOf[t] IN
    /\ pc[t] = "push" /\ MayEnter(t) /\ ~Blocking(r)
    /\ CounterRoom(t) /\ ~Covered(t) /\ Dropped(r)
    /\ ~Grantable(r, want[t])

\* Mutant: the seconds waited are not counted.
MutPushRetry(t) ==
    /\ WouldBlock(t)
    /\ waited[t] < lock_timeout_seconds[RepoOf[t]]
    /\ Release(t)
    /\ UNCHANGED <<shared, exclusive, kernel, threadVars, guard>>

\* ... and the caller sleeps a second and tries again,
PushRetry(t) ==
    /\ WouldBlock(t)
    /\ waited[t] < lock_timeout_seconds[RepoOf[t]]
    /\ waited' = [waited EXCEPT ![t] = @ + 1]
    /\ Release(t)
    /\ UNCHANGED <<shared, exclusive, kernel, pc, cur, want, guard>>

\* Mutant: the counter is updated although the lock was not obtained.
MutPushTimeout(t) ==
    /\ WouldBlock(t)
    /\ waited[t] >= lock_timeout_seconds[RepoOf[t]]
    /\ Return(t, "UN")
    /\ Release(t)
    /\ AddToCounter(RepoOf[t], want[t], 1)
    /\ UNCHANGED kernel

\* ... or gives up, and the push fails.
PushTimeout(t) ==
    /\ WouldBlock(t)
    /\ waited[t] >= lock_timeout_seconds[RepoOf[t]]
    /\ Return(t, "UN")
    /\ Release(t)
    /\ UNCHANGED <<shared, exclusive, kernel>>

\* The cancellable is looked at before every non-blocking attempt.
PushCancelled(t) ==
    /\ pc[t] = "push" /\ ~Blocking(RepoOf[t]) /\ mutex[RepoOf[t]] # t
    /\ Return(t, "UN")
    /\ UNCHANGED <<shared, exclusive, kernel, mutex>>

-----------------------------------------------------------------------------
(* ostree_repo_lock_pop *)

PopCall(t, g) ==
    /\ pc[t] = "idle" /\ OwnerOf[g] = t /\ guard[g] # "UN"
    /\ IF Enabled(RepoOf[t])
       THEN /\ pc' = [pc EXCEPT ![t] = "pop"]
            /\ cur' = [cur EXCEPT ![t] = g]
            /\ want' = [want EXCEPT ![t] = guard[g]]
            /\ waited' = [waited EXCEPT ![t] = 0]
            /\ UNCHANGED guard
       ELSE /\ guard' = [guard EXCEPT ![g] = "UN"]
            /\ UNCHANGED threadVars
    /\ UNCHANGED <<shared, exclusive, kernel, mutex>>

\* Mutant: the last exclusive pop is taken for one of several.
MutPopStateStuck(r, type) ==
    IF shared[r] + exclusive[r] = 1 THEN "UN"
    ELSE IF exclusive[r] > 0 THEN "EX" ELSE "SH"

\* Mutant: unlock when this type's counter, not the whole depth, is one.
MutPopStateUnlocks(r, type) ==
    IF Counter(r, type) = 1 THEN "UN"
    ELSE IF exclusive[r] > (IF type = "EX" THEN 1 ELSE 0) THEN "EX" ELSE "SH"

\* next_state of pop_repo_lock
PopState(r, type) ==
    IF shared[r] + exclusive[r] = 1 THEN "UN"
    ELSE IF exclusive[r] > (IF type = "EX" THEN 1 ELSE 0) THEN "EX" ELSE "SH"

\* The pop goes through: unlock, maintain the lock, or return it to shared.
PopLock(t) ==
    LET r == RepoOf[t]
        next == PopState(r, want[t])
        converts == next = "SH" /\ LockState(r) = "EX"
    IN
    /\ pc[t] \in {"pop", "popwait"} /\ MayEnter(t)
    /\ Counter(r, want[t]) > 0
    /\ converts => Dropped(r) /\ Grantable(r, "SH")
    /\ kernel' = [kernel EXCEPT ![r] =
                     IF next = "UN" \/ converts THEN next ELSE @]
    /\ AddToCounter(r, want[t], -1)
    /\ Return(t, "UN")
    /\ Release(t)

\* The return to shared would block: only after flock dropped the lock and
\* another OstreeRepo took it exclusive in the meantime.
PopWouldBlock(t) ==
    LET r == RepoOf[t] IN
    /\ pc[t] = "pop" /\ MayEnter(t)
    /\ PopState(r, want[t]) = "SH" /\ LockState(r) = "EX"
    /\ Dropped(r) /\ ~Grantable(r, "SH")

PopWait(t) ==
    /\ PopWouldBlock(t) /\ Blocking(RepoOf[t])
    /\ pc' = [pc EXCEPT ![t] = "popwait"]
    /\ mutex' = [mutex EXCEPT ![RepoOf[t]] = t]
    /\ UNCHANGED <<shared, exclusive, kernel, cur, want, waited, guard>>

PopRetry(t) ==
    /\ PopWouldBlock(t) /\ ~Blocking(RepoOf[t])
    /\ waited[t] < lock_timeout_seconds[RepoOf[t]]
    /\ waited' = [waited EXCEPT ![t] = @ + 1]
    /\ Release(t)
    /\ UNCHANGED <<shared, exclusive, kernel, pc, cur, want, guard>>

\* Mutant: a failed pop is taken for a release.
MutPopFail(t) ==
    /\ ~Blocking(RepoOf[t])
    /\ \/ PopWouldBlock(t) /\ waited[t] >= lock_timeout_seconds[RepoOf[t]]
       \/ pc[t] = "pop" /\ mutex[RepoOf[t]] # t
    /\ Return(t, "UN")
    /\ mutex' = [mutex EXCEPT ![RepoOf[t]] = IF @ = t THEN NoThread ELSE @]
    /\ UNCHANGED <<shared, exclusive, kernel>>

\* The pop fails and the counter keeps counting the guard.
PopFail(t) ==
    /\ ~Blocking(RepoOf[t])
    /\ \/ PopWouldBlock(t) /\ waited[t] >= lock_timeout_seconds[RepoOf[t]]
       \/ pc[t] = "pop" /\ mutex[RepoOf[t]] # t       \* cancelled
    /\ Return(t, guard[cur[t]])
    /\ mutex' = [mutex EXCEPT ![RepoOf[t]] = IF @ = t THEN NoThread ELSE @]
    /\ UNCHANGED <<shared, exclusive, kernel>>

-----------------------------------------------------------------------------
\* The process that owns r dies, by itself or in g_error; the kernel drops
\* the lock with its descriptor.
Crash(r) ==
    LET mine == {t \in Threads : RepoOf[t] = r} IN
    /\ shared' = [shared EXCEPT ![r] = 0]
    /\ exclusive' = [exclusive EXCEPT ![r] = 0]
    /\ kernel' = [kernel EXCEPT ![r] = "UN"]
    /\ mutex' = [mutex EXCEPT ![r] = NoThread]
    /\ pc' = [t \in Threads |-> IF t \in mine THEN "idle" ELSE pc[t]]
    /\ cur' = [t \in Threads |-> IF t \in mine THEN NoGuard ELSE cur[t]]
    /\ waited' = [t \in Threads |-> IF t \in mine THEN 0 ELSE waited[t]]
    /\ guard' = [g \in Guards |-> IF OwnerOf[g] \in mine THEN "UN" ELSE guard[g]]
    /\ UNCHANGED want

\* "Repo lock ... counter would overflow": g_error aborts the process.
PushOverflow(t) ==
    /\ pc[t] = "push" /\ mutex[RepoOf[t]] = NoThread /\ ~CounterRoom(t)
    /\ Crash(RepoOf[t])

\* The steps of a call in progress; once called, a thread keeps running.
Step(t) ==
    \/ PushMaintain(t) \/ PushLock(t) \/ PushWait(t) \/ PushRetry(t)
    \/ PushTimeout(t) \/ PushOverflow(t) \/ FlockDrop(t)
    \/ PopLock(t) \/ PopWait(t) \/ PopRetry(t) \/ PopFail(t)

Next ==
    \/ \E t \in Threads, g \in Guards :
          (\E type \in LockTypes : PushCall(t, g, type)) \/ PopCall(t, g)
    \/ \E t \in Threads : Step(t) \/ PushCancelled(t)
    \/ \E r \in Repos : Crash(r)

Spec == Init /\ [][Next]_vars

\* A thread inside a call is scheduled.
FairSpec == Spec /\ \A t \in Threads : WF_vars(Step(t))
-----------------------------------------------------------------------------
(* Properties *)

\* Every variable has its type, for any number of OstreeRepos, threads and
\* guards: repo->lock and what the callers of push and pop keep.
TypeOK ==
    /\ shared \in [Repos -> Nat] /\ exclusive \in [Repos -> Nat]
    /\ kernel \in [Repos -> States]
    /\ mutex \in [Repos -> Threads \cup {NoThread}]
    /\ pc \in [Threads -> {"idle", "push", "wait", "pop", "popwait"}]
    /\ cur \in [Threads -> Guards \cup {NoGuard}]
    /\ want \in [Threads -> LockTypes]
    /\ waited \in [Threads -> Nat]
    /\ guard \in [Guards -> States]

\* The guards of OstreeRepo r that hold a lock of this type.
Held(r, type) == {g \in Guards : RepoOf[OwnerOf[g]] = r /\ guard[g] = type}

\* No acquisition is ever lost or counted twice: the counters of an OstreeRepo
\* are the numbers of guards its threads hold, whatever the interleaving of
\* pushes, pops, failed attempts and cancellations.
CountersMatchGuards ==
    \A r \in Repos : Enabled(r) =>
        /\ shared[r] = Cardinality(Held(r, "SH"))
        /\ exclusive[r] = Cardinality(Held(r, "EX"))

\* Outside a two-step conversion the kernel holds for every OstreeRepo exactly
\* the lock its counters stand for, so push_repo_lock and pop_repo_lock may
\* decide from the counters alone whether to call the kernel.
KernelMatchesCounters == \A r \in Repos : kernel[r] = LockState(r)

\* "Multiple users can hold a shared lock concurrently while only one user can
\* hold an exclusive lock": what the owners of guards of different OstreeRepos
\* believe they hold is compatible.
MutualExclusion ==
    \A g, h \in Guards :
        LET r == RepoOf[OwnerOf[g]]
            o == RepoOf[OwnerOf[h]]
        IN r # o /\ Enabled(r) /\ Enabled(o) => Compatible(guard[g], guard[h])

\* The counters count the guards that are held, the kernel lock is the one that
\* they stand for, and so no two users of different OstreeRepos hold locks that
\* exclude one another.
LocksAgree ==
    TypeOK /\ CountersMatchGuards /\ KernelMatchesCounters /\ MutualExclusion

\* The threads blocked in the kernel never wait for one another in a circle:
\* in every set of OstreeRepos with a waiting thread there is one that waits
\* for none of the others.
NoWaitCycle ==
    \A S \in (SUBSET {r \in Repos : mutex[r] # NoThread}) \ {{}} :
        \E r \in S : \A o \in S \ {r} : Compatible(want[mutex[r]], kernel[o])

\* A user that holds the lock shared keeps it while others come and go: in no
\* step does the kernel lock disappear under a guard that is held before and
\* after the step (a failed upgrade must not lose the shared lock).
HeldIsKept ==
    [][\A g \in Guards :
          LET r == RepoOf[OwnerOf[g]] IN
          Enabled(r) /\ guard[g] # "UN" /\ guard'[g] # "UN" => kernel'[r] # "UN"]_vars

\* With a timeout every push and every pop returns, because attempts are
\* bounded and lock.mutex is never kept over a wait.
CallsReturn ==
    \A t \in Threads :
        ~Blocking(RepoOf[t]) => (pc[t] # "idle" ~> pc[t] = "idle")

\* The counters implement the contract of a shared/exclusive lock.
Abs == INSTANCE RepoLockAbs WITH mode <- [r \in Repos |-> LockState(r)]
ImplementsContract == Abs!Spec
=============================================================================
