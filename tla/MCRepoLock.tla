----------------------------- MODULE MCRepoLock -----------------------------
(***************************************************************************)
(* Instance for TLC of RepoLock.  `part`, fixed in the initial state, says *)
(* which of three configurations runs.  "timeout" is the instance the      *)
(* constants of this module describe: an OstreeRepo with two threads next  *)
(* to one with a single thread, lock-timeout-secs = 1.  The two others     *)
(* have variables of their own and three OstreeRepos with one thread each  *)
(* that nests its acquisitions: "blocking" waits for ever, "flock" has no  *)
(* OFD locks.                                                              *)
(***************************************************************************)
EXTENDS RepoLock, TLC

CONSTANTS r1, r2, r3, t1, t2, t3, g1, g2, g3, g4, g5, None, Parts

VARIABLES part,
          nshared, nexclusive, nkernel, nmutex, npc, ncur, nwant, nwaited, nguard

nestedVars == <<nshared, nexclusive, nkernel, nmutex, npc, ncur, nwant, nwaited, nguard>>
mcVars == <<part, vars, nestedVars>>

TwoRepos == {r1, r2}
ThreeThreads == {t1, t2, t3}
FourGuards == {g1, g2, g3, g4}
SharedRepoOf == (t1 :> r1) @@ (t2 :> r1) @@ (t3 :> r2)
SharedOwnerOf == (g1 :> t1) @@ (g2 :> t1) @@ (g3 :> t2) @@ (g4 :> t3)

\* lock-timeout-secs = 1 everywhere
AllTimeout == [r \in Repos |-> 1]

ThreeRepos == {r1, r2, r3}
FiveGuards == {g1, g2, g3, g4, g5}
NestedRepoOf == (t1 :> r1) @@ (t2 :> r2) @@ (t3 :> r3)
NestedOwnerOf == (g1 :> t1) @@ (g2 :> t1) @@ (g3 :> t2) @@ (g4 :> t2) @@ (g5 :> t3)

\* one OstreeRepo blocks, the others have a timeout
Mixed == [r \in ThreeRepos |-> IF r = r1 THEN REPO_LOCK_BLOCKING ELSE 1]
\* one OstreeRepo is not writable, or has locking=false
OneDisabled == [r \in ThreeRepos |-> IF r = r3 THEN REPO_LOCK_DISABLED ELSE REPO_LOCK_BLOCKING]

B == INSTANCE RepoLock WITH
       Repos <- ThreeRepos, Threads <- ThreeThreads, Guards <- FiveGuards,
       RepoOf <- NestedRepoOf, OwnerOf <- NestedOwnerOf,
       lock_timeout_seconds <- OneDisabled, FlockFallback <- FALSE, UpgradesAllowed <- FALSE,
       shared <- nshared, exclusive <- nexclusive, kernel <- nkernel, mutex <- nmutex,
       pc <- npc, cur <- ncur, want <- nwant, waited <- nwaited, guard <- nguard

F == INSTANCE RepoLock WITH
       Repos <- ThreeRepos, Threads <- ThreeThreads, Guards <- FiveGuards,
       RepoOf <- NestedRepoOf, OwnerOf <- NestedOwnerOf,
       lock_timeout_seconds <- Mixed, FlockFallback <- TRUE, UpgradesAllowed <- TRUE,
       shared <- nshared, exclusive <- nexclusive, kernel <- nkernel, mutex <- nmutex,
       pc <- npc, cur <- ncur, want <- nwant, waited <- nwaited, guard <- nguard

NoNested ==
    /\ nshared = None /\ nexclusive = None /\ nkernel = None /\ nmutex = None
    /\ npc = None /\ ncur = None /\ nwant = None /\ nwaited = None /\ nguard = None

MCInit ==
    /\ part \in Parts /\ Init
    /\ CASE part = "timeout" -> NoNested
         [] part = "blocking" -> B!Init
         [] part = "flock" -> F!Init

TimeoutNext == part = "timeout" /\ Next /\ UNCHANGED <<part, nestedVars>>
BlockingNext == part = "blocking" /\ B!Next /\ UNCHANGED <<part, vars>>
FlockNext == part = "flock" /\ F!Next /\ UNCHANGED <<part, vars>>

MCNext == TimeoutNext \/ BlockingNext \/ FlockNext

\* A thread inside a call is scheduled.
MCSpec == MCInit /\ [][MCNext]_mcVars
          /\ \A t \in Threads : WF_mcVars(part = "timeout" /\ Step(t) /\ UNCHANGED <<part, nestedVars>>)
-----------------------------------------------------------------------------
(* Properties *)

\* Blocking locks taken the way the library takes them, with no upgrade from
\* shared, exclude one another, also next to an OstreeRepo that does not lock,
\* and never wait in a circle (NoWaitCycle of RepoLock).  With the flock
\* fallback the kernel lock may be lost on the way and the counters still count
\* the guards.
NestedLocksSound ==
    /\ part = "blocking" => B!MutualExclusion /\ B!NoWaitCycle
    /\ part = "flock" => F!CountersMatchGuards

\* "Multiple users can hold a shared lock concurrently while only one user can
\* hold an exclusive lock", with the flock fallback of do_repo_lock too.
FlockExclusion == part = "flock" => F!MutualExclusion
=============================================================================
