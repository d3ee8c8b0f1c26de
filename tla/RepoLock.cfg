SPECIFICATION MCSpec
CONSTANTS
    r1 = r1  r2 = r2  r3 = r3
    t1 = t1  t2 = t2  t3 = t3
    g1 = g1  g2 = g2  g3 = g3  g4 = g4  g5 = g5
    NoThread = NoThread  NoGuard = NoGuard  None = None
    G_MAXUINT = 2
    Threads <- ThreeThreads
    Repos <- TwoRepos
    Guards <- FourGuards
    RepoOf <- SharedRepoOf
    OwnerOf <- SharedOwnerOf
    lock_timeout_seconds <- AllTimeout
    FlockFallback = FALSE
    UpgradesAllowed = TRUE
    Parts = {"timeout", "blocking", "flock"}
INVARIANTS LocksAgree NestedLocksSound
PROPERTIES HeldIsKept ImplementsContract CallsReturn
