SPECIFICATION Spec
CONSTANTS
    c1 = c1  c2 = c2  c3 = c3  c4 = c4
    k1 = k1  k2 = k2  k3 = k3
    quiet = quiet  debug = debug
    None = None
    Commits <- FourCommits
    Kernels <- ThreeKernels
    KernelOf <- SharedKernel
    Kargs <- TwoKargs
    Boot0 = c1
    MaxSerial = 1
    MaxDeployments = 3
    Workloads <- StagedPrune
CHECK_DEADLOCK FALSE
INVARIANTS StagedFirstIsRetained
