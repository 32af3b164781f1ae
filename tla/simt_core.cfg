SPECIFICATION Spec
CONSTANTS
    Cores = {1, 2}
    NumWarps = 3
    NumThreads = 4
    LmemCapacity = 8
    MemBlockSize = 4
    Kernels <- MCKernels
    MaxLaunches = 2
    NumBarriers = 1
    Apps <- MCApps
    MaxIterations = 2
INVARIANTS
    TypeOK
    OneReleaser
    NoEarlyPass
    ThreadsRunOnce
    EachWarpOnce
    WarpCoversItsThreads
    SlotAccounting
    LmemDisjoint
PROPERTIES
    KernelCompletes
CHECK_DEADLOCK FALSE
