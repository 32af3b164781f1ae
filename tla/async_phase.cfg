SPECIFICATION Spec
CONSTANTS
    Cores = {1}
    NumWarps = 2
    NumThreads = 4
    LmemCapacity = 8
    MemBlockSize = 4
    Kernels <- LongAsyncKernels
    MaxLaunches = 1
    NumBarriers = 1
    Apps <- LongAsyncApps
    MaxIterations = 2
INVARIANTS
    NoEarlyPass
CHECK_DEADLOCK FALSE
