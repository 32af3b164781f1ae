SPECIFICATION DispatchSpec
CONSTANTS
    Cores = {c1, c2}
    NumWarps = 4
    NumThreads = 2
    LmemCapacity = 8
    MemBlockSize = 4
    Kernels <- ClusterKernels
    MaxLaunches = 1
INVARIANTS
    ClusterCoResident
CHECK_DEADLOCK FALSE
