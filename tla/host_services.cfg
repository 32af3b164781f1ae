SPECIFICATION HostSpec
CONSTANTS
    Callers = {"main", "io"}
    First = "main"
    MayCall <- Roles
    OneAtFirst = TRUE
    Timeouts = TRUE
    MaxCalls = 3
    NoCaller = "nobody"
    Harts = {1, 2}
    SlotOf <- MCSlotOf
    RingSize = 2
    Word = 4
    Drainers = {"w1"}
    MaxPuts <- MCMaxPuts
    MaxFaults = 1
    q1 = q1
    q2 = q2
    NoQueue = NoQueue
    Queues <- TwoQueues
    MaxEvents = 3
    MaxValue = 2
    MaxRefs = 2
    Orders <- CrossOrders
    NullHandles = TRUE
    WorkFails = TRUE
INVARIANTS
    ReadyMeansDone
    EventOwned
    PrintedIsWritten
    ReferencesBalance
    InOrderCompletion
    StoppedDrained
    SuccessMeansDepsSucceeded
PROPERTIES
    CallsReturn
    FullIsRelieved
    CommandsComplete
CHECK_DEADLOCK FALSE
