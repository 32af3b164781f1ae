CONSTANTS
  Regs <- MCRegs
  Vals <- MCVals
  Addrs <- MCAddrs
  Data <- MCData
  Cores <- MCCores
  Owners <- MCOwners
  Cmd <- MCCmd
  PageTable <- MCPageTable
  QmdAt <- MCQmdAt
  DrawAt <- MCDrawAt
  NoCmd <- MCNoCmd
  Cls <- MCCls
  MaxPosted = 10
  MissBusy = FALSE
  NoThread = "none"
  Threads <- Two
  OpsOf <- MCOpsOf
  DrainCmds <- MCDrainCmds
  RingSlots = 8
  MaxOps = 1
  SeqMod = 100
  RegFaults = FALSE
  Uses = {"foreign"}
SPECIFICATION MCSpec
INVARIANTS Synchronous
CHECK_DEADLOCK FALSE
