CONSTANTS
  Regs <- MCRegs
  Vals <- MCVals
  Addrs <- MCAddrs
  Data <- MCData
  Cores <- MCCores
  Owners <- MCOwners
  Cmd <- MCCmd
  PageTable <- MCPageTable
  QmdAt <- MCQmdAt
  DrawAt <- MCDrawAt
  NoCmd <- MCNoCmd
  Cls <- MCCls
  MaxPosted = 10
  MissBusy = FALSE
  NoThread = "none"
  Threads <- Two
  OpsOf <- MCOpsOf
  DrainCmds <- MCDrainCmds
  RingSlots = 16
  MaxOps = 3
  SeqMod = 100
  RegFaults = TRUE
  Uses = {"alone", "shared", "launchers", "readers", "lines"}
SPECIFICATION MCSpec
INVARIANTS StateIsReplay Synchronous InOrder RingIntact Coherent RspIsFresh
PROPERTIES KernelUndisturbed EveryCommandRetires IsCommandStream LaunchesOwnDescriptor OpsComplete
CHECK_DEADLOCK FALSE
