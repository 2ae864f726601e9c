CONSTANTS
  Cpus = {0, 1}
  Vcpus = {1, 2}
  Doms = {0, 1}
  Dom0 = 0
  DomOf <- MCDomOfTwo
  HomeCpu <- MCHomeCpu
  Masks <- MCMasksWide
  AdjustOps <- MCAdjustOps
  StrategyOps = {0, 1, 2, 3}
  DOM0_SLICE = 1
  DOM0_PERIOD = 2
  STANDARD_SLICE = 1
  STANDARD_PERIOD = 2
  Idle = Idle
SPECIFICATION StrategyMigrateSpec45
INVARIANTS TypeOK45 RunqSorted QueuedOnce RunnableIsAwake
