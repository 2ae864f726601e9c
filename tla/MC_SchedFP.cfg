CONSTANTS
  Cpus = {0}
  Vcpus = {2, 3, 4}
  Doms = {0, 1, 2}
  Dom0 = 0
  DomOf <- MCSiblingDomOf
  HomeCpu <- MCHomeCpu
  Masks <- MCMasks
  AdjustOps <- MCOrderAdjustOps
  StrategyOps = {0, 1, 2}
  DOM0_SLICE = 1
  DOM0_PERIOD = 2
  STANDARD_SLICE = 1
  STANDARD_PERIOD = 2
  Idle = Idle
SPECIFICATION OrderSpec
INVARIANTS TypeOK GuestsSorted
