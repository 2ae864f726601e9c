CONSTANTS
  Cpus = {0, 1}
  Vcpus = {1, 2, 3}
  Doms = {0, 1}
  Dom0 = 0
  DomOf <- MCDomOf
  HomeCpu <- MCHomeCpu
  Masks <- MCMasks
  AdjustOps <- MCAdjustOps
  StrategyOps = {0, 1, 2, 3}
  DOM0_SLICE = 1
  DOM0_PERIOD = 2
  STANDARD_SLICE = 1
  STANDARD_PERIOD = 2
  Idle = Idle
SPECIFICATION MigrateSpec
INVARIANT SingleExecution
