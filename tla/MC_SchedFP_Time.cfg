CONSTANTS
  Cpus = {0}
  Vcpus = {2, 3}
  Doms = {0, 1}
  Dom0 = 0
  DomOf <- MCSiblingDomOf
  HomeCpu <- MCHomeCpu
  Masks <- MCMasks
  AdjustOps <- MCAdjustOps
  StrategyOps = {0, 1, 2, 3}
  DOM0_SLICE = 9
  DOM0_PERIOD = 10
  STANDARD_SLICE = 5
  STANDARD_PERIOD = 10
  Idle = Idle
SPECIFICATION TimeSpec
PROPERTY EventuallyRuns
VIEW MCRmView
