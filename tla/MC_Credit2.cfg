CONSTANTS
  Cpus <- MCCpus
  v1 = v1
  v2 = v2
  v3 = v3
  Vcpus = {v1, v2, v3}
  Doms = {"d1", "d2"}
  Rqs = {"rq0"}
  RunqMap <- MCRunqMap
  DomOf <- MCDomOf
  Affinity <- MCAffinity
  Weights = {1}
  DEFAULT_WEIGHT = 1
  CREDIT_INIT = 1
  CARRYOVER_MAX = 1
  MIGRATE_RESIST = 1
  MIGRATE_COMPENSATION = 1
  IDLE_CREDIT <- MCIdleCredit
  MaxElapsed = 1
  CreditFloor <- MCCreditFloor
  CreditCeil = 3
  Idle = Idle
  None = None

SYMMETRY MCSymmetry
SPECIFICATION SchedSpec
INVARIANTS
  TypeOK
  RunqMembership
  DelayedRequeue
  SingleExecution
  RunqSorted
  LoadCount
PROPERTIES
  StartsInTheBlack
