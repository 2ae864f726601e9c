CONSTANTS
  N = 3
  RING_SIZE = 3
  f1 = f1
  f2 = f2
  Foreign = {f1}
SPECIFICATION ControlFairSpec
INVARIANTS TypeOK ReservationsFit BlockedCount
PROPERTIES SlotsRefined VcpuProgressOnceQuiet
