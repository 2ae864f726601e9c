CONSTANTS
  N = 2
  RING_SIZE = 2
  f1 = f1
  f2 = f2
  Foreign = {f1}
SPECIFICATION ControlSpec
INVARIANT NoRequestWithoutRing
