CONSTANTS
  SenderTimeout = 2
  ReceiverTimeout = 2
  Overshoot = 1
  Latency = 1
  Version = "4.7"
SPECIFICATION Spec
INVARIANT NoFalseFailover
CHECK_DEADLOCK FALSE
