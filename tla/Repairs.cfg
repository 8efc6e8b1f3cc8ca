CONSTANTS
  o1 = o1
  q1 = q1
  w1 = w1
  Worker = {w1, w2}
  Lease = 3
  Heartbeat = 1
  OpTimeout = 2
  None = None
  Punctual = TRUE
  Reconciler = FALSE
  OperatorMoves <- NoMoves
  MaxClock = 6
  MaxFaults = 1
  MaxCrashes = 1
  MaxExternal = 0
SPECIFICATION RepairSpec
CHECK_DEADLOCK FALSE
INVARIANTS
  LiveWorkerKeepsClaim
PROPERTIES
  ClaimSettles
  OrdersSettle
