CONSTANTS
  Worker = {w1, w2}
  Lease = 2
  Heartbeat = 1
  OpTimeout = 1
  None = None
  Punctual = FALSE
  Reconciler = TRUE
  OperatorMoves <- FailRetryRelease
  MaxClock = 3
  MaxFaults = 1
  MaxCrashes = 1
  MaxExternal = 1
SPECIFICATION SceneSpec
CHECK_DEADLOCK FALSE
SYMMETRY Symmetry
INVARIANTS
  BoundMeansProvisioned
PROPERTIES
  FenceSpec
  LegalTransitions
