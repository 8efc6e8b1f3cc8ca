CONSTANTS
  Order = {o1, o2}
  Deposit = {}
  Request = {r1, r2}
  Worker = {w1}
  Price <- Two
  Value <- DepositOfTwo
  Opening = 3
  None = None
  Moves <- OperatorMoves
  MaxFaults = 1
SPECIFICATION Spec
CHECK_DEADLOCK FALSE
SYMMETRY Symmetry
INVARIANTS
  AuditTrail
  SettlementOrder
PROPERTIES
  FundsSpec
