CONSTANTS
  Order = {o1}
  Deposit = {d1}
  Request = {r1, r2}
  Worker = {w1}
  Price <- Two
  Value <- DepositOfTwo
  Opening = 1
  None = None
  Moves <- CodeMoves
  MaxFaults = 1
SPECIFICATION Spec
CHECK_DEADLOCK FALSE
SYMMETRY Symmetry
INVARIANTS
  MoneyConserved
  CreditedIsPaid
