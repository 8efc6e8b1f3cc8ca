CONSTANTS
  Order = {o1, o2}
  Request = {r1, r2}
  Own <- OneEach
  MaxIntents = 1
  f1 = f1
  f2 = f2
  Offer <- TwoOffers
  Cost <- Prices
  Ceiling = 12
  None = None
  MaxRows = 6
  MaxFaults = 1
SPECIFICATION FairSpec
CHECK_DEADLOCK FALSE
INVARIANTS
  CreditCovered
PROPERTIES
  SelectionFrozen
  PaidIsDelivered
