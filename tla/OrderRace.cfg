CONSTANTS
  Order = {o1}
  Request = {r1, r2}
  Own <- Anyone
  MaxIntents = 2
  f1 = f1
  f2 = f2
  Offer <- OneOffer
  Cost <- Prices
  Ceiling = 7
  None = None
  MaxRows = 2
  MaxFaults = 1
SPECIFICATION Spec
CHECK_DEADLOCK FALSE
SYMMETRY Symmetry
INVARIANTS
  DeliveryIsReal
PROPERTIES
  PurchaseSpec
