CONSTANTS
  Worker = {w1, w2}
  SaasPlans <- SomeTenants
  host = host
  guest = guest
  friend = friend
  User = {host, guest, friend}
  u1 = u1
  u2 = u2
  manual = manual
  Use = {u1, u2, manual}
  ByHand = {manual}
  Recipients <- SomeRecipients
  c1 = c1
  c2 = c2
  Caller = {c1, c2}
  Order = {0, 1}
  REWARD = 200
  Renewer = {r1, r2}
  Owner = guest
  NumberPlans <- SomeNumbers
  o1 = o1
  o2 = o2
  w1 = w1
  w2 = w2
  w3 = w3
  w4 = w4
  Purchase = {o1, o2}
  Run = {w1, w2, w3, w4}
  NoRun = NoRun
  Simulated = Simulated
  Unasked = Unasked
  SalePlans <- SomeSales
  Payout = {c1, c2}
  Sold = {o1, o2}
  PayoutPlans <- SomePayouts
SPECIFICATION Spec
CHECK_DEADLOCK FALSE
INVARIANTS
  TypeOK
  ServedIsPaid
  ShopIsSquare
PROPERTIES
  PaymentsSettle
  CreditIsBookedOnce
