CONSTANTS
  s1 = s1
  s2 = s2
  r1 = r1
  r2 = r2
  ann = ann
  bob = bob
  Seeker = {s1, s2}
  Resource = {r1, r2}
  Unset = Unset
  BridgePlans <- SomeBridges
  t1 = t1
  t2 = t2
  t3 = t3
  t4 = t4
  acme = acme
  volt = volt
  Direct = Direct
  PlanId = {"p1", "p2"}
  Task = {t1, t2, t3, t4}
  CataloguePlans <- SomeTrades
  Person = {"ann", "bob", "cat", "dan", "eve"}
  Firm = {"acme", "volt", "zeta", "omega"}
  Visit = {"v1", "v2", "v3", "v4"}
  Credential = {"v1", "v2", "v3", "v4", "first", "second"}
  Nobody = "nobody"
  AccessPlans <- SomeOffices
  d1 = d1
  d2 = d2
  d3 = d3
  d4 = d4
  n1 = n1
  Line = {n1}
  Dial = {d1, d2, d3, d4}
  NoDial = NoDial
  LinePlans <- SomeLines
  Unowned = Unowned
  Chronicles <- SomeChronicles
  h1 = h1
  h2 = h2
  h3 = h3
  h4 = h4
  Hunt = {h1, h2, h3, h4}
  OfferPlans <- SomeBazaars
  Ours = "ours"
  Null = "null"
  Unsaid = Unsaid
  Never = Never
  KEPT = 2
  SHOWN = 1
  DEFAULT_MARKUP = 10
  j1 = j1
  j2 = j2
  j3 = j3
  j4 = j4
  Work = {j1, j2, j3, j4}
  AccessRoutes <- SomeSites
  Registered = {"mikrotik", "esim"}
  Secret = {"k1", "k2", "k3"}
  e1 = e1
  e2 = e2
  e3 = e3
  e4 = e4
  q1 = q1
  q2 = q2
  q3 = q3
  q4 = q4
  k1 = k1
  k2 = k2
  k3 = k3
  k4 = k4
  y1 = y1
  y2 = y2
  Rescuer = {y1, y2}
  NoRescuer = NoRescuer
  RecoveryCases <- SomeLeftovers
  u1 = u1
  Viewer = {u1}
  ViewPlans <- SomeScenes
  EdgeCall = {e1, e2, e3, e4}
  NoEdge = NoEdge
  EdgePlans <- SomeReports
  Pick = {q1, q2, q3, q4}
  PickPlans <- SomeProcurements
  CRITICAL = 90
  Clerk = {k1, k2, k3, k4}
  SettlementPlans <- SomeClerks
SPECIFICATION Spec
CHECK_DEADLOCK FALSE
INVARIANTS
  ServedByOwn
  CatalogueIsTrue
  WritesAreAllowed
  NumbersAreTrue
  
  SupplyIsTrue
