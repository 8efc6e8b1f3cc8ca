CONSTANTS
  p1 = p1
  p2 = p2
  Request = {q1, q2}
  Payload = {pa, pb}
  Reconciler = {k1, k2}
  NoOne = NoOne
  OpBounds <- SomeBounds
  Change = {p1, p2}
  ChangePlans <- SomeChanges
  Evaluator = {p1, p2}
  NoKey = NoKey
  NoVersion = NoVersion
  EVENT_MAX_ATTEMPTS = 2
  Operation = {p1, p2}
  OperationPlans <- SomeOperations
  Recoverer = {p1, p2}
  NoRecoverer = NoRecoverer
  Mutation = {p1, p2}
  Flush = {p1, p2}
  NoMutation = NoMutation
  OutboxPlans <- SomeQueues
  Uploader = {p1, p2}
  ObservationPlans <- SomeObservations
  MAX_OBSERVATIONS = 3
  MAX_BATCH_SIZE = 2
  r1 = r1
  r2 = r2
  Report = {r1, r2, r3}
  Ingester = {i1, i2}
  HealthPlans = {}
  SAMPLE_N = 3
  MIN_DEGRADED_COUNT = 2
  FRESH_TICKS = 1
  STALE_TICKS = 2
  WINDOW_TICKS = 2
  MAX_AGE_TICKS = 2
  MAX_PER_WINDOW = 2
  MIN_SAMPLES_FOR_SWITCH = 3
  Edit = {p1, p2}
  Decider = {d1}
  DecisionPlans <- SomeDecisions
  Unset = Unset
  q1 = q1
  q2 = q2
  q3 = q3
  Asker = {q1, q2, q3, q4}
  Scope = {"key1", "key2", "tenant", "path"}
  Limit <- LimitOfScope
  PRUNE_AGE = 1
  LastMinute = 1
  RatePlans <- SomeRequests
  Call = {q1, q2, q3}
  MAX_RETRIES = 1
  SupplierPlans <- SomeCalls
SPECIFICATION Spec
CHECK_DEADLOCK FALSE
INVARIANTS
  TypeOK
  AnswersAreTrue
  VersionChain
  VerdictIsTrue
  OutboxesForgetNothing
  DecisionIsJustified
  RateLimitKept
  AnsweredHolds
PROPERTIES
  ChangesAndVerdictsCome
  OutboxesDrain
