CONSTANTS
  s1 = s1
  s2 = s2
  r1 = r1
  r2 = r2
  r3 = r3
  d1 = d1
  d2 = d2
  Session = {s1, s2}
  Resource = {r1, r2, r3}
  Job = {d1, d2}
  Call = {}
  None = None
  Ghost = Ghost
  MAX_ATTEMPTS = 2
  Plans <- CronOnly
SPECIFICATION FairSpec
CHECK_DEADLOCK FALSE
PROPERTIES
  PendingIsExecuted
