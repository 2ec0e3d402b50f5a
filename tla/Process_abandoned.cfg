CONSTANTS
  Checks = {c1, c2}
  Dependencies = {d1}
  Ttl = 2
  ProbeTimeout = 2
  Requests = {r1, r2}
  Deadline = 2
SPECIFICATION Spec
INVARIANTS
  NobodyWorksOnAClosedPool
CHECK_DEADLOCK FALSE
