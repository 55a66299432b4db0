SPECIFICATION Spec
CONSTANTS
  Backends = {b1, b2}
  Instances = {i1, i2}
  Requests = {q1, q2}
  Nil = nil
  Shared = TRUE
  RedisErrors = TRUE
INVARIANTS TypeOK RedisRemembers AssignmentKept
PROPERTY SettledStays
