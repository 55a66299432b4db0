SPECIFICATION Spec
CONSTANTS
  Backends = {b1, b2}
  Instances = {i1}
  Requests = {q1, q2}
  Nil = nil
  Shared = FALSE
  RedisErrors = FALSE
INVARIANT ConcurrentKept
