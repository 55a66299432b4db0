SPECIFICATION Spec
CONSTANTS
  Callers = {c1, c2, c3}
  Capacity = 2
  Warmup = 2
  Rate = 2
  Unit = 3
  MaxTime = 6
  MaxSpent = 20
INVARIANTS TypeOK RateBound
