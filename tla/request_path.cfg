SPECIFICATION Spec
CONSTANTS
  east = east
  Backends = {b1, b2}
  Regions = {east}
  Region <- MCRegion
  Clients = {c1}
  Handlers = {q1, q2}
  Nil = nil
  MaxRequests = 2
  Interval = 1
  Timeout = 1
  TripAfter = 2
  MaxTime = 2
  MaxCount = 3
SYMMETRY Symmetry
INVARIANTS TypeOK ActiveMatches AnswersNeverTrip RefusedOnlyIfMoved
PROPERTY BreakersKeepPromise
