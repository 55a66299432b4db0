SPECIFICATION Spec
CONSTANTS
  MaxRequests = 2
  Interval = 2
  Timeout = 1
  TripAfter = 2
  Callers = {c1, c2, c3}
  Readers = {r1, r2}
  MaxTime = 6
  MaxCount = 3
SYMMETRY Symmetry
INVARIANTS TypeOK InFlightAccounted OpenHasNoCalls HalfOpenNotStranded
PROPERTIES QuarantineRespected TripWithinInterval ImplementsPromise
