SPECIFICATION FairSpec
CONSTANTS
  MaxRequests = 2
  Interval = 2
  Timeout = 1
  TripAfter = 2
  Callers = {c1, c2}
  Readers = {r1, r2}
  MaxTime = 4
  MaxCount = 3
PROPERTIES OpenLapses HalfOpenResolves
