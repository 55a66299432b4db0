SPECIFICATION Spec
CONSTANTS
  b1 = b1
  b2 = b2
  east = east
  Backends = {b1, b2}
  Regions = {east, asia}
  Pool <- MCPool
  Weight <- MCWeight
  Region <- MCRegion
  Default = default
  Nil = nil
  Handlers = {h1, h2}
  MaxTickets = 3
  MaxEvents = 1
SYMMETRY Symmetry
INVARIANTS TypeOK NoFalseOutage RegionAffinity WeightedShare
