SPECIFICATION FairSpec
CONSTANTS
  b1 = b1
  b2 = b2
  Backends = {b1, b2}
  Static <- MCStatic
  Catalogues <- MCCatalogues
  WatchCap = 2
  MaxEvents = 3
PROPERTY DiscoveryReachesPool
