SPECIFICATION Spec
CONSTANTS
  useast = useast
  asia = asia
  v2 = v2
  premium = premium
  b8081 = b8081
  b8083 = b8083
  Requests = {useast, asia, v2, premium}
  Bucket <- MCBucket
  Backends = {b8081, b8083}
  Unknown = unknown
  Nil = nil
  Policies <- MainOnly
  MaxPolicies = 3
PROPERTY BackendOnlyOnRedirect
