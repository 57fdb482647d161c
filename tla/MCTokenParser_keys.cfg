\* One failure of the auth service.
SPECIFICATION Spec
CONSTANTS
  Process = {p1}
  Key = {k1, k2, ec}
  RsaKey = {k1, k2}
  NoKey = noKey
  MaxRotations = 0
  MaxFailures = 1
  MaxCrashes = 0
INVARIANT ServingMeansKeysWereRead
