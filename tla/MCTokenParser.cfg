\* Two rotations, two failures of the auth service and a crash.
SPECIFICATION Spec
CONSTANTS
  Process = {p1}
  Key = {k1, k2, ec}
  RsaKey = {k1, k2}
  NoKey = noKey
  MaxRotations = 2
  MaxFailures = 2
  MaxCrashes = 1
INVARIANTS
  TypeOK
  JudgedByTheKeysOfTheStart
  AllKeysOrNone
PROPERTY ProcessesServe
