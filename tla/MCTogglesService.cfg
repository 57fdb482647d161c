\* Show asked again and again of two replicas whose clients work step by step, with an edit, a
\* restart, and a failure: a lost response, or an auth service that fails or hangs.
SPECIFICATION ServiceSpec
CONSTANTS
  Email <- MCEmail
  RedHatEmail = {}
  Description <- MCDescription
  Name <- OneName
  Settings <- LevelSettings
  Absent = absent
  Replica = {p1, p2}
  Caller = {c1}
  Person = {bob}
  NoToken = noToken
  BadToken = badToken
  Missing = missing
  Query <- ShowQuery
  Profile <- OneProfile
  Rank <- MCRankOne
  MaxEdits = 1
  MaxRestarts = 1
  MaxChanges = 0
  MaxFailures = 1
PROPERTIES
  ControllerKept
  EveryRequestEnds
  CallersCatchUp
