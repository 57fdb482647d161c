\* A group, a list that names one feature twice, and no question at all, asked of one replica
\* while a feature is edited.
SPECIFICATION Spec
CONSTANTS
  Email <- MCEmail
  RedHatEmail = {}
  Description <- MCDescription
  Name <- TwoNames
  Settings <- ThreeSettings
  Absent = absent
  Replica = {p1}
  Caller = {c1}
  Person = {bob}
  NoToken = noToken
  BadToken = badToken
  Missing = missing
  Query <- ListQueries
  Profile <- TwoProfiles
  Rank <- MCRank
  MaxEdits = 1
  MaxRestarts = 0
  MaxChanges = 0
  MaxFailures = 0
INVARIANTS
  AnswersAreCurrent
  UnchangedIsNotModified
  ErrorsHaveACause
