\* Show asked of two replicas, by somebody who signs in and out or opts in to
\* another level, with an edit, a restart and a lost or failed response.
SPECIFICATION Spec
CONSTANTS
  Email <- MCEmail
  RedHatEmail = {}
  Description <- MCDescription
  Name <- OneName
  Settings <- TwoSettings
  Absent = absent
  Replica = {p1, p2}
  Caller = {c1}
  Person = {bob}
  NoToken = noToken
  BadToken = badToken
  Missing = missing
  Query <- ShowQuery
  Profile <- TwoProfiles
  Rank <- MCRankOne
  MaxEdits = 1
  MaxRestarts = 1
  MaxChanges = 1
  MaxFailures = 1
INVARIANTS
  TypeOK
  AnswersAreCurrent
  ErrorsHaveACause
