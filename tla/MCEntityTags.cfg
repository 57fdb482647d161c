\* A group asked again after two edits between two polls, by a caller without a token.
SPECIFICATION ServiceSpec
CONSTANTS
  Email <- MCEmail
  RedHatEmail = {}
  Description <- MCDescription
  Name <- TwoNames
  Settings <- MCSettings
  Absent = absent
  Replica = {p1}
  Caller = {c1}
  Person = {}
  NoToken = noToken
  BadToken = badToken
  Missing = missing
  Query <- OneQuery
  Profile = {}
  Rank <- MCRank
  MaxEdits = 2
  MaxRestarts = 0
  MaxChanges = 0
  MaxFailures = 0
INVARIANT NotModifiedMeansUnchanged
