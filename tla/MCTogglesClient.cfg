\* Seven questions from three users, two edits while they are answered.
SPECIFICATION Spec
CONSTANTS
  Email <- MCEmail
  RedHatEmail <- MCRedHatEmail
  Description = {"d"}
  Name <- TwoNames
  Settings <- FourSettings
  Absent = absent
  Calls <- AnswerCalls
  Request = {r1}
  MaxEdits = 2
  MaxRestarts = 0
INVARIANTS
  TypeOK
  Explained
  FailureHasACause
PROPERTY PromiseKept
